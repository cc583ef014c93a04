-------------------------- MODULE ReservationsProofs ------------------------
(***************************************************************************)
(* For every finite set of commands, boundaries and model calls and every  *)
(* limit: no limit of the resource stores is exceeded, and what was given  *)
(* back or charged is final.                                               *)
(*                                                                         *)
(* The limits are bounds of sums.  The first part proves what the steps do *)
(* to a sum: it loses nothing but the summand that is taken out, and it is *)
(* monotone.  The second part is the invariance of the limits.             *)
(***************************************************************************)
EXTENDS Reservations, FiniteSetTheorems, WellFoundedInduction, TLAPS

-----------------------------------------------------------------------------
(* Induction, stated for sets *)

\* A set of naturals that holds 0 and the successors of its members is Nat.
LEMMA NatInd ==
  ASSUME NEW T \in SUBSET Nat, 0 \in T, \A n \in T : n + 1 \in T
  PROVE  T = Nat
  <1> DEFINE Below == {p \in Nat \X Nat : p[1] < p[2]}
  <1>1. IsWellFoundedOn(Below, Nat)
    BY NatLessThanWellFounded DEF OpToRel
  <1> SUFFICES ASSUME Nat \ T # {} PROVE FALSE
    OBVIOUS
  <1>2. \E n \in Nat \ T : \A m \in Nat \ T : ~(<<m, n>> \in Below)
    <2> HIDE DEF Below
    <2> QED
      BY <1>1, WFMin
  <1>3. PICK n \in Nat \ T : \A m \in Nat \ T : ~(m < n)
    BY <1>2
  <1>4. n - 1 \in T
    BY <1>3
  <1> QED
    BY <1>3, <1>4

\* A set of subsets of a finite set that holds the empty set and grows by any element
\* holds every subset.
LEMMA SubsetInd ==
  ASSUME NEW D, IsFiniteSet(D), NEW T \in SUBSET (SUBSET D),
         {} \in T, \A s \in T : \A x \in D : s \cup {x} \in T
  PROVE  T = SUBSET D
  <1> DEFINE R == StrictSubsetOrdering(D)
             Rest == (SUBSET D) \ T
  <1>1. IsWellFoundedOn(R, SUBSET D)
    BY FS_StrictSubsetOrderingWellFounded, FS_FiniteSubsetsOfFinite
  <1> SUFFICES ASSUME Rest # {} PROVE FALSE
    OBVIOUS
  <1>2. \E s \in Rest : \A u \in Rest : ~(<<u, s>> \in R)
    <2>1. Rest \subseteq SUBSET D
      OBVIOUS
    <2> HIDE DEF R, Rest
    <2> QED
      BY <1>1, <2>1, WFMin
  <1>3. PICK s \in Rest : \A u \in Rest : ~(u \subseteq s /\ u # s)
    BY <1>2 DEF StrictSubsetOrdering
  <1>4. PICK x \in s : TRUE
    BY <1>3
  <1>5. s \ {x} \in T
    BY <1>3, <1>4
  <1> QED
    BY <1>3, <1>4, <1>5

-----------------------------------------------------------------------------
(* Sums *)

\* The element a fold takes first.
First(s) == CHOOSE x \in s : TRUE

\* g holds the sum of f over every subset of its domain.
IsSum(g, f) ==
  g = [s \in SUBSET DOMAIN f |-> IF s = {} THEN 0 ELSE f[First(s)] + g[s \ {First(s)}]]

(* SumFunction is the entry for the whole domain of the function that adds one element at a time. *)
LEMMA SumIsChosen ==
  ASSUME NEW f
  PROVE  SumFunction(f) = (CHOOSE g : IsSum(g, f))[DOMAIN f]
  BY DEF SumFunction, SumFunctionOnSet, FoldFunctionOnSet, MapThenFoldSet, IsSum, First

(* The element the sum takes next is one of those left. *)
LEMMA FirstIn == ASSUME NEW s, s # {} PROVE First(s) \in s
  BY DEF First
\* A set of subsets of a finite set that holds each one whose proper subsets it holds
\* holds every subset.
LEMMA SubsetStrongInd ==
  ASSUME NEW D, IsFiniteSet(D), NEW T \in SUBSET (SUBSET D),
         \A s \in SUBSET D : (\A u \in SUBSET D : u \subseteq s /\ u # s => u \in T) => s \in T
  PROVE  T = SUBSET D
  <1> DEFINE R == StrictSubsetOrdering(D)
             Rest == (SUBSET D) \ T
  <1>1. IsWellFoundedOn(R, SUBSET D)
    BY FS_StrictSubsetOrderingWellFounded, FS_FiniteSubsetsOfFinite
  <1> SUFFICES ASSUME Rest # {} PROVE FALSE
    OBVIOUS
  <1>2. \E s \in Rest : \A u \in Rest : ~(<<u, s>> \in R)
    <2>1. Rest \subseteq SUBSET D
      OBVIOUS
    <2> HIDE DEF R, Rest
    <2> QED
      BY <1>1, <2>1, WFMin
  <1>3. PICK s \in Rest : \A u \in Rest : ~(u \subseteq s /\ u # s)
    BY <1>2 DEF StrictSubsetOrdering
  <1> QED
    BY <1>3

\* A finite function of naturals has its sums.
LEMMA SumExists ==
  ASSUME NEW D, IsFiniteSet(D), NEW f \in [D -> Nat]
  PROVE  \E g : IsSum(g, f)
  <1> DEFINE Upto(n, g) == \A s \in SUBSET D : Cardinality(s) <= n =>
                             g[s] = IF s = {} THEN 0 ELSE f[First(s)] + g[s \ {First(s)}]
             T == {n \in Nat : \E g \in [SUBSET D -> Nat] : Upto(n, g)}
  <1>1. \A s \in SUBSET D : IsFiniteSet(s) /\ Cardinality(s) \in Nat
    BY FS_Subset, FS_CardinalityType
  <1>2. \A s \in SUBSET D : s # {} =>
          /\ First(s) \in s /\ s \ {First(s)} \in SUBSET D
          /\ Cardinality(s \ {First(s)}) = Cardinality(s) - 1
    BY <1>1, FirstIn, FS_RemoveElement
  <1>3. 0 \in T
    <2>1. \A s \in SUBSET D : Cardinality(s) <= 0 => s = {}
      BY <1>1, FS_EmptySet
    <2>2. Upto(0, [s \in SUBSET D |-> 0])
      BY <2>1
    <2> QED
      BY <2>2
  <1>4. ASSUME NEW n \in T PROVE n + 1 \in T
    <2>1. PICK g \in [SUBSET D -> Nat] : Upto(n, g)
      BY <1>4
    <2> DEFINE h == [s \in SUBSET D |->
                 IF Cardinality(s) <= n THEN g[s]
                 ELSE IF s = {} THEN 0 ELSE f[First(s)] + g[s \ {First(s)}]]
    <2>2. h \in [SUBSET D -> Nat]
      BY <1>2
    <2>3. ASSUME NEW s \in SUBSET D, Cardinality(s) <= n + 1
          PROVE  h[s] = IF s = {} THEN 0 ELSE f[First(s)] + h[s \ {First(s)}]
      <3>1. CASE s = {}
        BY <3>1, <2>1
      <3>2. CASE s # {}
        <4>1. s \ {First(s)} \in SUBSET D /\ Cardinality(s \ {First(s)}) <= n
          BY <1>1, <1>2, <2>3, <3>2
        <4>2. h[s \ {First(s)}] = g[s \ {First(s)}]
          BY <4>1
        <4> QED
          BY <3>2, <4>2, <2>1
      <3> QED
        BY <3>1, <3>2
    <2>4. Upto(n + 1, h)
      BY <2>3
    <2>5. n \in Nat
      OBVIOUS
    <2> HIDE DEF h, Upto
    <2> QED
      BY <2>2, <2>4, <2>5
  <1>5. T = Nat
    <2>1. T \in SUBSET Nat
      OBVIOUS
    <2> HIDE DEF T
    <2> QED
      BY <1>3, <1>4, <2>1, NatInd
  <1>6. PICK g \in [SUBSET D -> Nat] : Upto(Cardinality(D), g)
    BY <1>5, <1>1
  <1>7. \A s \in SUBSET D : Cardinality(s) <= Cardinality(D)
    BY FS_Subset
  <1>8. \A s \in SUBSET D : g[s] = IF s = {} THEN 0 ELSE f[First(s)] + g[s \ {First(s)}]
    BY <1>6, <1>7
  <1> QED
    BY <1>8 DEF IsSum

Sums(g, f, D) ==
  /\ g[{}] = 0
  /\ \A s \in SUBSET D : g[s] \in Nat /\ \A x \in s : g[s] = f[x] + g[s \ {x}]

\* A sum over a subset is the sum over what is left of it and any one of its summands.
LEMMA SumAny ==
  ASSUME NEW D, IsFiniteSet(D), NEW f \in [D -> Nat], NEW g, IsSum(g, f)
  PROVE  Sums(g, f, D)
  <1> DEFINE T == {s \in SUBSET D : g[s] \in Nat /\ \A x \in s : g[s] = f[x] + g[s \ {x}]}
  <1>1. \A s \in SUBSET D : g[s] = IF s = {} THEN 0 ELSE f[First(s)] + g[s \ {First(s)}]
    BY DEF IsSum
  <1>2. ASSUME NEW s \in SUBSET D, \A u \in SUBSET D : u \subseteq s /\ u # s => u \in T
        PROVE  s \in T
    <2>1. CASE s = {}
      <3>1. g[s] = 0
        BY <1>1, <2>1
      <3> QED
        BY <2>1, <3>1
    <2>2. CASE s # {}
      <3> DEFINE y == First(s)
      <3>1. y \in s
        BY <2>2, FirstIn
      <3> HIDE DEF y
      <3>2. g[s] = f[y] + g[s \ {y}]
        BY <1>1, <2>2 DEF y
      <3>3. s \ {y} \in T
        BY <1>2, <3>1
      <3>4. g[s] \in Nat
        BY <3>1, <3>2, <3>3
      <3>5. ASSUME NEW x \in s, x # y PROVE g[s] = f[x] + g[s \ {x}]
        <4>1. g[s \ {y}] = f[x] + g[(s \ {y}) \ {x}]
          BY <3>3, <3>5
        <4>2. s \ {x} \in T /\ y \in s \ {x}
          BY <1>2, <3>1, <3>5
        <4>3. g[s \ {x}] = f[y] + g[(s \ {x}) \ {y}]
          BY <4>2
        <4>4. (s \ {x}) \ {y} = (s \ {y}) \ {x}
          OBVIOUS
        <4>5. (s \ {x}) \ {y} \in T
          BY <1>2, <3>1
        <4>6. g[(s \ {x}) \ {y}] \in Nat /\ f[x] \in Nat /\ f[y] \in Nat
          BY <3>1, <4>5
        <4>7. g[s] = f[y] + (f[x] + g[(s \ {x}) \ {y}])
          BY <3>2, <4>1, <4>4
        <4> HIDE DEF T
        <4> QED
          BY <4>3, <4>6, <4>7
      <3> QED
        BY <3>2, <3>4, <3>5
    <2> QED
      BY <2>1, <2>2
  <1>3. T = SUBSET D
    <2>1. T \in SUBSET (SUBSET D)
      OBVIOUS
    <2> HIDE DEF T
    <2> QED
      BY <1>2, <2>1, SubsetStrongInd
  <1> QED
    BY <1>1, <1>3 DEF Sums

\* A sum over fewer and smaller summands is no larger.
LEMMA SumBelow ==
  ASSUME NEW D, IsFiniteSet(D), NEW f \in [D -> Nat], NEW E \in SUBSET D, NEW h \in [E -> Nat],
         \A x \in E : h[x] <= f[x], NEW g, IsSum(g, f), NEW k, IsSum(k, h)
  PROVE  k[E] <= g[D]
  <1> DEFINE T == {s \in SUBSET D : k[s \cap E] <= g[s]}
  <1>1. IsFiniteSet(E)
    BY FS_Subset
  <1>2. /\ g[{}] = 0
        /\ \A s \in SUBSET D : g[s] \in Nat /\ \A x \in s : g[s] = f[x] + g[s \ {x}]
    BY SumAny DEF Sums
  <1>3. /\ k[{}] = 0
        /\ \A s \in SUBSET E : k[s] \in Nat /\ \A x \in s : k[s] = h[x] + k[s \ {x}]
    <2>1. Sums(k, h, E)
      BY <1>1, SumAny
    <2> QED
      BY <2>1 DEF Sums
  <1>4. {} \in T
    <2>1. {} \cap E = {}
      OBVIOUS
    <2> QED
      BY <1>2, <1>3, <2>1
  <1>5. ASSUME NEW s \in T, NEW x \in D PROVE s \cup {x} \in T
    <2>1. CASE x \in s
      <3>1. s \cup {x} = s
        BY <2>1
      <3> QED
        BY <3>1
    <2>2. CASE x \notin s
      <3>1. (s \cup {x}) \ {x} = s
        BY <2>2
      <3>2. g[s \cup {x}] = f[x] + g[s]
        BY <1>2, <3>1
      <3>3. CASE x \in E
        <4>1. (s \cup {x}) \cap E = (s \cap E) \cup {x} /\ ((s \cap E) \cup {x}) \ {x} = s \cap E
          BY <2>2, <3>3
        <4>2. k[(s \cap E) \cup {x}] = h[x] + k[s \cap E]
          BY <1>3, <3>3, <4>1
        <4>3. /\ k[s \cap E] \in Nat /\ g[s] \in Nat /\ k[s \cap E] <= g[s]
              /\ h[x] \in Nat /\ f[x] \in Nat /\ h[x] <= f[x]
          BY <1>2, <1>3, <3>3
        <4>4. k[(s \cup {x}) \cap E] <= g[s \cup {x}]
          BY <3>2, <4>1, <4>2, <4>3
        <4> QED
          BY <4>4
      <3>4. CASE x \notin E
        <4>1. (s \cup {x}) \cap E = s \cap E
          BY <3>4
        <4>2. k[s \cap E] \in Nat /\ g[s] \in Nat /\ k[s \cap E] <= g[s] /\ f[x] \in Nat
          <5>1. s \cap E \in SUBSET E /\ s \in SUBSET D /\ k[s \cap E] <= g[s]
            OBVIOUS
          <5> QED
            BY <1>2, <1>3, <5>1
        <4>3. k[(s \cup {x}) \cap E] = k[s \cap E]
          BY <4>1, Zenon
        <4>4. k[(s \cup {x}) \cap E] <= g[s \cup {x}]
          BY <3>2, <4>2, <4>3
        <4> QED
          BY <4>4
      <3> QED
        BY <3>3, <3>4
    <2> QED
      BY <2>1, <2>2
  <1>6. T = SUBSET D
    <2>1. T \in SUBSET (SUBSET D)
      OBVIOUS
    <2> HIDE DEF T
    <2> QED
      BY <1>4, <1>5, <2>1, SubsetInd
  <1>7. D \cap E = E
    OBVIOUS
  <1> QED
    BY <1>6, <1>7

\* What a sum is, for SumFunction itself.
LEMMA SumMonotone ==
  ASSUME NEW D, IsFiniteSet(D), NEW f \in [D -> Nat], NEW E \in SUBSET D, NEW h \in [E -> Nat],
         \A x \in E : h[x] <= f[x]
  PROVE  SumFunction(h) \in Nat /\ SumFunction(f) \in Nat /\ SumFunction(h) <= SumFunction(f)
  <1> DEFINE g == CHOOSE u : IsSum(u, f)
             k == CHOOSE u : IsSum(u, h)
  <1>1. IsFiniteSet(E)
    BY FS_Subset
  <1>2. IsSum(g, f) /\ IsSum(k, h)
    BY <1>1, SumExists
  <1>3. SumFunction(f) = g[D] /\ SumFunction(h) = k[E]
    BY SumIsChosen
  <1> HIDE DEF g, k
  <1>4. g[D] \in Nat /\ k[E] \in Nat
    <2>1. Sums(g, f, D) /\ Sums(k, h, E)
      BY <1>1, <1>2, SumAny
    <2> QED
      BY <2>1 DEF Sums
  <1> QED
    BY <1>2, <1>3, <1>4, SumBelow

(* A sum over a finite set is one term plus the sum over the others. *)
LEMMA SumSplit ==
  ASSUME NEW D, IsFiniteSet(D), NEW f \in [D -> Nat], NEW x \in D, NEW h \in [D \ {x} -> Nat],
         \A y \in D \ {x} : h[y] = f[y]
  PROVE  SumFunction(f) = f[x] + SumFunction(h) /\ SumFunction(h) \in Nat
  <1> DEFINE E == D \ {x}
             g == CHOOSE u : IsSum(u, f)
             k == CHOOSE u : IsSum(u, h)
  <1>1. IsFiniteSet(E)
    BY FS_Subset
  <1>2. IsSum(g, f) /\ IsSum(k, h)
    BY <1>1, SumExists
  <1>3. SumFunction(f) = g[D] /\ SumFunction(h) = k[E]
    BY SumIsChosen
  <1> HIDE DEF g, k
  <1>4. /\ \A s \in SUBSET D : g[s] \in Nat /\ \A y \in s : g[s] = f[y] + g[s \ {y}]
        /\ g[{}] = 0
    BY <1>2, SumAny DEF Sums
  <1>5. /\ \A s \in SUBSET E : k[s] \in Nat /\ \A y \in s : k[s] = h[y] + k[s \ {y}]
        /\ k[{}] = 0
    <2>1. Sums(k, h, E)
      BY <1>1, <1>2, SumAny
    <2> QED
      BY <2>1 DEF Sums
  <1> DEFINE T == {s \in SUBSET E : k[s] = g[s]}
  <1>6. {} \in T
    BY <1>4, <1>5
  <1>7. ASSUME NEW s \in T, NEW y \in E PROVE s \cup {y} \in T
    <2>1. CASE y \in s
      <3>1. s \cup {y} = s
        BY <2>1
      <3> QED
        BY <3>1
    <2>2. CASE y \notin s
      <3>1. (s \cup {y}) \ {y} = s
        BY <2>2
      <3>2. g[s \cup {y}] = f[y] + g[s] /\ k[s \cup {y}] = h[y] + k[s]
        <4>1. y \in s \cup {y} /\ s \cup {y} \in SUBSET D /\ s \cup {y} \in SUBSET E
          OBVIOUS
        <4>2. g[s \cup {y}] = f[y] + g[(s \cup {y}) \ {y}]
          BY <1>4, <4>1
        <4>3. k[s \cup {y}] = h[y] + k[(s \cup {y}) \ {y}]
          BY <1>5, <4>1
        <4> QED
          BY <3>1, <4>2, <4>3
      <3> QED
        BY <3>2
    <2> QED
      BY <2>1, <2>2
  <1>8. T = SUBSET E
    <2>1. T \in SUBSET (SUBSET E)
      OBVIOUS
    <2> HIDE DEF T, E
    <2> QED
      BY <1>1, <1>6, <1>7, <2>1, SubsetInd
  <1>9. k[E] = g[E] /\ g[D] = f[x] + g[E] /\ k[E] \in Nat
    BY <1>4, <1>5, <1>8
  <1> QED
    BY <1>3, <1>9
\* Fewer and smaller summands and one more: the sum grows by no more than that one.
LEMMA SumGrow ==
  ASSUME NEW D, IsFiniteSet(D), NEW f \in [D -> Nat],
         NEW E, IsFiniteSet(E), NEW h \in [E -> Nat], NEW x \in E,
         E \ {x} \subseteq D, \A y \in E \ {x} : h[y] <= f[y]
  PROVE  /\ SumFunction(f) \in Nat /\ SumFunction(h) \in Nat
         /\ SumFunction(h) <= SumFunction(f) + h[x]
  <1> DEFINE C == E \ {x}
             k == [y \in C |-> h[y]]
  <1>1. k \in [C -> Nat] /\ C \in SUBSET D /\ \A y \in C : k[y] <= f[y]
    OBVIOUS
  <1>2. SumFunction(h) = h[x] + SumFunction(k)
    BY SumSplit
  <1> HIDE DEF C, k
  <1>3. SumFunction(k) \in Nat /\ SumFunction(f) \in Nat /\ SumFunction(k) <= SumFunction(f)
    BY <1>1, SumMonotone
  <1> QED
    BY <1>2, <1>3

\* A sum of zeros is zero.
LEMMA SumZero ==
  ASSUME NEW D, IsFiniteSet(D), NEW f \in [D -> Nat], \A x \in D : f[x] = 0
  PROVE  SumFunction(f) = 0
  <1> DEFINE g == CHOOSE u : IsSum(u, f)
             T == {s \in SUBSET D : g[s] = 0}
  <1>1. IsSum(g, f)
    BY SumExists
  <1>2. SumFunction(f) = g[D]
    BY SumIsChosen
  <1> HIDE DEF g
  <1>3. Sums(g, f, D)
    BY <1>1, SumAny
  <1>4. {} \in T
    BY <1>3 DEF Sums
  <1>5. ASSUME NEW s \in T, NEW x \in D PROVE s \cup {x} \in T
    <2>1. CASE x \in s
      <3>1. s \cup {x} = s
        BY <2>1
      <3> QED
        BY <3>1
    <2>2. CASE x \notin s
      <3>1. (s \cup {x}) \ {x} = s /\ s \cup {x} \in SUBSET D /\ x \in s \cup {x}
        BY <2>2
      <3>2. g[s \cup {x}] = f[x] + g[s]
        BY <1>3, <3>1 DEF Sums
      <3> QED
        BY <3>2
    <2> QED
      BY <2>1, <2>2
  <1>6. T = SUBSET D
    <2>1. T \in SUBSET (SUBSET D)
      OBVIOUS
    <2> HIDE DEF T
    <2> QED
      BY <1>4, <1>5, <2>1, SubsetInd
  <1> QED
    BY <1>2, <1>6

-----------------------------------------------------------------------------
(* The types *)

(* The empty quota, run and model accounts have the types. *)
LEMMA ResTypeInit == ResInit => ResTypeOK
  BY ResAssumption DEF ResInit, ResTypeOK, ResNoRow, ActiveStates, ModelStates, NoReservation

ResRowType == {ResNoRow} \cup [state : {"reserved", "released", "expired"},
                               principal : ResPrincipals, amount : ResAmounts, expires : Nat]

\* A sweep of the rows keeps them rows, and leaves every row that is not overdue.
LEMMA ExpiredRows ==
  ASSUME NEW rows \in [ResCommands -> ResRowType], NEW commands, resNow \in Nat
  PROVE  /\ ResExpired(rows, commands) \in [ResCommands -> ResRowType]
         /\ \A c \in ResCommands :
              \/ ResExpired(rows, commands)[c] = rows[c]
              \/ /\ rows[c].state = "reserved" /\ rows[c].expires <= resNow
                 /\ ResExpired(rows, commands)[c].state = "expired"
  BY DEF ResExpired, ResHeld, ResRowType, ResNoRow, NoReservation
(* What the sweep in a reservation does to the rows: only rows past their expiry change, and they become expired. *)
LEMMA ReserveRows ==
  ASSUME ResTypeOK, NEW c \in ResCommands, NEW p \in ResPrincipals, NEW a \in ResAmounts,
         ResReserve(c, p, a)
  PROVE  \E swept \in [ResCommands -> ResRowType], kept \in [ResCommands -> ResRowType] :
           /\ \A d \in ResCommands :
                \/ swept[d] = resRows[d]
                \/ resRows[d].expires <= resNow /\ swept[d].state = "expired"
           /\ \A d \in ResCommands :
                \/ kept[d] = resRows[d]
                \/ resRows[d].expires <= resNow /\ kept[d].state = "expired"
           /\ \/ resRows' = kept \/ resRows' = resRows
              \/ /\ ResUsed(swept, p) + a <= ResQuota
                 /\ resRows' = [kept EXCEPT ![c] = [state |-> "reserved", principal |-> p,
                                                    amount |-> a, expires |-> resNow + 1]]
  <1> DEFINE swept == CASE resStore = "memory"   -> ResMemoryReserve
                        [] resStore = "postgres" -> ResPostgresReserve(c, p)
                        [] OTHER                 -> ResControllerReserve(c)
             kept == IF resStore = "controller" THEN resRows ELSE swept
             admits == ~ResReplayed(swept, c) /\ ResUsed(swept, p) + a <= ResQuota
             row == [state |-> "reserved", principal |-> p, amount |-> a, expires |-> resNow + 1]
  <1>1. resRows' \in IF admits THEN {[kept EXCEPT ![c] = row]} ELSE {kept, resRows}
    BY DEF ResReserve
  <1>2. resRows \in [ResCommands -> ResRowType] /\ resNow \in Nat
    BY DEF ResTypeOK, ResRowType
  <1>3. \/ swept = resRows
        \/ \E commands \in SUBSET ResCommands : swept = ResExpired(resRows, commands)
    <2>1. ResOf(resRows, p) \in SUBSET ResCommands
      BY DEF ResOf, ResHeld
    <2> QED
      BY <2>1 DEF ResMemoryReserve, ResPostgresReserve, ResControllerReserve
  <1> HIDE DEF swept
  <1>4. /\ swept \in [ResCommands -> ResRowType]
        /\ \A d \in ResCommands :
             \/ swept[d] = resRows[d]
             \/ resRows[d].expires <= resNow /\ swept[d].state = "expired"
    BY <1>2, <1>3, ExpiredRows
  <1> QED
    <2>1. kept = resRows \/ kept = swept
      OBVIOUS
    <2> HIDE DEF kept
    <2> QED
      BY <1>1, <1>2, <1>4, <2>1

\* No charge starts in the future: a settlement never charges less than nothing.
StartedBefore == \A b \in ResBoundaries : resActive[b].started <= resNow

(* The limits are naturals. *)
LEMMA ResConstants ==
  /\ ResQuota \in Nat /\ ResMaxCharge \in Nat /\ ResRunMaximum \in Nat
  /\ ResCallMaximum \in Nat /\ ResModelLimit \in Nat /\ ResLastTime \in Nat
  /\ ResAmounts \subseteq Nat
  BY ResAssumption

(* Every operation of the three accounts keeps the types. *)
LEMMA ResTypeStep == ResTypeOK /\ StartedBefore /\ [ResNext]_resVars => ResTypeOK'
  <1> SUFFICES ASSUME ResTypeOK, StartedBefore, [ResNext]_resVars PROVE ResTypeOK'
    OBVIOUS
  <1> USE ResConstants DEF ResTypeOK
  <1>1. CASE ResTick
    BY <1>1 DEF ResTick
  <1>2. ASSUME NEW c \in ResCommands, NEW p \in ResPrincipals, NEW a \in ResAmounts,
               ResReserve(c, p, a)
        PROVE  ResTypeOK'
    <2>1. resRows' \in [ResCommands -> ResRowType]
      <3>1. PICK swept \in [ResCommands -> ResRowType], kept \in [ResCommands -> ResRowType] :
              \/ resRows' = kept \/ resRows' = resRows
              \/ resRows' = [kept EXCEPT ![c] = [state |-> "reserved", principal |-> p,
                                                 amount |-> a, expires |-> resNow + 1]]
        BY <1>2, ReserveRows
      <3>2. [state |-> "reserved", principal |-> p, amount |-> a, expires |-> resNow + 1]
              \in ResRowType
        BY DEF ResRowType
      <3>3. resRows \in [ResCommands -> ResRowType]
        BY DEF ResRowType
      <3> QED
        BY <3>1, <3>2, <3>3
    <2> QED
      BY <1>2, <2>1 DEF ResReserve, ResRowType
  <1>3. ASSUME NEW c \in ResCommands, ResRelease(c) PROVE ResTypeOK'
    BY <1>3 DEF ResRelease, ResNoRow, NoReservation
  <1>4. CASE ResReconcileQuota
    <2>1. resRows' \in [ResCommands -> ResRowType]
      BY <1>4, ExpiredRows DEF ResReconcileQuota, ResRowType
    <2> QED
      BY <1>4, <2>1 DEF ResReconcileQuota, ResRowType
  <1>5. ASSUME NEW b \in ResBoundaries, ResOpenActive(b) PROVE ResTypeOK'
    BY <1>5 DEF ResOpenActive, ActiveStates, NoReservation
  <1>6. ASSUME NEW b \in ResBoundaries, ResSettleActive(b) PROVE ResTypeOK'
    <2>1. ResElapsed(b) \in 0..ResMaxCharge
      BY DEF ResElapsed, StartedBefore
    <2> QED
      BY <1>6, <2>1, ZenonT(30) DEF ResSettleActive, ActiveStates, NoReservation
  <1>7. ASSUME NEW bs, resActive' = ResCloseAll(bs)
        PROVE  resActive' \in [ResBoundaries -> [state : ActiveStates \cup {NoReservation},
                                                 started : Nat, charge : 0..ResMaxCharge]]
    <2>1. ResMaxCharge \in 0..ResMaxCharge
      OBVIOUS
    <2>2. ASSUME NEW b \in ResBoundaries
          PROVE  resActive'[b] \in [state : ActiveStates \cup {NoReservation},
                                     started : Nat, charge : 0..ResMaxCharge]
      BY <1>7, <2>1 DEF ResCloseAll, ActiveStates, NoReservation
    <2> QED
      BY <1>7, <2>2 DEF ResCloseAll
  <1>8. ASSUME NEW b \in ResBoundaries, ResCloseActive(b) PROVE ResTypeOK'
    BY <1>7, <1>8 DEF ResCloseActive
  <1>9. CASE ResReconcileMemory
    BY <1>7, <1>9 DEF ResReconcileMemory
  <1>10. CASE ResSweepSelect
    BY <1>10 DEF ResSweepSelect, ResOverdue
  <1>11. CASE ResSweepCommit
    <2>1. resActive' = ResCloseAll(resSweep) \/ resActive' = resActive
      BY <1>11 DEF ResSweepCommit, ResSweepPuts
    <2> QED
      BY <1>7, <1>11, <2>1 DEF ResSweepCommit
  <1>12. ASSUME NEW c \in ResCalls, ResAccept(c) PROVE ResTypeOK'
    <2>1. resNow + 1 \in Nat /\ "accepted" \in ModelStates
      BY DEF ModelStates
    <2> DEFINE R == [state : ModelStates \cup {NoReservation}, expires : Nat,
                     charge : 0..ResCallMaximum]
    <2>2. resCalls' \in [ResCalls -> R]
      <3>1. \A r \in R : [[r EXCEPT !.state = "accepted"] EXCEPT !.expires = resNow + 1] \in R
        BY <2>1
      <3>2. resCalls \in [ResCalls -> R]
        OBVIOUS
      <3>3. resCalls' = [resCalls EXCEPT ![c] =
                           [[resCalls[c] EXCEPT !.state = "accepted"] EXCEPT !.expires = resNow + 1]]
        BY <1>12, <3>2 DEF ResAccept
      <3> HIDE DEF R
      <3> QED
        BY <3>1, <3>2, <3>3
    <2> QED
      BY <1>12, <2>2 DEF ResAccept
  <1>13. ASSUME NEW c \in ResCalls, ResCallStep(c) PROVE ResTypeOK'
    <2>1. PICK state \in ModelStates, charge \in 0..ResCallMaximum : ResPut(c, state, charge)
      BY <1>13 DEF ResCallStep, ModelStates
    <2> QED
      BY <2>1 DEF ResPut
  <1>14. CASE ResReconcileCalls
    BY <1>14 DEF ResReconcileCalls, ModelStates, NoReservation
  <1>15. CASE UNCHANGED resVars
    BY <1>15 DEF resVars
  <1> QED
    BY <1>1, <1>2, <1>3, <1>4, <1>5, <1>6, <1>8, <1>9, <1>10, <1>11, <1>12, <1>13, <1>14, <1>15
       DEF ResNext, ResQuotaStep, ResActiveStep, ResModelStep
(* No call is active when the run starts. *)
LEMMA StartedInit == ResInit => StartedBefore
  BY DEF ResInit, StartedBefore

(* Every operation keeps the start of an active call in the past. *)
LEMMA StartedStep ==
  ASSUME ResTypeOK, StartedBefore, [ResNext]_resVars
  PROVE  StartedBefore'
  <1> USE ResConstants DEF ResTypeOK, StartedBefore
  <1>1. CASE ResTick
    BY <1>1 DEF ResTick
  <1>2. CASE ResQuotaStep \/ ResModelStep \/ UNCHANGED resVars
    BY <1>2 DEF ResQuotaStep, ResReserve, ResRelease, ResReconcileQuota, ResModelStep, ResAccept,
                ResCallStep, ResPut, ResReconcileCalls, resVars
  <1>3. CASE ResActiveStep
    <2>1. resNow' = resNow
      BY <1>3 DEF ResActiveStep, ResOpenActive, ResSettleActive, ResCloseActive,
                  ResReconcileMemory, ResSweepSelect, ResSweepCommit
    <2>2. ASSUME NEW b \in ResBoundaries, ResOpenActive(b) \/ ResSettleActive(b)
          PROVE  StartedBefore'
      BY <2>1, <2>2 DEF ResOpenActive, ResSettleActive
    <2>3. ASSUME NEW bs, resActive' = ResCloseAll(bs) PROVE StartedBefore'
      BY <2>1, <2>3 DEF ResCloseAll
    <2>4. CASE resActive' = resActive
      BY <2>1, <2>4
    <2> QED
      BY <1>3, <2>2, <2>3, <2>4
         DEF ResActiveStep, ResCloseActive, ResReconcileMemory, ResSweepSelect, ResSweepCommit,
             ResSweepPuts
  <1> QED
    BY <1>1, <1>2, <1>3 DEF ResNext

-----------------------------------------------------------------------------
(* The quota *)

\* What the limit counts for a principal: the rows that are reserved and not overdue.
Counted(rows, now, scope, p) ==
  {c \in ResHeld(rows) : rows[c].expires > now /\ (scope = "tenant" \/ rows[c].principal = p)}

CountedSum(rows, now, scope, p) == SumFunction(ResAmountsOf(rows, Counted(rows, now, scope, p)))

(* The quota property, with the sum of a principal's counted rows written as a sum over all rows. *)
LEMMA QuotaCounts ==
  QuotaHeld <=> \A p \in ResPrincipals : CountedSum(resRows, resNow, resScope, p) <= ResQuota
  <1> DEFINE open == {c \in ResHeld(resRows) : resRows[c].expires > resNow}
             of(p) == IF resScope = "tenant" THEN open ELSE {c \in open : resRows[c].principal = p}
  <1>1. ASSUME NEW p PROVE of(p) = Counted(resRows, resNow, resScope, p)
    BY DEF Counted
  <1>2. QuotaHeld <=> \A p \in ResPrincipals : SumFunction(ResAmountsOf(resRows, of(p))) <= ResQuota
    BY DEF QuotaHeld
  <1> HIDE DEF of
  <1> QED
    BY <1>1, <1>2, Zenon DEF CountedSum

(* The same equivalence in the next state. *)
LEMMA QuotaCountsNext ==
  QuotaHeld' <=> (\A p \in ResPrincipals : CountedSum(resRows, resNow, resScope, p) <= ResQuota)'
  BY QuotaCounts, PTL

\* Amounts of reserved rows are naturals, and there are finitely many of them.
LEMMA AmountsSum ==
  ASSUME NEW rows \in [ResCommands -> ResRowType], NEW commands \in SUBSET ResHeld(rows)
  PROVE  /\ IsFiniteSet(commands)
         /\ ResAmountsOf(rows, commands) \in [commands -> Nat]
  <1>1. IsFiniteSet(commands)
    BY ResAssumption, FS_Subset DEF ResHeld
  <1>2. ASSUME NEW c \in commands PROVE rows[c].amount \in Nat
    <2>1. rows[c] \in ResRowType /\ rows[c].state = "reserved"
      BY DEF ResHeld
    <2>2. rows[c] # ResNoRow
      BY <2>1 DEF ResNoRow, NoReservation
    <2> QED
      BY <2>1, <2>2, ResConstants DEF ResRowType
  <1> QED
    BY <1>1, <1>2 DEF ResAmountsOf

\* Rows that are given back or run out, and time that passes, leave the quota held.
LEMMA QuotaShrinks ==
  ASSUME ResTypeOK, ResTypeOK', QuotaHeld, resScope' = resScope, resNow' >= resNow,
         \A c \in ResCommands : resRows'[c] = resRows[c] \/ resRows'[c].state # "reserved"
  PROVE  QuotaHeld'
  <1>1. resRows \in [ResCommands -> ResRowType] /\ resRows' \in [ResCommands -> ResRowType]
    BY DEF ResTypeOK, ResRowType
  <1>2. ASSUME NEW p \in ResPrincipals
        PROVE  CountedSum(resRows', resNow', resScope', p) <= ResQuota
    <2> DEFINE D == Counted(resRows, resNow, resScope, p)
               E == Counted(resRows', resNow', resScope', p)
    <2>1. D \in SUBSET ResHeld(resRows) /\ E \in SUBSET ResHeld(resRows')
      BY DEF Counted
    <2>2. E \in SUBSET D /\ \A c \in E : resRows'[c] = resRows[c]
      <3>1. resNow \in Nat /\ resNow' \in Nat
        BY DEF ResTypeOK
      <3>2. ASSUME NEW c \in E PROVE c \in D /\ resRows'[c] = resRows[c]
        <4>1. /\ c \in ResCommands /\ resRows'[c].state = "reserved"
              /\ resRows'[c].expires > resNow' /\ resRows'[c] = resRows[c]
          BY <3>2 DEF Counted, ResHeld
        <4>2. resRows[c] # ResNoRow
          BY <4>1 DEF ResNoRow, NoReservation
        <4>3. resRows[c].expires \in Nat
          BY <1>1, <4>1, <4>2 DEF ResRowType
        <4> QED
          BY <3>1, <4>1, <4>3 DEF Counted, ResHeld
      <3> QED
        BY <3>2
    <2>3. SumFunction(ResAmountsOf(resRows, D)) <= ResQuota
      BY QuotaCounts DEF CountedSum
    <2>4. CountedSum(resRows', resNow', resScope', p) = SumFunction(ResAmountsOf(resRows', E))
      BY DEF CountedSum
    <2> HIDE DEF D, E
    <2>5. /\ IsFiniteSet(D) /\ ResAmountsOf(resRows, D) \in [D -> Nat]
          /\ ResAmountsOf(resRows', E) \in [E -> Nat]
      BY <1>1, <2>1, AmountsSum
    <2>6. \A c \in E : ResAmountsOf(resRows', E)[c] <= ResAmountsOf(resRows, D)[c]
      BY <2>2, <2>5 DEF ResAmountsOf
    <2>7. /\ SumFunction(ResAmountsOf(resRows', E)) \in Nat
          /\ SumFunction(ResAmountsOf(resRows, D)) \in Nat
          /\ SumFunction(ResAmountsOf(resRows', E)) <= SumFunction(ResAmountsOf(resRows, D))
      BY <2>2, <2>5, <2>6, SumMonotone
    <2> QED
      BY <2>3, <2>4, <2>7, ResConstants
  <1>3. (\A p \in ResPrincipals : CountedSum(resRows, resNow, resScope, p) <= ResQuota)'
    BY <1>2
  <1> QED
    BY <1>3, QuotaCountsNext

\* An admission counts every row the limit counts, so the quota holds after it.
LEMMA QuotaAdmits ==
  ASSUME ResTypeOK, ResTypeOK', QuotaHeld, NEW c \in ResCommands, NEW p \in ResPrincipals,
         NEW a \in ResAmounts, ResReserve(c, p, a)
  PROVE  QuotaHeld'
  <1> DEFINE row == [state |-> "reserved", principal |-> p, amount |-> a, expires |-> resNow + 1]
  <1>1. resRows \in [ResCommands -> ResRowType] /\ resRows' \in [ResCommands -> ResRowType]
    BY DEF ResTypeOK, ResRowType
  <1>2. resScope' = resScope /\ resNow' = resNow /\ resNow \in Nat
    BY DEF ResReserve, ResTypeOK
  <1>3. PICK swept \in [ResCommands -> ResRowType], kept \in [ResCommands -> ResRowType] :
          /\ \A d \in ResCommands :
               \/ swept[d] = resRows[d]
               \/ resRows[d].expires <= resNow /\ swept[d].state = "expired"
          /\ \A d \in ResCommands :
               \/ kept[d] = resRows[d]
               \/ resRows[d].expires <= resNow /\ kept[d].state = "expired"
          /\ \/ resRows' = kept \/ resRows' = resRows
             \/ ResUsed(swept, p) + a <= ResQuota /\ resRows' = [kept EXCEPT ![c] = row]
    BY ReserveRows
  <1>4. CASE resRows' = kept \/ resRows' = resRows
    <2>1. \A d \in ResCommands : resRows'[d] = resRows[d] \/ resRows'[d].state # "reserved"
      BY <1>3, <1>4
    <2> QED
      BY <1>2, <2>1, QuotaShrinks
  <1>5. CASE ResUsed(swept, p) + a <= ResQuota /\ resRows' = [kept EXCEPT ![c] = row]
    <2>1. ASSUME NEW q \in ResPrincipals
          PROVE  CountedSum(resRows', resNow', resScope', q) <= ResQuota
      <3> DEFINE D == Counted(resRows, resNow, resScope, q)
                 E == Counted(resRows', resNow', resScope', q)
                 U == IF resScope = "tenant" THEN ResHeld(swept) ELSE ResOf(swept, p)
      <3>1. ResUsed(swept, p) = SumFunction(ResAmountsOf(swept, U))
        BY DEF ResUsed
      <3>2. CountedSum(resRows', resNow', resScope', q) = SumFunction(ResAmountsOf(resRows', E))
        BY DEF CountedSum
      <3>3. SumFunction(ResAmountsOf(resRows, D)) <= ResQuota
        BY QuotaCounts DEF CountedSum
      <3>4. /\ D \in SUBSET ResHeld(resRows) /\ E \in SUBSET ResHeld(resRows')
            /\ U \in SUBSET ResHeld(swept)
        BY DEF Counted, ResOf
      <3>5. ASSUME NEW d \in E, d # c
            PROVE  d \in D /\ d \in ResHeld(swept) /\ resRows'[d] = resRows[d] /\ swept[d] = resRows[d]
        <4>1. /\ d \in ResCommands /\ resRows'[d].state = "reserved"
              /\ resRows'[d].expires > resNow
              /\ resScope = "tenant" \/ resRows'[d].principal = q
          BY <1>2, <3>5 DEF Counted, ResHeld
        <4>2. resRows'[d] = kept[d]
          BY <1>5, <3>5, <4>1
        <4>3. resRows'[d] = resRows[d]
          BY <1>3, <4>1, <4>2
        <4>4. resRows[d] # ResNoRow
          BY <4>1, <4>3 DEF ResNoRow, NoReservation
        <4>5. resRows[d].expires \in Nat
          BY <1>1, <4>1, <4>4 DEF ResRowType
        <4>6. swept[d] = resRows[d]
          BY <1>2, <1>3, <4>1, <4>3, <4>5
        <4> QED
          BY <4>1, <4>3, <4>6 DEF Counted, ResHeld
      <3>6. /\ IsFiniteSet(D) /\ ResAmountsOf(resRows, D) \in [D -> Nat]
            /\ IsFiniteSet(E) /\ ResAmountsOf(resRows', E) \in [E -> Nat]
            /\ IsFiniteSet(U) /\ ResAmountsOf(swept, U) \in [U -> Nat]
        <4> HIDE DEF D, E, U
        <4> QED
          BY <1>1, <3>4, AmountsSum
      <3>7. CASE resScope = "tenant" \/ q = p
        <4>1. c \in E => ResAmountsOf(resRows', E)[c] = a
          BY <1>1, <1>5 DEF ResAmountsOf
        <4>2. E \ {c} \subseteq U
          BY <1>2, <3>5, <3>7 DEF ResOf, Counted, ResHeld
        <4>3. \A d \in E \ {c} : ResAmountsOf(resRows', E)[d] <= ResAmountsOf(swept, U)[d]
          <5>1. \A d \in E \ {c} : /\ ResAmountsOf(resRows', E)[d] = resRows'[d].amount
                                   /\ ResAmountsOf(swept, U)[d] = swept[d].amount
                                   /\ resRows'[d].amount = swept[d].amount
                                   /\ ResAmountsOf(resRows', E)[d] \in Nat
            <6> HIDE DEF E, U
            <6> QED
              BY <3>5, <3>6, <4>2 DEF ResAmountsOf
          <5> HIDE DEF E, U
          <5> QED
            BY <5>1
        <4> HIDE DEF E, U
        <4>4. CASE c \in E
          <5>1. /\ SumFunction(ResAmountsOf(swept, U)) \in Nat
                /\ SumFunction(ResAmountsOf(resRows', E)) \in Nat
                /\ SumFunction(ResAmountsOf(resRows', E))
                     <= SumFunction(ResAmountsOf(swept, U)) + ResAmountsOf(resRows', E)[c]
            BY <3>6, <4>2, <4>3, <4>4, SumGrow
          <5> QED
            BY <1>5, <3>1, <3>2, <4>1, <4>4, <5>1, ResConstants
        <4>5. CASE c \notin E
          <5>1. E \in SUBSET U /\ E \ {c} = E
            BY <4>2, <4>5
          <5>2. \A d \in E : ResAmountsOf(resRows', E)[d] <= ResAmountsOf(swept, U)[d]
            BY <4>3, <4>5
          <5>3. /\ SumFunction(ResAmountsOf(swept, U)) \in Nat
                /\ SumFunction(ResAmountsOf(resRows', E)) \in Nat
                /\ SumFunction(ResAmountsOf(resRows', E)) <= SumFunction(ResAmountsOf(swept, U))
            BY <3>6, <5>1, <5>2, SumMonotone
          <5> QED
            BY <1>5, <3>1, <3>2, <5>3, ResConstants
        <4> QED
          BY <4>4, <4>5
      <3>8. CASE resScope # "tenant" /\ q # p
        <4>1. c \notin E
          BY <1>1, <1>2, <1>5, <3>8 DEF Counted
        <4>2. E \in SUBSET D
          BY <3>5, <4>1
        <4>3. \A d \in E : ResAmountsOf(resRows', E)[d] <= ResAmountsOf(resRows, D)[d]
          <5>1. \A d \in E : resRows'[d] = resRows[d]
            BY <3>5, <4>1
          <5> HIDE DEF E, D
          <5>2. \A d \in E : /\ ResAmountsOf(resRows', E)[d] = ResAmountsOf(resRows, D)[d]
                             /\ ResAmountsOf(resRows', E)[d] \in Nat
            BY <3>6, <4>2, <5>1 DEF ResAmountsOf
          <5> QED
            BY <5>2
        <4> HIDE DEF E, D
        <4>4. /\ SumFunction(ResAmountsOf(resRows, D)) \in Nat
              /\ SumFunction(ResAmountsOf(resRows', E)) \in Nat
              /\ SumFunction(ResAmountsOf(resRows', E)) <= SumFunction(ResAmountsOf(resRows, D))
          BY <3>6, <4>2, <4>3, SumMonotone
        <4> QED
          BY <3>2, <3>3, <4>4, ResConstants
      <3> QED
        BY <3>7, <3>8
    <2>2. (\A q \in ResPrincipals : CountedSum(resRows, resNow, resScope, q) <= ResQuota)'
      BY <2>1
    <2> QED
      BY <2>2, QuotaCountsNext
  <1> QED
    BY <1>3, <1>4, <1>5

(* The empty table is within every quota. *)
LEMMA QuotaInit == ResInit => QuotaHeld
  <1> SUFFICES ASSUME ResInit, NEW p \in ResPrincipals
               PROVE  CountedSum(resRows, resNow, resScope, p) <= ResQuota
    BY QuotaCounts
  <1> DEFINE D == Counted(resRows, resNow, resScope, p)
             h == ResAmountsOf(resRows, D)
  <1>1. D = {}
    BY DEF ResInit, Counted, ResHeld, ResNoRow, NoReservation
  <1>2. CountedSum(resRows, resNow, resScope, p) = SumFunction(h)
    BY DEF CountedSum
  <1>4. h \in [{} -> Nat]
    BY <1>1 DEF ResAmountsOf
  <1> HIDE DEF h
  <1>5. SumFunction(h) = 0
    BY <1>4, FS_EmptySet, SumZero
  <1> QED
    BY <1>2, <1>5, ResConstants

(* No operation takes a principal past the quota. *)
LEMMA QuotaStep ==
  ASSUME ResTypeOK, ResTypeOK', QuotaHeld, [ResNext]_resVars
  PROVE  QuotaHeld'
  <1>1. CASE ResTick
    BY <1>1, QuotaShrinks DEF ResTick, ResTypeOK
  <1>2. ASSUME NEW c \in ResCommands, NEW p \in ResPrincipals, NEW a \in ResAmounts,
               ResReserve(c, p, a)
        PROVE  QuotaHeld'
    BY <1>2, QuotaAdmits
  <1>3. ASSUME NEW c \in ResCommands, ResRelease(c) PROVE QuotaHeld'
    <2>1. \A d \in ResCommands : resRows'[d] = resRows[d] \/ resRows'[d].state # "reserved"
      BY <1>3 DEF ResRelease, ResTypeOK, ResNoRow, NoReservation
    <2> QED
      BY <1>3, <2>1, QuotaShrinks DEF ResRelease, ResTypeOK
  <1>4. CASE ResReconcileQuota
    <2>1. \A d \in ResCommands : resRows'[d] = resRows[d] \/ resRows'[d].state # "reserved"
      <3>1. resRows \in [ResCommands -> ResRowType] /\ resNow \in Nat
        BY DEF ResTypeOK, ResRowType
      <3>2. resRows' = ResExpired(resRows, ResCommands)
        BY <1>4 DEF ResReconcileQuota
      <3> QED
        BY <3>1, <3>2, ExpiredRows
    <2> QED
      BY <1>4, <2>1, QuotaShrinks DEF ResReconcileQuota, ResTypeOK
  <1>5. CASE ResActiveStep \/ ResModelStep \/ UNCHANGED resVars
    <2>1. resRows' = resRows /\ resScope' = resScope /\ resNow' = resNow
      BY <1>5 DEF ResActiveStep, ResOpenActive, ResSettleActive, ResCloseActive,
                  ResReconcileMemory, ResSweepSelect, ResSweepCommit, ResModelStep, ResAccept,
                  ResCallStep, ResPut, ResReconcileCalls, resVars
    <2> QED
      BY <2>1, QuotaShrinks DEF ResTypeOK
  <1> QED
    BY <1>1, <1>2, <1>3, <1>4, <1>5 DEF ResNext, ResQuotaStep

-----------------------------------------------------------------------------
(* Active time and model calls *)

Charges(active) == [b \in ResBoundaries |-> ResCharge(active[b])]

CallCharges(cs) == [c \in ResCalls |-> ResCallCharge(cs[c])]

ActiveType == [state : ActiveStates \cup {NoReservation}, started : Nat, charge : 0..ResMaxCharge]

CallType == [state : ModelStates \cup {NoReservation}, expires : Nat, charge : 0..ResCallMaximum]

\* What the invariants count is what the guards count.
LEMMA BudgetCounts == ActiveBudgetHeld <=> SumFunction(Charges(resActive)) <= ResRunMaximum
  BY DEF ActiveBudgetHeld, Charges, ResCharge

(* The model limit, written as a sum over all calls. *)
LEMMA CallsCount ==
  ASSUME resCalls \in [ResCalls -> CallType]
  PROVE  ModelLimitHeld <=> SumFunction(CallCharges(resCalls)) <= ResModelLimit
  <1> DEFINE f == [c \in ResCalls |->
                 CASE resCalls[c].state \in {NoReservation, "expired"} -> 0
                   [] resCalls[c].state = "settled" -> resCalls[c].charge
                   [] OTHER -> ResCallMaximum]
  <1>1. f = CallCharges(resCalls)
    BY DEF CallCharges, ResCallCharge, CallType, ModelStates, NoReservation
  <1>2. ModelLimitHeld <=> SumFunction(f) <= ResModelLimit
    BY DEF ModelLimitHeld
  <1> HIDE DEF f
  <1> QED
    BY <1>1, <1>2

(* What active entries and calls charge are naturals. *)
LEMMA ChargesNat ==
  /\ \A active \in [ResBoundaries -> ActiveType] : Charges(active) \in [ResBoundaries -> Nat]
  /\ \A cs \in [ResCalls -> CallType] : CallCharges(cs) \in [ResCalls -> Nat]
  BY ResConstants DEF Charges, ResCharge, ActiveType, CallCharges, ResCallCharge, CallType

\* A settlement, a closing and a sweep charge no more than was reserved; only an opening
\* adds, and it counts what is there first.
LEMMA BudgetStep ==
  ASSUME ResTypeOK, ResTypeOK', StartedBefore, ActiveBudgetHeld, [ResNext]_resVars
  PROVE  ActiveBudgetHeld'
  <1> DEFINE f == Charges(resActive)
             h == Charges(resActive')
  <1>1. resActive \in [ResBoundaries -> ActiveType] /\ resActive' \in [ResBoundaries -> ActiveType]
    BY DEF ResTypeOK, ActiveType
  <1>2. f \in [ResBoundaries -> Nat] /\ h \in [ResBoundaries -> Nat]
    BY <1>1, ChargesNat
  <1>3. SumFunction(f) <= ResRunMaximum
    BY BudgetCounts
  <1>4. SUFFICES SumFunction(h) <= ResRunMaximum
    <2>1. ActiveBudgetHeld' <=> (SumFunction(Charges(resActive)) <= ResRunMaximum)'
      BY BudgetCounts, PTL
    <2> QED
      BY <1>4, <2>1
  <1>5. ASSUME \A b \in ResBoundaries : h[b] <= f[b] PROVE SumFunction(h) <= ResRunMaximum
    <2>1. /\ SumFunction(h) \in Nat /\ SumFunction(f) \in Nat
          /\ SumFunction(h) <= SumFunction(f)
      <3> HIDE DEF f, h
      <3> QED
        BY <1>2, <1>5, ResAssumption, SumMonotone
    <2> QED
      BY <1>3, <2>1, ResConstants
  <1>6. ASSUME NEW b \in ResBoundaries, ResOpenActive(b) PROVE SumFunction(h) <= ResRunMaximum
    <2>1. h[b] = ResMaxCharge
      BY <1>1, <1>6 DEF ResOpenActive, Charges, ResCharge, NoReservation
    <2>2. \A y \in ResBoundaries \ {b} : h[y] = f[y]
      BY <1>1, <1>6 DEF ResOpenActive, Charges
    <2>3. SumFunction(f) + ResMaxCharge <= ResRunMaximum
      BY <1>6 DEF ResOpenActive, ResConsumed, Charges
    <2> HIDE DEF f, h
    <2>4. \A y \in ResBoundaries \ {b} : h[y] <= f[y]
      BY <1>2, <2>2
    <2>5. ResBoundaries \ {b} \subseteq ResBoundaries /\ IsFiniteSet(ResBoundaries)
      BY ResAssumption
    <2>6. /\ SumFunction(f) \in Nat /\ SumFunction(h) \in Nat
          /\ SumFunction(h) <= SumFunction(f) + h[b]
      BY <1>2, <2>4, <2>5, SumGrow
    <2> QED
      BY <2>1, <2>3, <2>6, ResConstants
  <1>7. ASSUME NEW b \in ResBoundaries, ResSettleActive(b) PROVE SumFunction(h) <= ResRunMaximum
    <2>1. ResElapsed(b) <= ResMaxCharge
      BY <1>1, ResConstants DEF ResElapsed, StartedBefore, ResTypeOK, ActiveType
    <2>2. f[b] = ResMaxCharge /\ h[b] = ResElapsed(b)
      BY <1>1, <1>7 DEF ResSettleActive, Charges, ResCharge, NoReservation, ActiveType
    <2>3. \A y \in ResBoundaries \ {b} : h[y] = f[y]
      BY <1>1, <1>7 DEF ResSettleActive, Charges
    <2> HIDE DEF f, h
    <2> QED
      BY <1>2, <1>5, <2>1, <2>2, <2>3
  <1>8. ASSUME NEW bs, resActive' = ResCloseAll(bs) PROVE SumFunction(h) <= ResRunMaximum
    <2>1. \A y \in ResBoundaries : h[y] = f[y]
      BY <1>1, <1>8 DEF ResCloseAll, Charges, ResCharge, NoReservation, ActiveType
    <2> HIDE DEF f, h
    <2> QED
      BY <1>2, <1>5, <2>1
  <1>9. CASE resActive' = resActive
    BY <1>3, <1>9
  <1> QED
    BY <1>6, <1>7, <1>8, <1>9
       DEF ResNext, ResTick, ResQuotaStep, ResReserve, ResRelease, ResReconcileQuota,
           ResActiveStep, ResCloseActive, ResReconcileMemory, ResSweepSelect, ResSweepCommit,
           ResSweepPuts, ResModelStep, ResAccept, ResCallStep, ResPut, ResReconcileCalls, resVars

\* A model call reserves its maximum when it is accepted and never counts for more.
LEMMA ModelStep ==
  ASSUME ResTypeOK, ResTypeOK', ModelLimitHeld, [ResNext]_resVars
  PROVE  ModelLimitHeld'
  <1> DEFINE f == CallCharges(resCalls)
             h == CallCharges(resCalls')
  <1>1. resCalls \in [ResCalls -> CallType] /\ resCalls' \in [ResCalls -> CallType]
    BY DEF ResTypeOK, CallType
  <1>2. f \in [ResCalls -> Nat] /\ h \in [ResCalls -> Nat]
    BY <1>1, ChargesNat
  <1>3. SumFunction(f) <= ResModelLimit
    BY <1>1, CallsCount
  <1>4. SUFFICES SumFunction(h) <= ResModelLimit
    <2>1. (resCalls \in [ResCalls -> CallType])'
            => (ModelLimitHeld' <=> (SumFunction(CallCharges(resCalls)) <= ResModelLimit)')
      BY CallsCount, PTL
    <2> QED
      BY <1>1, <1>4, <2>1
  <1>5. ASSUME \A c \in ResCalls : h[c] <= f[c] PROVE SumFunction(h) <= ResModelLimit
    <2>1. /\ SumFunction(h) \in Nat /\ SumFunction(f) \in Nat
          /\ SumFunction(h) <= SumFunction(f)
      <3> HIDE DEF f, h
      <3> QED
        BY <1>2, <1>5, ResAssumption, SumMonotone
    <2> QED
      BY <1>3, <2>1, ResConstants
  <1>6. ASSUME NEW c \in ResCalls, ResAccept(c) PROVE SumFunction(h) <= ResModelLimit
    <2>1. h[c] = ResCallMaximum
      BY <1>1, <1>6 DEF ResAccept, CallCharges, ResCallCharge, CallType
    <2>2. \A y \in ResCalls \ {c} : h[y] = f[y]
      BY <1>1, <1>6 DEF ResAccept, CallCharges
    <2>3. SumFunction(f) + ResCallMaximum <= ResModelLimit
      BY <1>6 DEF ResAccept, ResModelUsed, CallCharges
    <2> HIDE DEF f, h
    <2>4. \A y \in ResCalls \ {c} : h[y] <= f[y]
      BY <1>2, <2>2
    <2>5. ResCalls \ {c} \subseteq ResCalls /\ IsFiniteSet(ResCalls)
      BY ResAssumption
    <2>6. /\ SumFunction(f) \in Nat /\ SumFunction(h) \in Nat
          /\ SumFunction(h) <= SumFunction(f) + h[c]
      BY <1>2, <2>4, <2>5, SumGrow
    <2> QED
      BY <2>1, <2>3, <2>6, ResConstants
  <1>7. ASSUME NEW c \in ResCalls, NEW charge \in 0..ResCallMaximum,
               NEW state \in {"dispatched", "settled", "uncertain"}, ResPut(c, state, charge)
        PROVE  SumFunction(h) <= ResModelLimit
    <2>1. resCalls[c].state \in {"accepted", "dispatched"}
      BY <1>1, <1>7 DEF ResPut, ModelPut, NoReservation, CallType, ModelStates
    <2>2. f[c] = ResCallMaximum
      BY <2>1 DEF CallCharges, ResCallCharge
    <2>3. h[c] = IF state = "settled" THEN charge ELSE ResCallMaximum
      BY <1>1, <1>7 DEF ResPut, CallCharges, ResCallCharge, CallType
    <2>4. \A y \in ResCalls \ {c} : h[y] = f[y]
      BY <1>1, <1>7 DEF ResPut, CallCharges
    <2>5. \A y \in ResCalls : h[y] <= f[y]
      <3> HIDE DEF f, h
      <3> QED
        BY <1>2, <2>2, <2>3, <2>4, ResConstants
    <2> QED
      BY <1>5, <2>5
  <1>8. CASE ResReconcileCalls
    <2>1. ASSUME NEW c \in ResCalls PROVE h[c] <= f[c]
      <3>1. \/ resCalls'[c] = resCalls[c]
            \/ resCalls[c].state = "accepted" /\ resCalls'[c].state = "expired"
            \/ resCalls[c].state = "dispatched" /\ resCalls'[c].state = "uncertain"
        BY <1>1, <1>8 DEF ResReconcileCalls, CallType
      <3> QED
        BY <1>2, <3>1, ResConstants DEF CallCharges, ResCallCharge
    <2> QED
      BY <1>5, <2>1
  <1>9. CASE resCalls' = resCalls
    BY <1>3, <1>9
  <1>10. CASE ResModelStep
    <2>1. ASSUME NEW c \in ResCalls, ResCallStep(c) PROVE SumFunction(h) <= ResModelLimit
      BY <1>7, <2>1, ResConstants DEF ResCallStep
    <2> QED
      BY <1>6, <1>8, <1>10, <2>1 DEF ResModelStep
  <1> QED
    BY <1>9, <1>10
       DEF ResNext, ResTick, ResQuotaStep, ResReserve, ResRelease, ResReconcileQuota,
           ResActiveStep, ResOpenActive, ResSettleActive, ResCloseActive, ResReconcileMemory,
           ResSweepSelect, ResSweepCommit, resVars

\* Nothing is charged at the start.
LEMMA ChargesInit == ResInit => ActiveBudgetHeld /\ ModelLimitHeld
  <1> SUFFICES ASSUME ResInit PROVE ActiveBudgetHeld /\ ModelLimitHeld
    OBVIOUS
  <1>1. resActive \in [ResBoundaries -> ActiveType] /\ resCalls \in [ResCalls -> CallType]
    BY ResTypeInit DEF ResTypeOK, ActiveType, CallType
  <1>2. \A b \in ResBoundaries : Charges(resActive)[b] = 0
    BY DEF ResInit, Charges, ResCharge
  <1>3. \A c \in ResCalls : CallCharges(resCalls)[c] = 0
    BY DEF ResInit, CallCharges, ResCallCharge, NoReservation
  <1>4. SumFunction(Charges(resActive)) = 0
    BY <1>1, <1>2, ChargesNat, ResAssumption, SumZero
  <1>5. SumFunction(CallCharges(resCalls)) = 0
    BY <1>1, <1>3, ChargesNat, ResAssumption, SumZero
  <1> QED
    BY <1>1, <1>4, <1>5, BudgetCounts, CallsCount, ResConstants

-----------------------------------------------------------------------------
(* Theorems *)

\* No limit is exceeded, for any number of commands, principals, boundaries and calls, any
\* limits, whichever store is used: the quota of the scope, the active time of the run and
\* the model limit of the tenant (reserve, putActiveExecutionReservation,
\* putModelCallReservation and the reconcilers of resource-reservations.ts).
THEOREM ReservationLimits == ResSpec => []LimitsHeld
  <1> DEFINE Inv == ResTypeOK /\ StartedBefore /\ QuotaHeld /\ ActiveBudgetHeld /\ ModelLimitHeld
  <1>1. ResInit => Inv
    BY ResTypeInit, StartedInit, QuotaInit, ChargesInit
  <1>2. Inv /\ [ResNext]_resVars => Inv'
    <2> SUFFICES ASSUME Inv, [ResNext]_resVars PROVE Inv'
      OBVIOUS
    <2>1. ResTypeOK'
      BY ResTypeStep
    <2> QED
      BY <2>1, StartedStep, QuotaStep, BudgetStep, ModelStep
  <1>3. Inv => LimitsHeld
    BY DEF LimitsHeld
  <1> QED
    BY <1>1, <1>2, <1>3, PTL DEF ResSpec

\* A row that was released or ran out is never reserved anew, and a charge once settled or
\* closed is final, although a PostgreSQL sweep works from rows it selected before.
THEOREM ReservationsNeverReopen == ResSpec => ReservationsFinal
  <1>1. ResTypeOK /\ StartedBefore /\ [ResNext]_resVars => [AdmittedOnce /\ ChargeFinal]_resVars
    <2> SUFFICES ASSUME ResTypeOK, ResNext PROVE AdmittedOnce /\ ChargeFinal
      OBVIOUS
    <2>1. AdmittedOnce
      <3>1. ASSUME NEW c \in ResCommands, NEW p \in ResPrincipals, NEW a \in ResAmounts,
                   ResReserve(c, p, a)
            PROVE  AdmittedOnce
        <4> DEFINE swept == CASE resStore = "memory"   -> ResMemoryReserve
                              [] resStore = "postgres" -> ResPostgresReserve(c, p)
                              [] OTHER                 -> ResControllerReserve(c)
                   kept == IF resStore = "controller" THEN resRows ELSE swept
                   row == [state |-> "reserved", principal |-> p, amount |-> a,
                           expires |-> resNow + 1]
        <4>1. resRows' \in IF ~ResReplayed(swept, c) /\ ResUsed(swept, p) + a <= ResQuota
                           THEN {[kept EXCEPT ![c] = row]} ELSE {kept, resRows}
          BY <3>1 DEF ResReserve
        <4>2. swept \in [ResCommands -> ResRowType] /\ kept \in [ResCommands -> ResRowType]
          BY ExpiredRows DEF ResTypeOK, ResRowType, ResMemoryReserve, ResPostgresReserve,
                             ResControllerReserve
        <4>3. \A d \in ResCommands : resRows[d].state \in {"released", "expired"} =>
                swept[d] = resRows[d] /\ kept[d] = resRows[d]
          BY DEF ResMemoryReserve, ResPostgresReserve, ResControllerReserve, ResExpired, ResHeld
        <4> HIDE DEF swept, kept
        <4> QED
          BY <4>1, <4>2, <4>3 DEF AdmittedOnce, ResReplayed, NoReservation
      <3>2. ASSUME NEW c \in ResCommands, ResRelease(c) PROVE AdmittedOnce
        BY <3>2 DEF ResRelease, AdmittedOnce, ResTypeOK
      <3>3. CASE ResReconcileQuota
        BY <3>3 DEF ResReconcileQuota, ResExpired, ResHeld, AdmittedOnce
      <3>4. CASE resRows' = resRows
        BY <3>4 DEF AdmittedOnce
      <3> QED
        BY <3>1, <3>2, <3>3, <3>4
           DEF ResNext, ResTick, ResQuotaStep, ResActiveStep, ResOpenActive, ResSettleActive,
               ResCloseActive, ResReconcileMemory, ResSweepSelect, ResSweepCommit, ResModelStep,
               ResAccept, ResCallStep, ResPut, ResReconcileCalls
    <2>2. ChargeFinal
      <3>1. ASSUME NEW b \in ResBoundaries, ResOpenActive(b) \/ ResSettleActive(b)
            PROVE  ChargeFinal
        BY <3>1 DEF ResOpenActive, ResSettleActive, ChargeFinal, ResTypeOK, NoReservation
      <3>2. ASSUME NEW bs, resActive' = ResCloseAll(bs) PROVE ChargeFinal
        BY <3>2 DEF ResCloseAll, ChargeFinal
      <3>3. CASE resActive' = resActive
        BY <3>3 DEF ChargeFinal
      <3> QED
        BY <3>1, <3>2, <3>3
           DEF ResNext, ResTick, ResQuotaStep, ResReserve, ResRelease, ResReconcileQuota,
               ResActiveStep, ResCloseActive, ResReconcileMemory, ResSweepSelect,
               ResSweepCommit, ResSweepPuts, ResModelStep, ResAccept, ResCallStep, ResPut,
               ResReconcileCalls
    <2> QED
      BY <2>1, <2>2
  <1>2. ResInit => ResTypeOK /\ StartedBefore
    BY ResTypeInit, StartedInit
  <1>3. ResTypeOK /\ StartedBefore /\ [ResNext]_resVars => (ResTypeOK /\ StartedBefore)'
    BY ResTypeStep, StartedStep
  <1> QED
    BY <1>1, <1>2, <1>3, PTL DEF ResSpec, ReservationsFinal
=============================================================================
