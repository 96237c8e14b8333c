------------------------- MODULE CheckoutPricingProofs -------------------------
(***************************************************************************)
(* Proofs about CheckoutPricing, for every cart, every set of categories   *)
(* with their rules and every setting.                                     *)
(*                                                                         *)
(* First the sums the model takes over sellers, lines and categories: a    *)
(* fold of the community modules, a recursive function over the parts of a *)
(* finite set.  Then each breakdown by itself, which no pass leaves        *)
(* unaccounted for; then what the breakdowns add up to: the goods, the     *)
(* charges, the tip and the wallet money.                                  *)
(***************************************************************************)
EXTENDS CheckoutPricing, SequenceTheorems, FiniteSetTheorems, WellFoundedInduction, TLAPS

-----------------------------------------------------------------------------
(* Induction, and sums.                                                    *)

Some(T) == CHOOSE x \in T : TRUE

\* A set of natural numbers has a least member: the order is well founded.
LEMMA HasLeast ==
  ASSUME NEW T, T \subseteq Nat, T # {}
  PROVE \E x \in T : \A y \in T : x <= y
<1> DEFINE R == OpToRel(<, Nat)
<1>1. IsWellFoundedOn(R, Nat)
  BY NatLessThanWellFounded
<1>2. \A x \in Nat, y \in Nat : y < x => <<y, x>> \in R
  BY DEF OpToRel
<1> HIDE DEF R
<1>3. PICK x \in T : \A y \in T : ~(<<y, x>> \in R)
  BY <1>1, WFMin
<1>4. SUFFICES ASSUME NEW y \in T PROVE x <= y
  OBVIOUS
<1>5. x \in Nat /\ y \in Nat
  OBVIOUS
<1>6. ~(y < x)
  BY <1>2, <1>3, <1>5
<1> QED BY <1>5, <1>6

\* Induction over the natural numbers, with a set for the predicate.
LEMMA NatSetInduction ==
  ASSUME NEW P, 0 \in P, \A n \in Nat : n \in P => n + 1 \in P
  PROVE  \A n \in Nat : n \in P
<1>1. SUFFICES ASSUME Nat \ P # {} PROVE FALSE
  OBVIOUS
<1>2. PICK x \in Nat \ P : \A y \in Nat \ P : x <= y
  BY <1>1, HasLeast
<1>3. x \in Nat /\ x # 0 /\ x - 1 \in Nat /\ (x - 1) + 1 = x
  BY <1>2
<1>4. x - 1 \in P
  BY <1>2, <1>3
<1> QED BY <1>2, <1>3, <1>4

\* A set that has the empty set, and each part of S whenever it has that part
\* without some member, has every part of a finite S.
LEMMA SubsetInduction ==
  ASSUME NEW S, IsFiniteSet(S), NEW P, {} \in P,
         \A T \in SUBSET S : T # {} /\ T \ {Some(T)} \in P => T \in P
  PROVE  \A T \in SUBSET S : T \in P
<1> DEFINE Sizes == {n \in Nat : \E T \in SUBSET S : T \notin P /\ Cardinality(T) = n}
<1>1. SUFFICES ASSUME Sizes # {} PROVE FALSE
  <2>1. SUFFICES ASSUME NEW T \in SUBSET S, T \notin P PROVE Sizes # {}
    BY <1>1
  <2>2. Cardinality(T) \in Nat
    BY FS_Subset, FS_CardinalityType
  <2> QED BY <2>1, <2>2
<1>2. Sizes \subseteq Nat OBVIOUS
<1>3. PICK n \in Sizes : \A m \in Sizes : n <= m
  <2> HIDE DEF Sizes
  <2> QED BY <1>1, <1>2, HasLeast
<1>4. PICK T \in SUBSET S : T \notin P /\ Cardinality(T) = n
  BY <1>3
<1>5. T # {}
  BY <1>4
<1>6. Some(T) \in T
  BY <1>5 DEF Some
<1>7. IsFiniteSet(T) /\ IsFiniteSet(T \ {Some(T)})
  BY FS_Subset
<1>8. Cardinality(T \ {Some(T)}) = n - 1 /\ n - 1 \in Nat
  <2>1. Cardinality(T \ {Some(T)}) = Cardinality(T) - 1
    BY <1>6, <1>7, FS_RemoveElement
  <2>2. Cardinality(T \ {Some(T)}) \in Nat
    BY <1>7, FS_CardinalityType
  <2> QED BY <2>1, <2>2, <1>4
<1>9. T \ {Some(T)} \notin P
  BY <1>4, <1>5
<1>10. n - 1 \in Sizes
  BY <1>8, <1>9
<1>11. n \in Nat BY <1>2
<1> HIDE DEF Sizes
<1> QED BY <1>3, <1>10, <1>11

\* The function that the fold of the community modules defines by recursion.
IsSum(g, f, S) ==
    g = [T \in SUBSET S |-> IF T = {} THEN 0
                            ELSE LET x == CHOOSE x \in T : TRUE IN f[x] + g[T \ {x}]]

\* It exists: on the parts with at most n members, by induction over n.
LEMMA SumExists ==
  ASSUME NEW S, IsFiniteSet(S), NEW f
  PROVE  \E g : IsSum(g, f, S)
<1> DEFINE Small(n) == {T \in SUBSET S : Cardinality(T) <= n}
           Eq(g, U) == IF U = {} THEN 0 ELSE f[Some(U)] + g[U \ {Some(U)}]
           Ok(g, n) == g = [U \in Small(n) |-> Eq(g, U)]
           P == {n \in Nat : \E g : Ok(g, n)}
<1>1. \A T \in SUBSET S : IsFiniteSet(T) /\ Cardinality(T) \in Nat
  BY FS_Subset, FS_CardinalityType
<1>2. \A T \in SUBSET S : T # {} =>
          /\ T \ {Some(T)} \in SUBSET S
          /\ Cardinality(T \ {Some(T)}) = Cardinality(T) - 1
  <2>1. SUFFICES ASSUME NEW T \in SUBSET S, T # {}
        PROVE  /\ T \ {Some(T)} \in SUBSET S
               /\ Cardinality(T \ {Some(T)}) = Cardinality(T) - 1
    OBVIOUS
  <2>2. Some(T) \in T BY <2>1 DEF Some
  <2> QED BY <1>1, <2>2, FS_RemoveElement
<1>3. \A T \in SUBSET S : Cardinality(T) <= 0 => T = {}
  <2>1. SUFFICES ASSUME NEW T \in SUBSET S, Cardinality(T) <= 0 PROVE T = {}
    OBVIOUS
  <2>2. IsFiniteSet(T) /\ Cardinality(T) = 0
    BY <1>1, <2>1
  <2> QED BY <2>2, FS_EmptySet
<1>4. 0 \in P
  <2> DEFINE g == [U \in Small(0) |-> 0]
  <2>1. \A U \in Small(0) : Eq(g, U) = 0
    BY <1>3
  <2>2. Ok(g, 0)
    BY <2>1
  <2> QED BY <2>2
<1>5. ASSUME NEW n \in Nat, n \in P PROVE n + 1 \in P
  <2>1. PICK g : Ok(g, n)
    BY <1>5
  <2>2. PICK h : h = [U \in Small(n + 1) |-> Eq(g, U)]
    OBVIOUS
  <2>3. ASSUME NEW U \in Small(n + 1) PROVE Eq(h, U) = Eq(g, U)
    <3>1. CASE U = {}
      BY <3>1
    <3>2. CASE U # {}
      <4>1. U \ {Some(U)} \in Small(n) /\ U \ {Some(U)} \in Small(n + 1)
        BY <1>1, <1>2, <3>2
      <4>2. h[U \ {Some(U)}] = g[U \ {Some(U)}]
        <5> HIDE DEF Small
        <5>1. h[U \ {Some(U)}] = Eq(g, U \ {Some(U)})
          BY <2>2, <4>1
        <5>2. g[U \ {Some(U)}] = Eq(g, U \ {Some(U)})
          <6> HIDE DEF Eq
          <6> QED BY <2>1, <4>1
        <5> QED BY <5>1, <5>2
      <4> QED BY <4>2
    <3> QED BY <3>1, <3>2
  <2>4. h = [U \in Small(n + 1) |-> Eq(h, U)]
    <3> HIDE DEF Small, Eq
    <3> QED BY <2>2, <2>3
  <2>5. \E k : Ok(k, n + 1)
    BY <2>4
  <2> QED
    <3> HIDE DEF Ok
    <3> QED BY <2>5
<1>6. \A n \in Nat : n \in P
  <2> HIDE DEF P
  <2> QED BY <1>4, <1>5, NatSetInduction
<1>7. PICK g : Ok(g, Cardinality(S))
  BY <1>1, <1>6
<1>8. Small(Cardinality(S)) = SUBSET S
  <2>1. \A T \in SUBSET S : Cardinality(T) <= Cardinality(S)
    BY FS_Subset
  <2> QED BY <2>1
<1>9. g = [U \in SUBSET S |-> Eq(g, U)]
  <2> HIDE DEF Small
  <2> QED BY <1>7, <1>8
<1>10. IsSum(g, f, S)
  BY <1>9 DEF IsSum, Some
<1> QED BY <1>10

-----------------------------------------------------------------------------
\* g[T] is the sum of f over T, for each part T of S.
PartialSums(g, f, S) ==
    /\ g[{}] = 0
    /\ \A T \in SUBSET S :
          T # {} => Some(T) \in T /\ g[T] = f[Some(T)] + g[T \ {Some(T)}]

LEMMA SumPartial ==
  ASSUME NEW f, IsFiniteSet(DOMAIN f)
  PROVE  \E g : PartialSums(g, f, DOMAIN f) /\ SumFunction(f) = g[DOMAIN f]
<1> DEFINE S == DOMAIN f
<1>1. PICK g : IsSum(g, f, S) /\ g = (CHOOSE k : IsSum(k, f, S))
  BY SumExists
<1>2. SumFunction(f) = g[S]
  BY <1>1 DEF SumFunction, SumFunctionOnSet, FoldFunctionOnSet, MapThenFoldSet, IsSum
<1>3. g[{}] = 0
  BY <1>1 DEF IsSum
<1>4. ASSUME NEW T \in SUBSET S, T # {}
      PROVE  Some(T) \in T /\ g[T] = f[Some(T)] + g[T \ {Some(T)}]
  BY <1>1, <1>4 DEF IsSum, Some
<1> QED BY <1>2, <1>3, <1>4 DEF PartialSums

LEMMA SumInt ==
  ASSUME NEW S, IsFiniteSet(S), NEW f \in [S -> Int]
  PROVE  SumFunction(f) \in Int
<1>1. PICK g : PartialSums(g, f, S) /\ SumFunction(f) = g[S]
  BY SumPartial
<1> DEFINE P == {T \in SUBSET S : g[T] \in Int}
<1>2. {} \in P
  BY <1>1 DEF PartialSums
<1>3. ASSUME NEW T \in SUBSET S, T # {}, T \ {Some(T)} \in P PROVE T \in P
  BY <1>1, <1>3 DEF PartialSums
<1>4. S \in P
  <2> HIDE DEF P
  <2> QED BY <1>2, <1>3, SubsetInduction
<1> QED BY <1>1, <1>4

\* A sum of natural numbers is one, and no less than any of them.
LEMMA SumNat ==
  ASSUME NEW S, IsFiniteSet(S), NEW f \in [S -> Nat]
  PROVE  SumFunction(f) \in Nat /\ \A x \in S : f[x] <= SumFunction(f)
<1>1. PICK g : PartialSums(g, f, S) /\ SumFunction(f) = g[S]
  BY SumPartial
<1> DEFINE P == {T \in SUBSET S : g[T] \in Nat /\ \A x \in T : f[x] <= g[T]}
<1>2. {} \in P
  BY <1>1 DEF PartialSums
<1>3. ASSUME NEW T \in SUBSET S, T # {}, T \ {Some(T)} \in P PROVE T \in P
  <2>1. PICK y \in T : y = Some(T) /\ g[T] = f[y] + g[T \ {y}]
    BY <1>1, <1>3 DEF PartialSums
  <2>2. f[y] \in Nat /\ g[T \ {y}] \in Nat
    BY <1>3, <2>1
  <2>3. ASSUME NEW x \in T PROVE f[x] <= g[T]
    <3>1. CASE x = y
      BY <2>1, <2>2, <3>1
    <3>2. CASE x # y
      <4>1. f[x] <= g[T \ {y}] /\ f[x] \in Nat
        BY <1>3, <2>1, <3>2
      <4> QED BY <2>1, <2>2, <4>1
    <3> QED BY <3>1, <3>2
  <2> QED BY <2>1, <2>2, <2>3
<1>4. S \in P
  <2> HIDE DEF P
  <2> QED BY <1>2, <1>3, SubsetInduction
<1> QED BY <1>1, <1>4

LEMMA SumChange ==
  ASSUME NEW S, IsFiniteSet(S), NEW f \in [S -> Int], NEW h \in [S -> Int], NEW y \in S,
         \A x \in S \ {y} : h[x] = f[x]
  PROVE  /\ SumFunction(f) \in Int
         /\ SumFunction(h) = SumFunction(f) + (h[y] - f[y])
<1>1. PICK g : PartialSums(g, f, S) /\ SumFunction(f) = g[S]
  BY SumPartial
<1>2. PICK k : PartialSums(k, h, S) /\ SumFunction(h) = k[S]
  BY SumPartial
<1> DEFINE P == {T \in SUBSET S : /\ g[T] \in Int
                                  /\ k[T] = g[T] + (IF y \in T THEN h[y] - f[y] ELSE 0)}
<1>3. {} \in P
  BY <1>1, <1>2 DEF PartialSums
<1>4. ASSUME NEW T \in SUBSET S, T # {}, T \ {Some(T)} \in P PROVE T \in P
  <2>1. PICK x \in T : /\ x = Some(T)
                       /\ g[T] = f[x] + g[T \ {x}]
                       /\ k[T] = h[x] + k[T \ {x}]
    BY <1>1, <1>2, <1>4 DEF PartialSums
  <2>2. /\ g[T \ {x}] \in Int
        /\ k[T \ {x}] = g[T \ {x}] + (IF y \in T \ {x} THEN h[y] - f[y] ELSE 0)
    BY <1>4, <2>1
  <2>3. f[x] \in Int /\ h[x] \in Int /\ f[y] \in Int /\ h[y] \in Int
    OBVIOUS
  <2>4. CASE x = y
    BY <2>1, <2>2, <2>3, <2>4
  <2>5. CASE x # y
    <3>1. h[x] = f[x] /\ (y \in T \ {x} <=> y \in T)
      BY <2>5
    <3> QED BY <2>1, <2>2, <2>3, <3>1
  <2> QED BY <2>4, <2>5
<1>5. S \in P
  <2> HIDE DEF P
  <2> QED BY <1>3, <1>4, SubsetInduction
<1> QED BY <1>1, <1>2, <1>5

LEMMA SumZero ==
  ASSUME NEW S, IsFiniteSet(S), NEW f \in [S -> Int], \A x \in S : f[x] = 0
  PROVE  SumFunction(f) = 0
<1>1. PICK g : PartialSums(g, f, S) /\ SumFunction(f) = g[S]
  BY SumPartial
<1> DEFINE P == {T \in SUBSET S : g[T] = 0}
<1>2. {} \in P
  BY <1>1 DEF PartialSums
<1>3. ASSUME NEW T \in SUBSET S, T # {}, T \ {Some(T)} \in P PROVE T \in P
  <2>1. PICK x \in T : x = Some(T) /\ g[T] = f[x] + g[T \ {x}]
    BY <1>1, <1>3 DEF PartialSums
  <2>2. f[x] = 0 /\ g[T \ {x}] = 0
    BY <1>3, <2>1
  <2> QED BY <2>1, <2>2
<1>4. S \in P
  <2> HIDE DEF P
  <2> QED BY <1>2, <1>3, SubsetInduction
<1> QED BY <1>1, <1>4

\* The sum of the sums.
LEMMA SumAdd ==
  ASSUME NEW S, IsFiniteSet(S), NEW f \in [S -> Int], NEW h \in [S -> Int], NEW e \in [S -> Int],
         \A x \in S : e[x] = f[x] + h[x]
  PROVE  SumFunction(e) = SumFunction(f) + SumFunction(h)
<1>1. PICK g : PartialSums(g, f, S) /\ SumFunction(f) = g[S]
  BY SumPartial
<1>2. PICK k : PartialSums(k, h, S) /\ SumFunction(h) = k[S]
  BY SumPartial
<1>3. PICK m : PartialSums(m, e, S) /\ SumFunction(e) = m[S]
  BY SumPartial
<1> DEFINE P == {T \in SUBSET S : g[T] \in Int /\ k[T] \in Int /\ m[T] = g[T] + k[T]}
<1>4. {} \in P
  BY <1>1, <1>2, <1>3 DEF PartialSums
<1>5. ASSUME NEW T \in SUBSET S, T # {}, T \ {Some(T)} \in P PROVE T \in P
  <2>1. PICK x \in T : /\ x = Some(T)
                       /\ g[T] = f[x] + g[T \ {x}]
                       /\ k[T] = h[x] + k[T \ {x}]
                       /\ m[T] = e[x] + m[T \ {x}]
    BY <1>1, <1>2, <1>3, <1>5 DEF PartialSums
  <2>2. f[x] \in Int /\ h[x] \in Int /\ e[x] = f[x] + h[x]
    OBVIOUS
  <2> QED BY <1>5, <2>1, <2>2
<1>6. S \in P
  <2> HIDE DEF P
  <2> QED BY <1>4, <1>5, SubsetInduction
<1> QED BY <1>1, <1>2, <1>3, <1>6

LEMMA Distributes ==
  ASSUME NEW a \in Int, NEW x \in Int, NEW y \in Int
  PROVE  a * (x + y) = a * x + a * y /\ a * x \in Int /\ a * y \in Int
OBVIOUS

LEMMA ByOneMore ==
  ASSUME NEW a \in Int, NEW m \in Int
  PROVE  a * m = a * (m - 1) + a /\ a * m \in Int /\ a * (m - 1) \in Int
OBVIOUS

\* Bounds on every a * f[x] - b * h[x] but one's bound the same of the sums.
LEMMA SumBetween ==
  ASSUME NEW S, IsFiniteSet(S), NEW f \in [S -> Int], NEW h \in [S -> Int], NEW y,
         NEW a \in Int, NEW b \in Int, NEW lo \in Int, NEW hi \in Int,
         \A x \in S \ {y} : lo <= a * f[x] - b * h[x] /\ a * f[x] - b * h[x] <= hi,
         y \in S => f[y] = 0 /\ h[y] = 0
  PROVE  LET m == Cardinality(S \ {y})
         IN  /\ lo * m <= a * SumFunction(f) - b * SumFunction(h)
             /\ a * SumFunction(f) - b * SumFunction(h) <= hi * m
<1>1. PICK g : PartialSums(g, f, S) /\ SumFunction(f) = g[S]
  BY SumPartial
<1>2. PICK k : PartialSums(k, h, S) /\ SumFunction(h) = k[S]
  BY SumPartial
<1> DEFINE Size(T) == Cardinality(T \ {y})
           Between(T) == /\ lo * Size(T) <= a * g[T] - b * k[T]
                         /\ a * g[T] - b * k[T] <= hi * Size(T)
           P == {T \in SUBSET S : g[T] \in Int /\ k[T] \in Int /\ Between(T)}
<1>3. \A T \in SUBSET S : IsFiniteSet(T \ {y}) /\ Size(T) \in Nat
  BY FS_Subset, FS_CardinalityType
<1>4. {} \in P
  <2>1. Size({}) = 0
    <3>1. {} \ {y} = {} OBVIOUS
    <3> QED BY <3>1, FS_EmptySet
  <2>2. g[{}] = 0 /\ k[{}] = 0
    BY <1>1, <1>2 DEF PartialSums
  <2>3. lo * 0 = 0 /\ hi * 0 = 0 /\ a * 0 = 0 /\ b * 0 = 0
    OBVIOUS
  <2>4. Between({})
    <3> HIDE DEF Size
    <3> QED BY <2>1, <2>2, <2>3
  <2> HIDE DEF Between
  <2> QED BY <2>2, <2>4
<1>5. ASSUME NEW T \in SUBSET S, T # {}, T \ {Some(T)} \in P PROVE T \in P
  <2>1. PICK x \in T : /\ x = Some(T)
                       /\ g[T] = f[x] + g[T \ {x}]
                       /\ k[T] = h[x] + k[T \ {x}]
    BY <1>1, <1>2, <1>5 DEF PartialSums
  <2>2. PICK U \in SUBSET S : U = T \ {x}
    OBVIOUS
  <2>3. g[U] \in Int /\ k[U] \in Int /\ Between(U)
    <3> HIDE DEF Between
    <3> QED BY <1>5, <2>1, <2>2
  <2>4. f[x] \in Int /\ h[x] \in Int
    OBVIOUS
  <2>5. g[T] = f[x] + g[U] /\ k[T] = h[x] + k[U] /\ g[T] \in Int /\ k[T] \in Int
    BY <2>1, <2>2, <2>3, <2>4
  <2>6. CASE x = y
    <3>1. T \ {y} = U \ {y}
      BY <2>2, <2>6
    <3>2. g[T] = g[U] /\ k[T] = k[U]
      BY <2>3, <2>5, <2>6
    <3>3. Between(T)
      BY <2>3, <3>1, <3>2
    <3> HIDE DEF Between
    <3> QED BY <2>5, <3>3
  <2>7. CASE x # y
    <3>1. Size(U) = Size(T) - 1 /\ Size(T) \in Int
      <4>1. U \ {y} = (T \ {y}) \ {x} /\ x \in T \ {y}
        BY <2>2, <2>7
      <4>2. Cardinality((T \ {y}) \ {x}) = Cardinality(T \ {y}) - 1
        BY <1>3, <4>1, FS_RemoveElement
      <4>3. Size(U) = Cardinality(T \ {y}) - 1
        BY <4>1, <4>2
      <4>4. Size(T) \in Int
        <5> HIDE DEF Size
        <5>1. \A n \in Nat : n \in Int
          OBVIOUS
        <5> QED BY <1>3, <5>1
      <4> QED BY <4>3, <4>4
    <3>2. lo * Size(T) = lo * Size(U) + lo /\ hi * Size(T) = hi * Size(U) + hi
          /\ lo * Size(U) \in Int /\ hi * Size(U) \in Int
      <4> HIDE DEF Size
      <4> QED BY <3>1, ByOneMore
    <3>3. a * g[T] = a * f[x] + a * g[U] /\ b * k[T] = b * h[x] + b * k[U]
      BY <2>3, <2>4, <2>5, Distributes
    <3>4. lo <= a * f[x] - b * h[x] /\ a * f[x] - b * h[x] <= hi
      BY <2>7
    <3>5. /\ a * f[x] \in Int /\ a * g[U] \in Int /\ b * h[x] \in Int /\ b * k[U] \in Int
      BY <2>3, <2>4, Distributes
    <3>6. Between(T)
      <4> HIDE DEF Size
      <4> QED BY <2>3, <3>2, <3>3, <3>4, <3>5
    <3> HIDE DEF Between
    <3> QED BY <2>5, <3>6
  <2> QED BY <2>6, <2>7
<1>6. S \in P
  <2> HIDE DEF P
  <2> QED BY <1>4, <1>5, SubsetInduction
<1> QED BY <1>1, <1>2, <1>6

-----------------------------------------------------------------------------
(* One breakdown.                                                          *)

\* What the seller and the platform share is the price of the goods.
Gathered(b) == b.payout + b.commission = b.subtotal

\* The rider's tip passes through; every other field follows from the rest.
Settled(b) ==
    /\ b.margin = b.delivery + b.handling - (b.rider - b.tip)
    /\ b.earning = b.commission + b.margin
    /\ b.gross = b.subtotal + b.delivery + b.handling - b.discount
    /\ b.grand = b.gross + b.tip - b.wallet

Untouched(b) == b.tip = 0 /\ b.wallet = 0

EarlyPasses == {"hydrate", "range", "lines", "handling", "rebate", "open_tip", "refused"}

RowInv(s) ==
    /\ Gathered(quote[s])
    /\ pc \in EarlyPasses => Untouched(quote[s])
    /\ Quoted(s) => Settled(quote[s])

IInv == TypeOK /\ \A s \in Seller : RowInv(s)

-----------------------------------------------------------------------------
\* The amounts the passes add are whole numbers.

LEMMA NearestWhole ==
    ASSUME NEW n \in Int, NEW d \in Nat \ {0}, NEW q \in Nearest(n, d)
    PROVE  q \in Int /\ (n \in Nat => q \in Nat)
<1>1. n \div d \in Int /\ (n \in Nat => n \div d \in Nat)
  OBVIOUS
<1>2. q \in {n \div d, n \div d + 1}
  BY DEF Nearest
<1>3. QED
  BY <1>1, <1>2

LEMMA LineAmounts ==
    ASSUME NEW line \in Line, rules \in [Category -> Rule]
    PROVE  LineTotal(line) \in Int /\ Commission(line) \in Int
<1>1. LineTotal(line) \in Int
  BY DEF Line, LineTotal
<1>2. rules[line.category] \in Rule /\ line.quantity \in Int
  BY DEF Line
<1> DEFINE rule  == rules[line.category]
           value == OrLegacy(rule.commission, rule.legacyCommission)
<1>3. value \in Int
  BY <1>2 DEF Rule, OrLegacy
<1>4. PercentOf(LineTotal(line), value) \in Int
  BY <1>1, <1>3 DEF PercentOf
<1>5. value * line.quantity \in Int
  BY <1>2, <1>3
<1> HIDE DEF value
<1>6. QED
  BY <1>1, <1>3, <1>4, <1>5 DEF Commission, Least, value

LEMMA SellerAmounts ==
    ASSUME TypeOK, NEW s \in Seller
    PROVE  CustomerDeliveryFee(s) \in Int /\ RiderPayout(s) \in Int
<1>1. request.distance[s] \in Int
  BY DEF TypeOK, Request, Seller
<1>2. settings.capacity \in Int /\ settings.surcharge \in Int /\ settings.riderPerKm \in Int
      /\ settings.baseFee \in Int /\ settings.riderBase \in Int /\ settings.fixedFee \in Int
  BY DEF TypeOK, Settings
<1>3. ExtraKm(s) \in Int
  BY <1>1, <1>2 DEF ExtraKm, CeilKm
<1>4. ExtraKm(s) * settings.surcharge \in Int /\ ExtraKm(s) * settings.riderPerKm \in Int
  BY <1>2, <1>3
<1>5. QED
  BY <1>2, <1>4 DEF CustomerDeliveryFee, RiderPayout

-----------------------------------------------------------------------------
\* What each pass does to one breakdown.

LEMMA FieldsWhole ==
    ASSUME NEW b \in Breakdown
    PROVE
          /\ b.subtotal \in Int /\ b.payout \in Int /\ b.commission \in Int
          /\ b.delivery \in Int /\ b.handling \in Int /\ b.discount \in Int
          /\ b.tip \in Int /\ b.wallet \in Int /\ b.gross \in Int /\ b.grand \in Int
          /\ b.payable \in Int /\ b.rider \in Int /\ b.margin \in Int
          /\ b.earning \in Int
BY DEF Breakdown

LEMMA WithLineKeeps ==
    ASSUME NEW b \in Breakdown, NEW line \in Line, rules \in [Category -> Rule],
           Gathered(b), Untouched(b)
    PROVE  LET p == WithLine(b, line)
           IN p \in Breakdown /\ Gathered(p) /\ Untouched(p)
<1> DEFINE p == WithLine(b, line)
<1>1.
      /\ LineTotal(line) \in Int /\ Commission(line) \in Int
      /\ b.subtotal + LineTotal(line) \in Int
      /\ b.payout + (LineTotal(line) - Commission(line)) \in Int
      /\ b.commission + Commission(line) \in Int
  BY LineAmounts, FieldsWhole
<1>2. p \in Breakdown
  BY <1>1, ZenonT(60) DEF WithLine, Breakdown
<1>3.
      /\ p.subtotal = b.subtotal + LineTotal(line)
      /\ p.payout = b.payout + (LineTotal(line) - Commission(line))
      /\ p.commission = b.commission + Commission(line) /\ p.delivery = b.delivery
      /\ p.handling = b.handling /\ p.discount = b.discount /\ p.tip = b.tip
      /\ p.wallet = b.wallet /\ p.gross = b.gross /\ p.grand = b.grand
      /\ p.rider = b.rider /\ p.margin = b.margin /\ p.earning = b.earning
  BY DEF WithLine, Breakdown
<1> HIDE DEF p
<1>4. Gathered(p) /\ Untouched(p)
  BY <1>1, <1>3, FieldsWhole DEF Gathered, Untouched
<1>5. QED
  BY <1>2, <1>4 DEF p

LEMMA PricedSettles ==
    ASSUME TypeOK, NEW s \in Seller, NEW b \in Breakdown, NEW share \in Int, NEW fee \in Int,
           Gathered(b), Untouched(b)
    PROVE  LET p == Priced(b, s, share, fee)
           IN p \in Breakdown /\ Gathered(p) /\ Untouched(p) /\ Settled(p)
<1> DEFINE p == Priced(b, s, share, fee)
<1>1.
      /\ CustomerDeliveryFee(s) \in Int /\ RiderPayout(s) \in Int
      /\ b.subtotal + CustomerDeliveryFee(s) + fee - share \in Int
      /\ CustomerDeliveryFee(s) + fee - RiderPayout(s) \in Int
      /\ b.commission + (CustomerDeliveryFee(s) + fee - RiderPayout(s)) \in Int
  BY SellerAmounts, FieldsWhole
<1>2. p \in Breakdown
  BY <1>1, ZenonT(60) DEF Priced, Breakdown
<1>3.
      /\ p.subtotal = b.subtotal /\ p.payout = b.payout
      /\ p.commission = b.commission /\ p.delivery = CustomerDeliveryFee(s)
      /\ p.handling = fee /\ p.discount = share /\ p.tip = b.tip
      /\ p.wallet = b.wallet
      /\ p.gross = b.subtotal + CustomerDeliveryFee(s) + fee - share
      /\ p.grand = b.subtotal + CustomerDeliveryFee(s) + fee - share
      /\ p.rider = RiderPayout(s)
      /\ p.margin = CustomerDeliveryFee(s) + fee - RiderPayout(s)
      /\ p.earning = b.commission + (CustomerDeliveryFee(s) + fee - RiderPayout(s))
  BY DEF Priced, Breakdown
<1> HIDE DEF p
<1>4. Gathered(p) /\ Untouched(p) /\ Settled(p)
  BY <1>1, <1>3, FieldsWhole DEF Gathered, Untouched, Settled
<1>5. QED
  BY <1>2, <1>4 DEF p

LEMMA RechargedSettles ==
    ASSUME NEW b \in Breakdown, NEW fee \in Int, Gathered(b), Untouched(b)
    PROVE  LET p == Recharged(b, fee)
           IN p \in Breakdown /\ Gathered(p) /\ Untouched(p) /\ Settled(p)
<1> DEFINE p == Recharged(b, fee)
<1>1.
      /\ 0 \in Int /\ b.subtotal + b.delivery + fee - b.discount \in Int
      /\ b.delivery + fee - b.rider \in Int
      /\ b.commission + (b.delivery + fee - b.rider) \in Int
  BY FieldsWhole
<1>2. p \in Breakdown
  BY <1>1, ZenonT(60) DEF Recharged, Breakdown
<1>3.
      /\ p.subtotal = b.subtotal /\ p.payout = b.payout
      /\ p.commission = b.commission /\ p.delivery = b.delivery /\ p.handling = fee
      /\ p.discount = b.discount /\ p.tip = b.tip /\ p.wallet = 0
      /\ p.gross = b.subtotal + b.delivery + fee - b.discount
      /\ p.grand = b.subtotal + b.delivery + fee - b.discount /\ p.rider = b.rider
      /\ p.margin = b.delivery + fee - b.rider
      /\ p.earning = b.commission + (b.delivery + fee - b.rider)
  BY DEF Recharged, Breakdown
<1> HIDE DEF p
<1>4. Gathered(p) /\ Untouched(p) /\ Settled(p)
  BY <1>1, <1>3, FieldsWhole DEF Gathered, Untouched, Settled
<1>5. QED
  BY <1>2, <1>4 DEF p

LEMMA RebatedSettles ==
    ASSUME NEW b \in Breakdown, Gathered(b), Untouched(b), Settled(b)
    PROVE  LET p == Rebated(b)
           IN p \in Breakdown /\ Gathered(p) /\ Untouched(p) /\ Settled(p)
<1> DEFINE p == Rebated(b)
<1>1.
      /\ 0 \in Int /\ b.gross - b.delivery \in Int /\ b.grand - b.delivery \in Int
      /\ b.handling - b.rider \in Int
      /\ b.commission + (b.handling - b.rider) \in Int
  BY FieldsWhole
<1>2. p \in Breakdown
  BY <1>1, ZenonT(60) DEF Rebated, Breakdown
<1>3.
      /\ p.subtotal = b.subtotal /\ p.payout = b.payout
      /\ p.commission = b.commission /\ p.delivery = 0 /\ p.handling = b.handling
      /\ p.discount = b.discount /\ p.tip = b.tip /\ p.wallet = b.wallet
      /\ p.gross = b.gross - b.delivery /\ p.grand = b.grand - b.delivery
      /\ p.rider = b.rider /\ p.margin = b.handling - b.rider
      /\ p.earning = b.commission + (b.handling - b.rider)
  BY DEF Rebated, Breakdown
<1> HIDE DEF p
<1>4. Gathered(p) /\ Untouched(p) /\ Settled(p)
  BY <1>1, <1>3, FieldsWhole DEF Gathered, Untouched, Settled
<1>5. QED
  BY <1>2, <1>4 DEF p

LEMMA TippedSettles ==
    ASSUME NEW b \in Breakdown, NEW share \in Int, Gathered(b), Settled(b)
    PROVE  LET p == Tipped(b, share)
           IN p \in Breakdown /\ Gathered(p) /\ Settled(p)
<1> DEFINE p == Tipped(b, share)
<1>1.
      /\ b.tip + share \in Int /\ b.rider + share \in Int /\ b.grand + share \in Int
  BY FieldsWhole
<1>2. p \in Breakdown
  BY <1>1, ZenonT(60) DEF Tipped, Breakdown
<1>3.
      /\ p.subtotal = b.subtotal /\ p.payout = b.payout
      /\ p.commission = b.commission /\ p.delivery = b.delivery
      /\ p.handling = b.handling /\ p.discount = b.discount /\ p.tip = b.tip + share
      /\ p.wallet = b.wallet /\ p.gross = b.gross /\ p.grand = b.grand + share
      /\ p.rider = b.rider + share /\ p.margin = b.margin /\ p.earning = b.earning
  BY DEF Tipped, Breakdown
<1> HIDE DEF p
<1>4. Gathered(p) /\ Settled(p)
  BY <1>1, <1>3, FieldsWhole DEF Gathered, Settled
<1>5. QED
  BY <1>2, <1>4 DEF p

LEMMA RedeemedSettles ==
    ASSUME NEW b \in Breakdown, NEW part \in Int, Gathered(b), Settled(b)
    PROVE  LET p == Redeemed(b, part)
           IN p \in Breakdown /\ Gathered(p) /\ Settled(p)
<1> DEFINE p == Redeemed(b, part)
<1>1.
      /\ b.wallet + part \in Int /\ b.grand - part \in Int
  BY FieldsWhole
<1>2. p \in Breakdown
  BY <1>1, ZenonT(60) DEF Redeemed, Breakdown
<1>3.
      /\ p.subtotal = b.subtotal /\ p.payout = b.payout
      /\ p.commission = b.commission /\ p.delivery = b.delivery
      /\ p.handling = b.handling /\ p.discount = b.discount /\ p.tip = b.tip
      /\ p.wallet = b.wallet + part /\ p.gross = b.gross /\ p.grand = b.grand - part
      /\ p.rider = b.rider /\ p.margin = b.margin /\ p.earning = b.earning
  BY DEF Redeemed, Breakdown
<1> HIDE DEF p
<1>4. Gathered(p) /\ Settled(p)
  BY <1>1, <1>3, FieldsWhole DEF Gathered, Settled
<1>5. QED
  BY <1>2, <1>4 DEF p

LEMMA PayableSettles ==
    ASSUME NEW b \in Breakdown, Gathered(b), Settled(b)
    PROVE  LET p == [b EXCEPT !.payable = b.grand]
           IN p \in Breakdown /\ Gathered(p) /\ Settled(p)
<1> DEFINE p == [b EXCEPT !.payable = b.grand]
<1>1. b.grand \in Int
  BY FieldsWhole
<1>2. p \in Breakdown
  BY <1>1, ZenonT(60) DEF Breakdown
<1>3.
      /\ p.subtotal = b.subtotal /\ p.payout = b.payout
      /\ p.commission = b.commission /\ p.delivery = b.delivery
      /\ p.handling = b.handling /\ p.discount = b.discount /\ p.tip = b.tip
      /\ p.wallet = b.wallet /\ p.gross = b.gross /\ p.grand = b.grand
      /\ p.rider = b.rider /\ p.margin = b.margin /\ p.earning = b.earning
  BY DEF Breakdown
<1> HIDE DEF p
<1>4. Gathered(p) /\ Settled(p)
  BY <1>1, <1>3, FieldsWhole DEF Gathered, Settled
<1>5. QED
  BY <1>2, <1>4 DEF p

-----------------------------------------------------------------------------
(* The cart.                                                               *)

LEMMA SellersCounted ==
    ASSUME request \in Request
    PROVE  LastSeller \in Nat /\ LastSeller >= 1 /\ Seller = 1..LastSeller
<1>1. request.cart \in Seq(Seq(Line) \ {<<>>}) /\ request.cart # <<>>
  BY DEF Request
<1>2. Len(request.cart) # 0
  BY <1>1, EmptySeq
<1>3. QED
  BY <1>1, <1>2 DEF LastSeller, Seller

LEMMA SellersFinite ==
  ASSUME TypeOK
  PROVE  /\ Seller = 1..LastSeller /\ LastSeller \in Nat /\ LastSeller >= 1
         /\ IsFiniteSet(Seller) /\ Cardinality(Seller) = LastSeller
         /\ Cardinality(Seller \ {LastSeller}) = LastSeller - 1
<1>1. Seller = 1..LastSeller /\ LastSeller \in Nat /\ LastSeller >= 1
  BY SellersCounted DEF TypeOK
<1>2. IsFiniteSet(1..LastSeller) /\ Cardinality(1..LastSeller) = LastSeller
  <2>1. Cardinality(1..LastSeller) = IF 1 > LastSeller THEN 0 ELSE LastSeller - 1 + 1
    BY <1>1, FS_Interval
  <2>2. LastSeller - 1 + 1 = LastSeller /\ ~(1 > LastSeller)
    BY <1>1
  <2>3. IsFiniteSet(1..LastSeller)
    BY <1>1, FS_Interval
  <2> QED BY <2>1, <2>2, <2>3
<1>3. LastSeller \in 1..LastSeller
  BY <1>1
<1>4. Cardinality((1..LastSeller) \ {LastSeller}) = LastSeller - 1
  BY <1>2, <1>3, FS_RemoveElement
<1> QED BY <1>1, <1>2, <1>4

LEMMA LinesFinite ==
  ASSUME TypeOK, NEW s \in Seller
  PROVE  /\ request.cart[s] \in Seq(Line) /\ Len(request.cart[s]) \in Nat
         /\ DOMAIN request.cart[s] = 1..Len(request.cart[s])
         /\ IsFiniteSet(DOMAIN request.cart[s])
         /\ \A i \in DOMAIN request.cart[s] :
              /\ request.cart[s][i] \in Line /\ LineTotal(request.cart[s][i]) \in Nat
              /\ request.cart[s][i].category \in Category
<1>1. request.cart \in Seq(Seq(Line) \ {<<>>}) /\ s \in DOMAIN request.cart
  BY DEF TypeOK, Request, Seller
<1>2. request.cart[s] \in Seq(Line)
  BY <1>1
<1>3. DOMAIN request.cart[s] = 1..Len(request.cart[s]) /\ Len(request.cart[s]) \in Nat
  BY <1>2
<1>4. IsFiniteSet(1..Len(request.cart[s]))
  BY <1>3, FS_Interval
<1>5. ASSUME NEW i \in DOMAIN request.cart[s]
      PROVE  /\ request.cart[s][i] \in Line /\ LineTotal(request.cart[s][i]) \in Nat
             /\ request.cart[s][i].category \in Category
  <2>1. request.cart[s][i] \in Line BY <1>2
  <2>2. PICK line \in Line : line = request.cart[s][i] BY <2>1
  <2>3. line.price \in Nat /\ line.quantity \in Nat /\ line.category \in Category
    BY DEF Line
  <2>4. line.price * line.quantity \in Nat BY <2>3
  <2> QED BY <2>1, <2>2, <2>3, <2>4 DEF LineTotal
<1> QED BY <1>2, <1>3, <1>4, <1>5

LEMMA CartAmounts ==
  ASSUME TypeOK
  PROVE  /\ CartSubtotal \in Nat
         /\ \A s \in Seller : Subtotal(s) \in Nat /\ Subtotal(s) <= CartSubtotal
<1>1. ASSUME NEW s \in Seller PROVE Subtotal(s) \in Nat
  <2> DEFINE f == [i \in DOMAIN request.cart[s] |-> LineTotal(request.cart[s][i])]
  <2>1. f \in [DOMAIN request.cart[s] -> Nat] /\ IsFiniteSet(DOMAIN request.cart[s])
    BY LinesFinite
  <2>2. Subtotal(s) = SumFunction(f)
    BY DEF Subtotal, SumOver
  <2> HIDE DEF f
  <2>3. SumFunction(f) \in Nat
    BY <2>1, SumNat
  <2> QED BY <2>2, <2>3
<1> DEFINE g == [s \in Seller |-> Subtotal(s)]
<1>2. g \in [Seller -> Nat] /\ CartSubtotal = SumFunction(g)
  BY <1>1 DEF CartSubtotal
<1>3. \A s \in Seller : g[s] = Subtotal(s)
  OBVIOUS
<1> HIDE DEF g
<1>4. SumFunction(g) \in Nat /\ \A s \in Seller : g[s] <= SumFunction(g)
  BY <1>2, SellersFinite, SumNat
<1> QED BY <1>1, <1>2, <1>3, <1>4

\* What a line adds to its category's spend is no more than the cart's spend.
LEMMA SpendAmounts ==
  ASSUME TypeOK, NEW c
  PROVE  /\ CartSpend(c) \in Nat
         /\ \A s \in Seller :
              /\ Spend(s, c) \in Nat /\ Spend(s, c) <= CartSpend(c)
              /\ \A i \in DOMAIN request.cart[s] :
                    request.cart[s][i].category = c =>
                        LineTotal(request.cart[s][i]) <= Spend(s, c)
<1>1. ASSUME NEW s \in Seller
      PROVE  /\ Spend(s, c) \in Nat
             /\ \A i \in DOMAIN request.cart[s] :
                    request.cart[s][i].category = c =>
                        LineTotal(request.cart[s][i]) <= Spend(s, c)
  <2> DEFINE f == [i \in DOMAIN request.cart[s] |->
                     IF request.cart[s][i].category = c
                     THEN LineTotal(request.cart[s][i]) ELSE 0]
  <2>1. f \in [DOMAIN request.cart[s] -> Nat] /\ IsFiniteSet(DOMAIN request.cart[s])
    BY LinesFinite
  <2>2. Spend(s, c) = SumFunction(f)
    BY DEF Spend, SumOver
  <2>3. \A i \in DOMAIN request.cart[s] :
            request.cart[s][i].category = c => f[i] = LineTotal(request.cart[s][i])
    OBVIOUS
  <2> HIDE DEF f
  <2>4. SumFunction(f) \in Nat /\ \A i \in DOMAIN request.cart[s] : f[i] <= SumFunction(f)
    BY <2>1, SumNat
  <2> QED BY <2>2, <2>3, <2>4
<1> DEFINE g == [s \in Seller |-> Spend(s, c)]
<1>2. g \in [Seller -> Nat] /\ CartSpend(c) = SumFunction(g)
  BY <1>1 DEF CartSpend
<1>3. \A s \in Seller : g[s] = Spend(s, c)
  OBVIOUS
<1> HIDE DEF g
<1>4. SumFunction(g) \in Nat /\ \A s \in Seller : g[s] <= SumFunction(g)
  BY <1>2, SellersFinite, SumNat
<1> QED BY <1>1, <1>2, <1>3, <1>4

LEMMA RoundedMonotone ==
  ASSUME NEW r \in Nat, NEW a \in Nat, NEW b \in Nat, a <= b
  PROVE  PercentOf(a, r) \in Nat /\ PercentOf(b, r) \in Nat /\ PercentOf(a, r) <= PercentOf(b, r)
<1>1. a * r \in Nat /\ b * r \in Nat /\ a * r <= b * r
  OBVIOUS
<1>2. 2 * a * r = 2 * (a * r) /\ 2 * b * r = 2 * (b * r)
  OBVIOUS
<1>3. PICK x \in Nat, y \in Nat : x = a * r /\ y = b * r
  BY <1>1
<1>4. (2 * x + 100) \div 200 \in Nat /\ (2 * y + 100) \div 200 \in Nat
      /\ (2 * x + 100) \div 200 <= (2 * y + 100) \div 200
  BY <1>1, <1>3
<1> QED BY <1>2, <1>3, <1>4 DEF PercentOf

LEMMA FeeMonotone ==
  ASSUME TypeOK, NEW c \in Category, NEW a \in Nat, NEW b \in Nat, a <= b
  PROVE  FeeOn(c, a) \in Nat /\ FeeOn(c, b) \in Nat /\ FeeOn(c, a) <= FeeOn(c, b)
<1>1. PICK rule \in Rule : rule = rules[c]
  BY DEF TypeOK
<1>2. rule.fee \in Nat /\ rule.legacyFee \in Nat /\ rule.feeKind \in {"none", "fixed", "percentage"}
  BY DEF Rule
<1>3. PICK value \in Nat : value = OrLegacy(rule.fee, rule.legacyFee)
  BY <1>2 DEF OrLegacy
<1>4. PercentOf(a, value) \in Nat /\ PercentOf(b, value) \in Nat
      /\ PercentOf(a, value) <= PercentOf(b, value)
  BY <1>3, RoundedMonotone
<1> QED BY <1>1, <1>2, <1>3, <1>4 DEF FeeOn

\* The fees, the shares and the discount of a cart are whole amounts.

LEMMA CategoriesKnown ==
  ASSUME TypeOK, NEW s \in Seller
  PROVE  /\ CategoriesOf(s) \subseteq Category /\ IsFiniteSet(CategoriesOf(s))
         /\ CategoriesOf(s) \subseteq Bought
<1> DEFINE kind == [i \in DOMAIN request.cart[s] |-> request.cart[s][i].category]
<1>1. CategoriesOf(s) \subseteq Category
  BY LinesFinite DEF CategoriesOf
<1>2. kind \in Surjection(DOMAIN request.cart[s], CategoriesOf(s))
  BY DEF Surjection, CategoriesOf
<1>3. IsFiniteSet(DOMAIN request.cart[s])
  BY LinesFinite
<1> HIDE DEF kind
<1>4. IsFiniteSet(CategoriesOf(s))
  BY <1>2, <1>3, FS_Surjection
<1> QED BY <1>1, <1>4 DEF Bought

LEMMA BoughtFees ==
  ASSUME TypeOK, NEW c \in Bought
  PROVE  c \in Category /\ FeeOn(c, CartSpend(c)) \in Nat
<1>1. c \in Category
  BY CategoriesKnown DEF Bought
<1>2. CartSpend(c) \in Nat
  BY SpendAmounts
<1> QED BY <1>1, <1>2, FeeMonotone

LEMMA LineFeeWhole ==
  ASSUME TypeOK, NEW line \in Line
  PROVE  LineFee(line) \in Nat
<1>1. line.category \in Category /\ line.quantity \in Nat /\ line.price \in Nat
  BY DEF Line
<1>2. LineTotal(line) \in Nat
  BY <1>1 DEF LineTotal
<1>3. FeeOn(line.category, LineTotal(line)) \in Nat
  BY <1>1, <1>2, FeeMonotone
<1>4. PICK rule \in Rule : rule = rules[line.category]
  BY <1>1 DEF TypeOK
<1>5. OrLegacy(rule.fee, rule.legacyFee) \in Nat
  BY DEF Rule, OrLegacy
<1>6. OrLegacy(rule.fee, rule.legacyFee) * line.quantity \in Nat
  BY <1>1, <1>5
<1> QED BY <1>3, <1>4, <1>6 DEF LineFee

LEMMA HandlingWhole ==
  ASSUME TypeOK, NEW s \in Seller, NEW fee \in SellerHandling(s)
  PROVE  fee \in Nat
<1>1. \A c \in CategoriesOf(s) : FeeOn(c, Spend(s, c)) \in Nat
  <2>1. \A c \in CategoriesOf(s) : c \in Category /\ Spend(s, c) \in Nat
    BY CategoriesKnown, SpendAmounts
  <2> QED BY <2>1, FeeMonotone
<1>2. CASE settings.strategy = "sum_of_category_fees"
  <2> DEFINE f == [c \in CategoriesOf(s) |-> FeeOn(c, Spend(s, c))]
  <2>1. f \in [CategoriesOf(s) -> Nat] /\ fee = SumFunction(f)
    BY <1>1, <1>2 DEF SellerHandling
  <2>2. IsFiniteSet(CategoriesOf(s))
    BY CategoriesKnown
  <2> HIDE DEF f
  <2> QED BY <2>1, <2>2, SumNat
<1>3. CASE settings.strategy = "per_item_fee"
  <2> DEFINE f == [i \in DOMAIN request.cart[s] |-> LineFee(request.cart[s][i])]
  <2>1. \A i \in DOMAIN request.cart[s] : LineFee(request.cart[s][i]) \in Nat
    BY LinesFinite, LineFeeWhole
  <2>2. f \in [DOMAIN request.cart[s] -> Nat] /\ IsFiniteSet(DOMAIN request.cart[s])
    BY <2>1, LinesFinite
  <2>3. fee = SumFunction(f)
    BY <1>3 DEF SellerHandling, SumOver
  <2> HIDE DEF f
  <2> QED BY <2>2, <2>3, SumNat
<1>4. CASE settings.strategy \notin {"sum_of_category_fees", "per_item_fee"}
  <2>1. fee \in {FeeOn(c, Spend(s, c)) :
                   c \in Dearest(CategoriesOf(s), LAMBDA d : Spend(s, d))}
    BY <1>4 DEF SellerHandling
  <2>2. Dearest(CategoriesOf(s), LAMBDA d : Spend(s, d)) \subseteq CategoriesOf(s)
    BY DEF Dearest
  <2> QED BY <1>1, <2>1, <2>2
<1> QED BY <1>2, <1>3, <1>4

LEMMA DiscountWhole ==
  ASSUME TypeOK, NEW s \in Seller, NEW share \in DiscountShares(s)
  PROVE  share \in Int
<1>1. CartSubtotal \in Nat /\ Subtotal(s) \in Nat /\ discount \in Nat /\ LastSeller \in Nat \ {0}
  BY CartAmounts, SellersFinite DEF TypeOK
<1>2. discount * Subtotal(s) \in Int
  BY <1>1
<1> QED BY <1>1, <1>2, NearestWhole DEF DiscountShares

LEMMA CouponWhole ==
  ASSUME TypeOK, NEW coupon \in Coupon, NEW amount \in CouponAmounts(coupon)
  PROVE  amount \in Nat
<1>1. /\ coupon.value \in Nat /\ coupon.most \in Nat /\ CartSubtotal \in Nat
      /\ coupon.kind \in {"percentage", "fixed", "free_delivery"}
  BY CartAmounts DEF Coupon
<1>2. CartSubtotal * coupon.value \in Nat
  BY <1>1
<1>3. \A a \in Nearest(CartSubtotal * coupon.value, 100) : a \in Nat
  BY <1>2, NearestWhole
<1> DEFINE asked == CASE coupon.kind = "free_delivery" -> {0}
                      [] coupon.kind = "fixed"         -> {coupon.value}
                      [] coupon.kind = "percentage"    -> Nearest(CartSubtotal * coupon.value, 100)
<1>4. \A a \in asked : a \in Nat
  BY <1>1, <1>3
<1>5. amount \in {Least(IF coupon.most > 0 THEN Least(a, coupon.most) ELSE a, CartSubtotal) :
                    a \in asked}
  BY DEF CouponAmounts
<1> HIDE DEF asked
<1> QED BY <1>1, <1>4, <1>5 DEF Least

LEMMA SharesWhole ==
  ASSUME TypeOK, NEW amount \in Int, NEW share \in Shares(amount)
  PROVE  share \in Int
<1>1. base \in Int /\ given \in Int /\ quote[at] \in Breakdown
  BY DEF TypeOK
<1>2. quote[at].grand * amount \in Int
  BY <1>1, FieldsWhole
<1> QED BY <1>1, <1>2, NearestWhole DEF Shares

LEMMA CapWhole ==
  ASSUME TypeOK
  PROVE  CappedWallet(base) \in Int
BY DEF TypeOK, Request, CappedWallet, Least

LEMMA TotalWhole ==
  ASSUME TypeOK, NEW field \in {"gross", "tip", "wallet", "grand", "discount"}
  PROVE  Total(field) \in Int
<1> DEFINE f == [s \in Seller |-> quote[s][field]]
<1>1. f \in [Seller -> Int]
  BY FieldsWhole DEF TypeOK
<1>2. IsFiniteSet(Seller) /\ Total(field) = SumFunction(f)
  BY SellersFinite DEF Total
<1> HIDE DEF f
<1> QED BY <1>1, <1>2, SumInt

-----------------------------------------------------------------------------
\* The invariant.

LEMMA InitInv == Init => IInv
<1> SUFFICES ASSUME Init
             PROVE  IInv
  OBVIOUS
<1>1. /\ request \in Request /\ Len(request.distance) = Len(request.cart)
      /\ rules \in [Category -> Rule] /\ settings \in Settings
  BY PricingAssumption DEF PricingAssumption, Init
<1>2. LastSeller \in Nat /\ LastSeller >= 1 /\ Seller = 1..LastSeller
  BY <1>1, SellersCounted
<1>3. EmptyBreakdown \in Breakdown
  BY DEF EmptyBreakdown, Breakdown
<1>4. TypeOK
  <2>1. quote \in [Seller -> Breakdown]
    BY <1>3 DEF Init
  <2>2. rest \in Seq(Line)
    BY DEF Init
  <2>3. at \in Seller
    BY <1>2 DEF Init
  <2>4. pc = "hydrate" /\ discount \in Nat /\ base \in Int /\ given \in Int
    BY DEF Init
  <2>5. rebate \in BOOLEAN
    BY Zenon DEF Init
  <2>6. QED
    BY <1>1, <2>1, <2>2, <2>3, <2>4, <2>5 DEF TypeOK
<1>5. ASSUME NEW s \in Seller
      PROVE  RowInv(s)
  <2>1. quote[s] = EmptyBreakdown
    BY DEF Init
  <2>2. Gathered(quote[s]) /\ Untouched(quote[s])
    BY <2>1 DEF Gathered, Untouched, EmptyBreakdown
  <2>3. ~Quoted(s)
    BY <1>2 DEF Init, Quoted
  <2>4. QED
    BY <2>2, <2>3 DEF RowInv
<1>6. QED
  BY <1>4, <1>5 DEF IInv

\* A step that leaves the breakdowns alone, and whose next pass asks for no
\* more of them than this one does.
LEMMA QuoteKept ==
    ASSUME IInv, TypeOK', UNCHANGED <<inputs, quote>>,
           pc' \in EarlyPasses => pc \in EarlyPasses,
           \A s \in Seller : Quoted(s)' => Quoted(s)
    PROVE  IInv'
<1>1. Seller' = Seller
  BY DEF inputs, Seller
<1>2. ASSUME NEW s \in Seller
      PROVE  RowInv(s)'
  <2>1. RowInv(s) /\ quote'[s] = quote[s]
    BY DEF IInv
  <2>2. QED
    BY <2>1 DEF RowInv
<1>3. QED
  BY <1>1, <1>2 DEF IInv

\* A step that rewrites breakdowns: what is to be shown of each.
LEMMA QuoteRewritten ==
    ASSUME TypeOK', UNCHANGED inputs,
           \A s \in Seller : /\ Gathered(quote'[s])
                             /\ pc' \in EarlyPasses => Untouched(quote'[s])
                             /\ Quoted(s)' => Settled(quote'[s])
    PROVE  IInv'
<1>1. Seller' = Seller
  BY DEF inputs, Seller
<1>2. QED
  BY <1>1 DEF IInv, RowInv

LEMMA HydrateStep ==
    ASSUME IInv, HydrateWithoutCoupon \/ HydrateWithCoupon \/ Refuse
    PROVE  IInv'
<1>1. TypeOK
  BY DEF IInv
<1>2. TypeOK'
  <2>1. CASE HydrateWithoutCoupon
    BY <1>1, <2>1 DEF TypeOK, HydrateWithoutCoupon, inputs, Request, Seller
  <2>2. CASE HydrateWithCoupon
    <3>1. discount' \in Nat
      BY <1>1, <2>2, CouponWhole DEF HydrateWithCoupon, EngineApplies, TypeOK, Request
    <3>2. QED
      BY <1>1, <2>2, <3>1 DEF TypeOK, HydrateWithCoupon, inputs, Seller
  <2>3. CASE Refuse
    BY <1>1, <2>3 DEF TypeOK, Refuse, inputs, Seller
  <2>4. QED
    BY <2>1, <2>2, <2>3
<1>3. QED
  BY <1>2, QuoteKept
     DEF HydrateWithoutCoupon, HydrateWithCoupon, Refuse, EarlyPasses, Quoted

LEMMA InRangeStep ==
    ASSUME IInv, InRange
    PROVE  IInv'
<1>1. TypeOK
  BY DEF IInv
<1>2. request.cart[at] \in Seq(Line)
  BY <1>1 DEF TypeOK, Request, Seller
<1>3. TypeOK'
  BY <1>1, <1>2 DEF TypeOK, InRange, inputs, Seller
<1>4. QED
  BY <1>3, QuoteKept DEF InRange, EarlyPasses, Quoted

LEMMA PriceLineStep ==
    ASSUME IInv, PriceLine
    PROVE  IInv'
<1>1. TypeOK
  BY DEF IInv
<1>2. /\ at \in Seller /\ quote \in [Seller -> Breakdown]
      /\ rules \in [Category -> Rule] /\ rest \in Seq(Line) /\ pc = "lines"
  BY <1>1 DEF TypeOK, PriceLine
<1>3. Head(rest) \in Line /\ Tail(rest) \in Seq(Line)
  BY <1>2, HeadTailProperties DEF PriceLine
<1>4. Gathered(quote[at]) /\ Untouched(quote[at])
  BY <1>2 DEF IInv, RowInv, EarlyPasses
<1> DEFINE p == WithLine(quote[at], Head(rest))
<1>5. p \in Breakdown /\ Gathered(p) /\ Untouched(p)
  BY <1>2, <1>3, <1>4, WithLineKeeps
<1>6. quote' = [quote EXCEPT ![at] = p]
  BY DEF PriceLine
<1> HIDE DEF p
<1>7. TypeOK'
  BY <1>1, <1>2, <1>3, <1>5, <1>6 DEF TypeOK, PriceLine, inputs, Seller
<1>8. ASSUME NEW s \in Seller
      PROVE  /\ Gathered(quote'[s])
             /\ pc' \in EarlyPasses => Untouched(quote'[s])
             /\ Quoted(s)' => Settled(quote'[s])
  <2>1. RowInv(s)
    BY DEF IInv
  <2>2. CASE s = at
    <3>1. ~Quoted(s)'
      BY <1>1, <1>2, <2>2, SellersCounted DEF TypeOK, PriceLine, Quoted
    <3>2. QED
      BY <1>2, <1>5, <1>6, <2>2, <3>1
  <2>3. CASE s # at
    BY <1>2, <1>6, <2>1, <2>3 DEF PriceLine, RowInv, Quoted
  <2>4. QED
    BY <2>2, <2>3
<1>9. QED
  BY <1>7, <1>8, QuoteRewritten DEF PriceLine

LEMMA PriceSellerStep ==
    ASSUME IInv, PriceSeller
    PROVE  IInv'
<1>1. TypeOK
  BY DEF IInv
<1>2. at \in Seller /\ quote \in [Seller -> Breakdown] /\ pc = "lines"
  BY <1>1 DEF TypeOK, PriceSeller
<1>3. LastSeller \in Nat /\ LastSeller >= 1 /\ Seller = 1..LastSeller
  BY <1>1, SellersCounted DEF TypeOK
<1>4. PICK share \in DiscountShares(at), fee \in SellerHandling(at) :
        quote' = [quote EXCEPT ![at] = Priced(@, at, share, fee)]
  BY DEF PriceSeller
<1>5. share \in Int /\ fee \in Nat
  BY <1>1, <1>2, DiscountWhole, HandlingWhole
<1>6. Gathered(quote[at]) /\ Untouched(quote[at])
  BY <1>2 DEF IInv, RowInv, EarlyPasses
<1> DEFINE p == Priced(quote[at], at, share, fee)
<1>7. p \in Breakdown /\ Gathered(p) /\ Untouched(p) /\ Settled(p)
  BY <1>1, <1>2, <1>4, <1>5, <1>6, PricedSettles
<1>8. quote' = [quote EXCEPT ![at] = p]
  BY <1>4
<1> HIDE DEF p
<1>9. quote' \in [Seller -> Breakdown]
  BY <1>2, <1>7, <1>8
<1>10. /\ pc' \in {"range", "handling"} /\ at' \in Seller
       /\ \A s \in Seller : Quoted(s)' => s = at \/ Quoted(s)
  BY <1>2, <1>3 DEF PriceSeller, Quoted
<1>11. TypeOK'
  BY <1>1, <1>9, <1>10 DEF TypeOK, PriceSeller, inputs, Seller
<1>12. ASSUME NEW s \in Seller
       PROVE  /\ Gathered(quote'[s])
              /\ pc' \in EarlyPasses => Untouched(quote'[s])
              /\ Quoted(s)' => Settled(quote'[s])
  <2>1. RowInv(s) /\ pc \in EarlyPasses
    BY <1>2 DEF IInv, EarlyPasses
  <2>2. CASE s = at
    BY <1>2, <1>7, <1>8, <2>2
  <2>3. CASE s # at
    BY <1>2, <1>8, <1>10, <2>1, <2>3 DEF RowInv
  <2>4. QED
    BY <2>2, <2>3
<1>13. QED
  BY <1>11, <1>12, QuoteRewritten DEF PriceSeller

LEMMA ChargeHandlingStep ==
    ASSUME IInv, ChargeHandling
    PROVE  IInv'
<1>1. TypeOK
  BY DEF IInv
<1>2. PICK c \in Dearest(Bought, CartSpend) :
        quote' = IF FeeOn(c, CartSpend(c)) = 0 THEN quote
                 ELSE [s \in Seller |->
                         Recharged(quote[s], IF s \in ChargedSellers(c)
                                             THEN FeeOn(c, CartSpend(c)) ELSE 0)]
  BY DEF ChargeHandling
<1>a. FeeOn(c, CartSpend(c)) \in Nat
  BY <1>1, BoughtFees DEF Dearest
<1>3. ASSUME NEW s \in Seller
      PROVE  /\ quote'[s] \in Breakdown /\ Gathered(quote'[s]) /\ Untouched(quote'[s])
             /\ Settled(quote'[s])
  <2>1. /\ quote[s] \in Breakdown /\ Gathered(quote[s]) /\ Untouched(quote[s])
        /\ Settled(quote[s])
    BY <1>1 DEF IInv, RowInv, TypeOK, ChargeHandling, EarlyPasses, Quoted
  <2>2. CASE FeeOn(c, CartSpend(c)) = 0
    BY <1>2, <2>1, <2>2
  <2>3. CASE FeeOn(c, CartSpend(c)) # 0
    <3> DEFINE fee == IF s \in ChargedSellers(c) THEN FeeOn(c, CartSpend(c)) ELSE 0
    <3>1. fee \in Int
      BY <1>a
    <3>2. quote'[s] = Recharged(quote[s], fee)
      BY <1>2, <2>3
    <3> HIDE DEF fee
    <3>3. QED
      BY <2>1, <3>1, <3>2, RechargedSettles
  <2>4. QED
    BY <2>2, <2>3
<1>4. DOMAIN quote' = Seller /\ quote' = [s \in DOMAIN quote' |-> quote'[s]]
  BY <1>1, <1>2 DEF TypeOK
<1>5. quote' \in [Seller -> Breakdown]
  BY <1>3, <1>4
<1>6. TypeOK'
  BY <1>1, <1>5 DEF TypeOK, ChargeHandling, inputs, Seller
<1>7. QED
  BY <1>3, <1>6, QuoteRewritten DEF ChargeHandling

LEMMA RebateStep ==
    ASSUME IInv, RebateDelivery
    PROVE  IInv'
<1>1. TypeOK
  BY DEF IInv
<1>2. ASSUME NEW s \in Seller
      PROVE  /\ quote'[s] \in Breakdown /\ Gathered(quote'[s]) /\ Untouched(quote'[s])
             /\ Settled(quote'[s])
  <2>1. /\ quote[s] \in Breakdown /\ Gathered(quote[s]) /\ Untouched(quote[s])
        /\ Settled(quote[s])
    BY <1>1 DEF IInv, RowInv, TypeOK, RebateDelivery, EarlyPasses, Quoted
  <2>2. quote'[s] \in {quote[s], Rebated(quote[s])}
    BY DEF RebateDelivery
  <2>3. QED
    BY <2>1, <2>2, RebatedSettles
<1>3. DOMAIN quote' = Seller /\ quote' = [s \in DOMAIN quote' |-> quote'[s]]
  BY <1>1 DEF TypeOK, RebateDelivery
<1>4. quote' \in [Seller -> Breakdown]
  BY <1>2, <1>3
<1>5. TypeOK'
  BY <1>1, <1>4 DEF TypeOK, RebateDelivery, inputs, Seller
<1>6. QED
  BY <1>2, <1>5, QuoteRewritten DEF RebateDelivery

LEMMA OpenStep ==
    ASSUME IInv, OpenTip \/ OpenWallet
    PROVE  IInv'
<1>1. TypeOK
  BY DEF IInv
<1>2. 1 \in Seller
  BY <1>1, SellersCounted DEF TypeOK
<1>3. TypeOK'
  <2>a. Total("grand") \in Int
    BY <1>1, TotalWhole
  <2>1. CASE OpenTip
    BY <1>1, <1>2, <2>a, <2>1 DEF TypeOK, OpenTip, inputs, Seller
  <2>2. CASE OpenWallet
    BY <1>1, <1>2, <2>a, <2>2 DEF TypeOK, OpenWallet, inputs, Seller
  <2>3. QED
    BY <2>1, <2>2
<1>4. QED
  <2>1. pc \in {"open_tip", "open_wallet"}
        /\ pc' \in {"tip", "open_wallet", "wallet", "payable"}
        /\ UNCHANGED <<inputs, quote>>
    BY DEF OpenTip, OpenWallet
  <2>2. QED
    BY <1>3, <2>1, QuoteKept DEF EarlyPasses, Quoted

\* In the last passes every breakdown is settled, and one of them changes.
LEMMA LateRow ==
    ASSUME IInv, UNCHANGED inputs, TypeOK', pc \in {"tip", "wallet", "payable"},
           pc' \notin EarlyPasses, NEW p, Gathered(p), Settled(p),
           quote' = [quote EXCEPT ![at] = p]
    PROVE  IInv'
<1>1. quote \in [Seller -> Breakdown]
  BY DEF IInv, TypeOK
<1>2. ASSUME NEW s \in Seller
      PROVE  /\ Gathered(quote'[s])
             /\ pc' \in EarlyPasses => Untouched(quote'[s])
             /\ Quoted(s)' => Settled(quote'[s])
  <2>1. Gathered(quote[s]) /\ Settled(quote[s])
    BY DEF IInv, RowInv, Quoted
  <2>2. quote'[s] \in {p, quote[s]}
    BY <1>1
  <2>3. QED
    BY <2>1, <2>2
<1>3. QED
  BY <1>2, QuoteRewritten

LEMMA TipStep ==
    ASSUME IInv, TipSeller
    PROVE  IInv'
<1>1. TypeOK
  BY DEF IInv
<1>2. at \in Seller /\ quote \in [Seller -> Breakdown] /\ given \in Int /\ request.tip \in Int
  BY <1>1 DEF TypeOK, Request
<1>3. LastSeller \in Nat /\ LastSeller >= 1 /\ Seller = 1..LastSeller
  BY <1>1, SellersCounted DEF TypeOK
<1>4. PICK share \in Shares(request.tip) :
        quote' = [quote EXCEPT ![at] = Tipped(@, share)] /\ given' = given + share
  BY DEF TipSeller
<1>5. share \in Int
  BY <1>1, <1>2, <1>4, SharesWhole
<1>6. Gathered(quote[at]) /\ Settled(quote[at])
  BY <1>2 DEF IInv, RowInv, TipSeller, Quoted
<1> DEFINE p == Tipped(quote[at], share)
<1>7. p \in Breakdown /\ Gathered(p) /\ Settled(p)
  BY <1>2, <1>5, <1>6, TippedSettles
<1>8. quote' = [quote EXCEPT ![at] = p]
  BY <1>4
<1> HIDE DEF p
<1>9. pc' \in {"tip", "open_wallet"} /\ at' \in Seller /\ given' \in Int
  BY <1>2, <1>3, <1>4, <1>5 DEF TipSeller
<1>10. TypeOK'
  BY <1>1, <1>2, <1>7, <1>8, <1>9 DEF TypeOK, TipSeller, inputs, Seller
<1>11. QED
  BY <1>7, <1>8, <1>9, <1>10, LateRow DEF TipSeller, EarlyPasses

LEMMA RedeemStep ==
    ASSUME IInv, RedeemSeller
    PROVE  IInv'
<1>1. TypeOK
  BY DEF IInv
<1>2. at \in Seller /\ quote \in [Seller -> Breakdown] /\ given \in Int
  BY <1>1 DEF TypeOK
<1>3. LastSeller \in Nat /\ LastSeller >= 1 /\ Seller = 1..LastSeller
  BY <1>1, SellersCounted DEF TypeOK
<1>4. PICK share \in Shares(CappedWallet(base)) :
        /\ given' = given + share
        /\ quote' = [quote EXCEPT ![at] = Redeemed(@, Clamped(share, @))]
  BY DEF RedeemSeller
<1>a. share \in Int
  BY <1>1, <1>4, CapWhole, SharesWhole
<1>5. Clamped(share, quote[at]) \in Int
  BY <1>2, <1>a, FieldsWhole DEF Clamped, Least
<1>6. Gathered(quote[at]) /\ Settled(quote[at])
  BY <1>2 DEF IInv, RowInv, RedeemSeller, Quoted
<1> DEFINE p == Redeemed(quote[at], Clamped(share, quote[at]))
<1>7. p \in Breakdown /\ Gathered(p) /\ Settled(p)
  BY <1>2, <1>5, <1>6, RedeemedSettles
<1>8. quote' = [quote EXCEPT ![at] = p]
  BY <1>4
<1> HIDE DEF p
<1>9. pc' \in {"wallet", "payable"} /\ at' \in Seller /\ given' \in Int
  BY <1>2, <1>3, <1>4, <1>a DEF RedeemSeller
<1>10. TypeOK'
  BY <1>1, <1>2, <1>7, <1>8, <1>9 DEF TypeOK, RedeemSeller, inputs, Seller
<1>11. QED
  BY <1>7, <1>8, <1>9, <1>10, LateRow DEF RedeemSeller, EarlyPasses

LEMMA PayableStep ==
    ASSUME IInv, SetPayable
    PROVE  IInv'
<1>1. TypeOK
  BY DEF IInv
<1>2. ASSUME NEW s \in Seller
      PROVE  quote'[s] \in Breakdown /\ Gathered(quote'[s]) /\ Settled(quote'[s])
  <2>1. quote[s] \in Breakdown /\ Gathered(quote[s]) /\ Settled(quote[s])
    BY <1>1 DEF IInv, RowInv, TypeOK, SetPayable, Quoted
  <2>2. quote'[s] = [quote[s] EXCEPT !.payable = quote[s].grand]
    BY DEF SetPayable
  <2>3. QED
    BY <2>1, <2>2, PayableSettles
<1>3. DOMAIN quote' = Seller /\ quote' = [s \in DOMAIN quote' |-> quote'[s]]
  BY DEF SetPayable
<1>4. quote' \in [Seller -> Breakdown]
  BY <1>2, <1>3
<1>5. TypeOK'
  BY <1>1, <1>4 DEF TypeOK, SetPayable, inputs, Seller
<1>6. QED
  BY <1>2, <1>5, QuoteRewritten DEF SetPayable, EarlyPasses

LEMMA StepInv == IInv /\ [Next]_vars => IInv'
<1> SUFFICES ASSUME IInv, [Next]_vars
             PROVE  IInv'
  OBVIOUS
<1>1. CASE HydrateWithoutCoupon \/ HydrateWithCoupon \/ Refuse
  BY <1>1, HydrateStep
<1>2. CASE InRange
  BY <1>2, InRangeStep
<1>3. CASE PriceLine
  BY <1>3, PriceLineStep
<1>4. CASE PriceSeller
  BY <1>4, PriceSellerStep
<1>5. CASE ChargeHandling
  BY <1>5, ChargeHandlingStep
<1>6. CASE RebateDelivery
  BY <1>6, RebateStep
<1>7. CASE OpenTip \/ OpenWallet
  BY <1>7, OpenStep
<1>8. CASE TipSeller
  BY <1>8, TipStep
<1>9. CASE RedeemSeller
  BY <1>9, RedeemStep
<1>10. CASE SetPayable
  BY <1>10, PayableStep
<1>11. CASE Ended \/ UNCHANGED vars
  <2>1. UNCHANGED vars
    BY <1>11 DEF Ended
  <2>2. TypeOK'
    BY <2>1 DEF IInv, TypeOK, vars, Seller
  <2>3. QED
    BY <2>1, <2>2, QuoteKept DEF vars, inputs, EarlyPasses, Quoted
<1>12. QED
  BY <1>1, <1>2, <1>3, <1>4, <1>5, <1>6, <1>7, <1>8, <1>9, <1>10, <1>11 DEF Next

LEMMA InvAccounts == IInv => MoneyAccountedFor
<1> SUFFICES ASSUME IInv, NEW s \in Seller, Quoted(s)
             PROVE  Accounted(quote[s])
  BY DEF MoneyAccountedFor
<1>1. quote[s] \in Breakdown /\ Gathered(quote[s]) /\ Settled(quote[s])
  BY DEF IInv, TypeOK, RowInv
<1>2. QED
  BY <1>1, FieldsWhole DEF Accounted, Gathered, Settled

(* The passes of buildCheckoutPricingSnapshot neither lose nor make money, *)
(* for any number of sellers, any cart, rules, settings and rounding.      *)
THEOREM MoneyConserved == Spec => []MoneyAccountedFor
<1>1. Spec => []IInv
  BY InitInv, StepInv, PTL DEF Spec
<1>2. QED
  BY <1>1, InvAccounts, PTL

(* Every amount the passes write is a whole number of paise, and the loops *)
(* stay on the sellers of the cart.                                        *)
THEOREM PricingTypeCorrect == Spec => []TypeOK
<1>1. Spec => []IInv
  BY InitInv, StepInv, PTL DEF Spec
<1>2. IInv => TypeOK
  BY DEF IInv
<1>3. QED
  BY <1>1, <1>2, PTL

-----------------------------------------------------------------------------
(* What the passes do to the fields the sums are over.                     *)

LEMMA SellersStay ==
  ASSUME UNCHANGED inputs
  PROVE  /\ Seller' = Seller /\ LastSeller' = LastSeller /\ CartSubtotal' = CartSubtotal
         /\ \A s : Subtotal(s)' = Subtotal(s)
BY DEF inputs, Seller, LastSeller, CartSubtotal, Subtotal, SumOver

LEMMA InputsStay ==
  ASSUME [Next]_vars
  PROVE  UNCHANGED inputs
BY DEF Next, vars, inputs, HydrateWithoutCoupon, HydrateWithCoupon, Refuse, InRange, PriceLine,
       PriceSeller, ChargeHandling, RebateDelivery, OpenTip, TipSeller, OpenWallet, RedeemSeller,
       SetPayable, Ended

\* Nothing the passes after pricing add up changes.
SameCharges(s) ==
    /\ quote'[s].subtotal = quote[s].subtotal /\ quote'[s].delivery = quote[s].delivery
    /\ quote'[s].handling = quote[s].handling /\ quote'[s].discount = quote[s].discount

SameParts(s) ==
    quote'[s].tip = quote[s].tip /\ quote'[s].wallet = quote[s].wallet

LEMMA LineMove ==
  ASSUME TypeOK, PriceLine
  PROVE  /\ Head(rest) \in Line /\ at \in Seller
         /\ \A s \in Seller \ {at} : quote'[s] = quote[s]
         /\ quote'[at].subtotal = quote[at].subtotal + LineTotal(Head(rest))
         /\ quote'[at].delivery = quote[at].delivery /\ quote'[at].handling = quote[at].handling
         /\ quote'[at].discount = quote[at].discount
<1>1. at \in Seller /\ quote \in [Seller -> Breakdown] /\ Head(rest) \in Line
  BY HeadTailProperties DEF TypeOK, PriceLine
<1>2. PICK p : p = WithLine(quote[at], Head(rest))
  OBVIOUS
<1>3. /\ p.subtotal = quote[at].subtotal + LineTotal(Head(rest))
      /\ p.delivery = quote[at].delivery /\ p.handling = quote[at].handling
      /\ p.discount = quote[at].discount
  BY <1>1, <1>2 DEF WithLine, Breakdown
<1>4. quote' = [quote EXCEPT ![at] = p]
  BY <1>2 DEF PriceLine
<1> QED BY <1>1, <1>3, <1>4

LEMMA SellerMove ==
  ASSUME TypeOK, PriceSeller
  PROVE  /\ at \in Seller
         /\ \A s \in Seller \ {at} : quote'[s] = quote[s]
         /\ quote'[at].subtotal = quote[at].subtotal
         /\ quote'[at].delivery = CustomerDeliveryFee(at)
         /\ quote'[at].handling \in SellerHandling(at) \cap Nat
         /\ quote'[at].discount \in DiscountShares(at)
<1>1. at \in Seller /\ quote \in [Seller -> Breakdown]
  BY DEF TypeOK
<1>2. PICK share \in DiscountShares(at), fee \in SellerHandling(at) :
         quote' = [quote EXCEPT ![at] = Priced(@, at, share, fee)]
  BY DEF PriceSeller
<1>3. PICK p : p = Priced(quote[at], at, share, fee)
  OBVIOUS
<1>4. /\ p.subtotal = quote[at].subtotal /\ p.delivery = CustomerDeliveryFee(at)
      /\ p.handling = fee /\ p.discount = share
  BY <1>1, <1>3 DEF Priced, Breakdown
<1>5. quote' = [quote EXCEPT ![at] = p]
  BY <1>2, <1>3
<1>6. fee \in Nat
  BY <1>1, HandlingWhole
<1> QED BY <1>1, <1>2, <1>4, <1>5, <1>6

LEMMA HandlingMove ==
  ASSUME TypeOK, ChargeHandling
  PROVE  \E c \in Dearest(Bought, CartSpend) :
            /\ FeeOn(c, CartSpend(c)) \in Nat
            /\ FeeOn(c, CartSpend(c)) = 0 => quote' = quote
            /\ FeeOn(c, CartSpend(c)) # 0 =>
                 \A s \in Seller :
                    quote'[s].handling = IF s \in ChargedSellers(c)
                                         THEN FeeOn(c, CartSpend(c)) ELSE 0
            /\ \A s \in Seller : /\ quote'[s].subtotal = quote[s].subtotal
                                 /\ quote'[s].delivery = quote[s].delivery
                                 /\ quote'[s].discount = quote[s].discount
<1>1. PICK c \in Dearest(Bought, CartSpend) :
        quote' = IF FeeOn(c, CartSpend(c)) = 0 THEN quote
                 ELSE [s \in Seller |->
                         Recharged(quote[s], IF s \in ChargedSellers(c)
                                             THEN FeeOn(c, CartSpend(c)) ELSE 0)]
  BY DEF ChargeHandling
<1>2. ASSUME NEW s \in Seller, FeeOn(c, CartSpend(c)) # 0
      PROVE  /\ quote'[s].handling = IF s \in ChargedSellers(c)
                                     THEN FeeOn(c, CartSpend(c)) ELSE 0
             /\ quote'[s].subtotal = quote[s].subtotal
             /\ quote'[s].delivery = quote[s].delivery
             /\ quote'[s].discount = quote[s].discount
  <2>1. PICK fee : fee = IF s \in ChargedSellers(c) THEN FeeOn(c, CartSpend(c)) ELSE 0
    OBVIOUS
  <2>2. quote'[s] = Recharged(quote[s], fee) /\ quote[s] \in Breakdown
    BY <1>1, <1>2, <2>1 DEF TypeOK
  <2>3. PICK p : p = Recharged(quote[s], fee)
    OBVIOUS
  <2>4. /\ p.handling = fee /\ p.subtotal = quote[s].subtotal
        /\ p.delivery = quote[s].delivery /\ p.discount = quote[s].discount
    BY <2>2, <2>3 DEF Recharged, Breakdown
  <2> QED BY <2>1, <2>2, <2>3, <2>4
<1>3. FeeOn(c, CartSpend(c)) = 0 => quote' = quote
  BY <1>1
<1>4. FeeOn(c, CartSpend(c)) \in Nat
  BY BoughtFees DEF Dearest
<1> QED BY <1>2, <1>3, <1>4

LEMMA RebateMove ==
  ASSUME TypeOK, RebateDelivery
  PROVE  \A s \in Seller : /\ quote'[s].delivery \in {0, quote[s].delivery}
                           /\ quote'[s].subtotal = quote[s].subtotal
                           /\ quote'[s].handling = quote[s].handling
                           /\ quote'[s].discount = quote[s].discount
<1> SUFFICES ASSUME NEW s \in Seller
             PROVE  /\ quote'[s].delivery \in {0, quote[s].delivery}
                    /\ quote'[s].subtotal = quote[s].subtotal
                    /\ quote'[s].handling = quote[s].handling
                    /\ quote'[s].discount = quote[s].discount
  OBVIOUS
<1>1. quote'[s] \in {quote[s], Rebated(quote[s])} /\ quote[s] \in Breakdown
  BY DEF TypeOK, RebateDelivery
<1>2. PICK p : p = Rebated(quote[s])
  OBVIOUS
<1>3. /\ p.delivery = 0 /\ p.subtotal = quote[s].subtotal
      /\ p.handling = quote[s].handling /\ p.discount = quote[s].discount
  BY <1>1, <1>2 DEF Rebated, Breakdown
<1> QED BY <1>1, <1>2, <1>3

LEMMA TipMove ==
  ASSUME TypeOK, TipSeller
  PROVE  /\ at \in Seller /\ \A s \in Seller \ {at} : quote'[s] = quote[s]
         /\ SameCharges(at) /\ quote'[at].gross = quote[at].gross
         /\ quote'[at].wallet = quote[at].wallet
         /\ \E share \in Shares(request.tip) :
                share \in Int /\ quote'[at].tip = quote[at].tip + share /\ given' = given + share
<1>1. /\ at \in Seller /\ quote \in [Seller -> Breakdown] /\ given \in Int
      /\ request.tip \in Int
  BY DEF TypeOK, Request
<1>2. PICK share \in Shares(request.tip) :
        quote' = [quote EXCEPT ![at] = Tipped(@, share)] /\ given' = given + share
  BY DEF TipSeller
<1>3. share \in Int
  BY <1>1, <1>2, SharesWhole
<1>4. PICK p : p = Tipped(quote[at], share)
  OBVIOUS
<1>5. /\ p.subtotal = quote[at].subtotal /\ p.delivery = quote[at].delivery
      /\ p.handling = quote[at].handling /\ p.discount = quote[at].discount
      /\ p.gross = quote[at].gross /\ p.wallet = quote[at].wallet
      /\ p.tip = quote[at].tip + share
  BY <1>1, <1>4 DEF Tipped, Breakdown
<1>6. quote' = [quote EXCEPT ![at] = p]
  BY <1>2, <1>4
<1> QED BY <1>1, <1>2, <1>3, <1>5, <1>6 DEF SameCharges

LEMMA RedeemMove ==
  ASSUME TypeOK, RedeemSeller
  PROVE  /\ at \in Seller /\ \A s \in Seller \ {at} : quote'[s] = quote[s]
         /\ SameCharges(at) /\ quote'[at].gross = quote[at].gross
         /\ quote'[at].tip = quote[at].tip
         /\ \E share \in Shares(CappedWallet(base)) :
                /\ share \in Int /\ given' = given + share
                /\ quote'[at].wallet = quote[at].wallet + Clamped(share, quote[at])
<1>1. at \in Seller /\ quote \in [Seller -> Breakdown] /\ given \in Int
  BY DEF TypeOK
<1>2. PICK share \in Shares(CappedWallet(base)) :
        /\ given' = given + share
        /\ quote' = [quote EXCEPT ![at] = Redeemed(@, Clamped(share, @))]
  BY DEF RedeemSeller
<1>a. share \in Int
  BY <1>2, CapWhole, SharesWhole
<1>3. PICK part : part = Clamped(share, quote[at])
  OBVIOUS
<1>4. PICK p : p = Redeemed(quote[at], part)
  OBVIOUS
<1>5. /\ p.subtotal = quote[at].subtotal /\ p.delivery = quote[at].delivery
      /\ p.handling = quote[at].handling /\ p.discount = quote[at].discount
      /\ p.gross = quote[at].gross /\ p.tip = quote[at].tip
      /\ p.wallet = quote[at].wallet + part
  BY <1>1, <1>4 DEF Redeemed, Breakdown
<1>6. quote' = [quote EXCEPT ![at] = p]
  BY <1>2, <1>3, <1>4
<1> QED BY <1>1, <1>2, <1>a, <1>3, <1>5, <1>6 DEF SameCharges

LEMMA PayableMove ==
  ASSUME TypeOK, SetPayable
  PROVE  \A s \in Seller : /\ SameCharges(s) /\ SameParts(s) /\ quote'[s].gross = quote[s].gross
                           /\ quote'[s].grand = quote[s].grand
                           /\ quote'[s].payable = quote[s].grand
<1> SUFFICES ASSUME NEW s \in Seller
             PROVE  /\ SameCharges(s) /\ SameParts(s) /\ quote'[s].gross = quote[s].gross
                    /\ quote'[s].grand = quote[s].grand /\ quote'[s].payable = quote[s].grand
  OBVIOUS
<1>1. quote'[s] = [quote[s] EXCEPT !.payable = quote[s].grand] /\ quote[s] \in Breakdown
  BY DEF TypeOK, SetPayable
<1>2. PICK p : p = [quote[s] EXCEPT !.payable = quote[s].grand]
  OBVIOUS
<1>3. /\ p.subtotal = quote[s].subtotal /\ p.delivery = quote[s].delivery
      /\ p.handling = quote[s].handling /\ p.discount = quote[s].discount
      /\ p.gross = quote[s].gross /\ p.tip = quote[s].tip /\ p.wallet = quote[s].wallet
      /\ p.grand = quote[s].grand /\ p.payable = quote[s].grand
  BY <1>1, <1>2 DEF Breakdown
<1> QED BY <1>1, <1>2, <1>3 DEF SameCharges, SameParts

-----------------------------------------------------------------------------
(* The goods: pricing line by line adds up to the sellers' subtotals.      *)

\* The price of the first k lines of a seller.
UpTo(s, k) == SumFunction([i \in DOMAIN request.cart[s] |->
                             IF i <= k THEN LineTotal(request.cart[s][i]) ELSE 0])

\* All but the first k lines of the seller are still to be priced.
LinesLeft(k) ==
    /\ Len(rest) = Len(request.cart[at]) - k
    /\ \A i \in 1..Len(rest) : rest[i] = request.cart[at][k + i]

GoodsInv ==
    /\ pc = "hydrate" => at = 1
    /\ pc \in {"hydrate", "range"} => \A s \in Seller : s >= at => quote[s].subtotal = 0
    /\ pc = "lines" =>
         /\ \A s \in Seller : s > at => quote[s].subtotal = 0
         /\ \E k \in 0..Len(request.cart[at]) : LinesLeft(k) /\ quote[at].subtotal = UpTo(at, k)
    /\ \A s \in Seller : Quoted(s) => quote[s].subtotal = Subtotal(s)

LEMMA NothingPriced ==
  ASSUME TypeOK, NEW s \in Seller
  PROVE  UpTo(s, 0) = 0
<1> DEFINE f == [i \in DOMAIN request.cart[s] |->
                   IF i <= 0 THEN LineTotal(request.cart[s][i]) ELSE 0]
<1>1. \A i \in DOMAIN request.cart[s] : ~(i <= 0)
  BY LinesFinite
<1>2. f \in [DOMAIN request.cart[s] -> Int] /\ \A i \in DOMAIN request.cart[s] : f[i] = 0
  BY <1>1
<1>3. IsFiniteSet(DOMAIN request.cart[s])
  BY LinesFinite
<1>4. UpTo(s, 0) = SumFunction(f)
  BY DEF UpTo
<1> HIDE DEF f
<1> QED BY <1>2, <1>3, <1>4, SumZero

LEMMA EverythingPriced ==
  ASSUME TypeOK, NEW s \in Seller
  PROVE  UpTo(s, Len(request.cart[s])) = Subtotal(s)
<1>1. \A i \in DOMAIN request.cart[s] : i <= Len(request.cart[s])
  BY LinesFinite
<1>2. [i \in DOMAIN request.cart[s] |->
         IF i <= Len(request.cart[s]) THEN LineTotal(request.cart[s][i]) ELSE 0]
      = [i \in DOMAIN request.cart[s] |-> LineTotal(request.cart[s][i])]
  BY <1>1
<1> QED BY <1>2 DEF UpTo, Subtotal, SumOver

LEMMA OneMorePriced ==
  ASSUME TypeOK, NEW s \in Seller, NEW k \in 0..(Len(request.cart[s]) - 1)
  PROVE  UpTo(s, k + 1) = UpTo(s, k) + LineTotal(request.cart[s][k + 1])
<1> DEFINE D == DOMAIN request.cart[s]
           f == [i \in D |-> IF i <= k THEN LineTotal(request.cart[s][i]) ELSE 0]
           h == [i \in D |-> IF i <= k + 1 THEN LineTotal(request.cart[s][i]) ELSE 0]
<1>1. D = 1..Len(request.cart[s]) /\ IsFiniteSet(D) /\ Len(request.cart[s]) \in Nat
      /\ \A i \in D : LineTotal(request.cart[s][i]) \in Int
  BY LinesFinite
<1>2. f \in [D -> Int] /\ h \in [D -> Int]
  BY <1>1
<1>3. k + 1 \in D /\ f[k + 1] = 0 /\ h[k + 1] = LineTotal(request.cart[s][k + 1])
  BY <1>1
<1>4. \A i \in D \ {k + 1} : h[i] = f[i]
  BY <1>1
<1>5. UpTo(s, k) = SumFunction(f) /\ UpTo(s, k + 1) = SumFunction(h)
  BY DEF UpTo
<1>6. LineTotal(request.cart[s][k + 1]) \in Int
  BY <1>1, <1>3
<1>7. PICK y \in D : y = k + 1
  BY <1>3
<1> HIDE DEF f, h, D
<1>8. IsFiniteSet(D) /\ \A i \in D \ {y} : h[i] = f[i]
  BY <1>1, <1>4, <1>7
<1>9. SumFunction(f) \in Int /\ SumFunction(h) = SumFunction(f) + (h[y] - f[y])
  BY <1>2, <1>8, SumChange
<1> QED BY <1>3, <1>5, <1>6, <1>7, <1>9

LEMMA UpToStays ==
  ASSUME UNCHANGED inputs
  PROVE  \A s, k : UpTo(s, k)' = UpTo(s, k)
BY DEF inputs, UpTo

LEMMA GoodsInit == Init => GoodsInv
<1> SUFFICES ASSUME Init PROVE GoodsInv
  OBVIOUS
<1>1. LastSeller \in Nat /\ Seller = 1..LastSeller
  BY InitInv, SellersFinite DEF IInv
<1>2. \A s \in Seller : quote[s].subtotal = 0 /\ ~Quoted(s)
  BY <1>1 DEF Init, EmptyBreakdown, Quoted
<1> QED BY <1>2 DEF Init, GoodsInv

\* Every pass after the first loop leaves the subtotals alone.
LEMMA GoodsLater ==
  ASSUME GoodsInv, UNCHANGED inputs, TypeOK,
         \A s \in Seller : quote'[s].subtotal = quote[s].subtotal,
         pc' \notin {"hydrate", "range", "lines"},
         \A s \in Seller : Quoted(s)' => Quoted(s)
  PROVE  GoodsInv'
BY SellersStay DEF GoodsInv

LEMMA GoodsStep ==
  ASSUME IInv, IInv', GoodsInv, [Next]_vars
  PROVE  GoodsInv'
<1>0. /\ UNCHANGED inputs /\ TypeOK /\ TypeOK' /\ Seller' = Seller
      /\ Seller = 1..LastSeller /\ LastSeller \in Nat /\ LastSeller >= 1 /\ at \in Seller
  BY InputsStay, SellersStay, SellersFinite DEF IInv, TypeOK
<1>1. CASE HydrateWithoutCoupon \/ HydrateWithCoupon
  <2>1. pc = "hydrate" /\ pc' = "range" /\ at' = at /\ quote' = quote
    BY <1>1 DEF HydrateWithoutCoupon, HydrateWithCoupon
  <2>2. \A s \in Seller : ~Quoted(s)'
    BY <1>0, <2>1 DEF GoodsInv, Quoted
  <2> QED BY <1>0, <2>1, <2>2 DEF GoodsInv
<1>2. CASE Refuse
  <2>1. pc = "hydrate" /\ pc' = "refused" /\ at' = at /\ quote' = quote
    BY <1>2 DEF Refuse
  <2> QED BY <1>0, <2>1, GoodsLater DEF Quoted
<1>3. CASE InRange
  <2>1. pc = "range" /\ at' = at /\ quote' = quote
    BY <1>3 DEF InRange
  <2>2. CASE pc' = "refused"
    BY <1>0, <2>1, <2>2, GoodsLater DEF Quoted
  <2>3. CASE pc' = "lines" /\ rest' = request.cart[at]
    <3>1. request.cart[at] \in Seq(Line) /\ Len(request.cart[at]) \in Nat
      BY <1>0, LinesFinite
    <3>2. LinesLeft(0)'
      BY <1>0, <2>1, <2>3, <3>1 DEF LinesLeft, inputs
    <3>3. UpTo(at, 0)' = 0
      <4>1. UpTo(at, 0)' = UpTo(at, 0)
        BY <1>0, <2>1 DEF UpTo, inputs
      <4> QED BY <1>0, <4>1, NothingPriced
    <3>4. (quote[at].subtotal)' = UpTo(at, 0)'
      BY <1>0, <2>1, <3>3 DEF GoodsInv
    <3>5. \A s \in Seller : Quoted(s)' => Quoted(s)
      BY <2>1, <2>3 DEF Quoted
    <3>6. 0 \in 0..Len(request.cart[at])'
      BY <1>0, <2>1, <3>1 DEF inputs
    <3>8. (\E k \in 0..Len(request.cart[at]) : LinesLeft(k) /\ quote[at].subtotal = UpTo(at, k))'
      BY <3>2, <3>4, <3>6
    <3> QED BY <1>0, <2>1, <2>3, <3>5, <3>8, SellersStay DEF GoodsInv
  <2> QED BY <1>3, <2>2, <2>3 DEF InRange
<1>4. CASE PriceLine
  <2>1. /\ pc = "lines" /\ pc' = pc /\ at' = at /\ rest # <<>> /\ rest' = Tail(rest)
    BY <1>4 DEF PriceLine
  <2>2. /\ \A s \in Seller \ {at} : quote'[s] = quote[s]
        /\ quote'[at].subtotal = quote[at].subtotal + LineTotal(Head(rest))
    BY <1>0, <1>4, LineMove
  <2>3. PICK k \in 0..Len(request.cart[at]) : LinesLeft(k) /\ quote[at].subtotal = UpTo(at, k)
    BY <2>1 DEF GoodsInv
  <2>4. rest \in Seq(Line) /\ Len(rest) \in Nat /\ Len(rest) > 0
        /\ request.cart[at] \in Seq(Line) /\ Len(request.cart[at]) \in Nat
    BY <1>0, <2>1, LinesFinite, EmptySeq DEF TypeOK
  <2>5. k \in 0..(Len(request.cart[at]) - 1) /\ k + 1 \in 0..Len(request.cart[at])
    BY <2>3, <2>4 DEF LinesLeft
  <2>6. Head(rest) = request.cart[at][k + 1]
    BY <2>3, <2>4 DEF LinesLeft
  <2>7. LinesLeft(k + 1)'
    <3>1. Len(rest') = Len(rest) - 1 /\ \A i \in 1..Len(rest') : rest'[i] = rest[i + 1]
      BY <2>1, <2>4
    <3>2. \A i \in 1..Len(rest') : i + 1 \in 1..Len(rest) /\ k + (i + 1) = (k + 1) + i
      BY <2>4, <3>1
    <3>3. \A i \in 1..Len(rest') : rest'[i] = request.cart[at][(k + 1) + i]
      BY <2>3, <3>1, <3>2 DEF LinesLeft
    <3>4. Len(rest') = Len(request.cart[at]) - (k + 1)
      BY <2>3, <2>4, <3>1 DEF LinesLeft
    <3>5. request' = request
      BY <1>0 DEF inputs
    <3> QED BY <2>1, <3>3, <3>4, <3>5 DEF LinesLeft
  <2>8. (quote[at].subtotal)' = UpTo(at, k + 1)
    BY <1>0, <2>1, <2>2, <2>3, <2>5, <2>6, OneMorePriced
  <2>9. (\E j \in 0..Len(request.cart[at]) : LinesLeft(j) /\ quote[at].subtotal = UpTo(at, j))'
    <3>1. UpTo(at, k + 1)' = UpTo(at, k + 1) /\ (k + 1 \in 0..Len(request.cart[at]))'
      BY <1>0, <2>1, <2>5, UpToStays DEF UpTo, inputs
    <3> QED BY <2>7, <2>8, <3>1
  <2>10. \A s \in Seller : Quoted(s)' => Quoted(s) /\ s # at
    BY <1>0, <2>1 DEF Quoted
  <2> QED BY <1>0, <2>1, <2>2, <2>9, <2>10, SellersStay DEF GoodsInv
<1>5. CASE PriceSeller
  <2>1. /\ pc = "lines" /\ rest = <<>>
        /\ \/ at < LastSeller /\ pc' = "range" /\ at' = at + 1
           \/ ~(at < LastSeller) /\ pc' = "handling" /\ at' = 1
    BY <1>5 DEF PriceSeller
  <2>2. \A s \in Seller : quote'[s].subtotal = quote[s].subtotal
    BY <1>0, <1>5, SellerMove
  <2>3. PICK k \in 0..Len(request.cart[at]) : LinesLeft(k) /\ quote[at].subtotal = UpTo(at, k)
    BY <2>1 DEF GoodsInv
  <2>4. k = Len(request.cart[at])
    <3>1. Len(rest) = 0 /\ Len(request.cart[at]) \in Nat
      BY <1>0, <2>1, LinesFinite
    <3> QED BY <2>3, <3>1 DEF LinesLeft
  <2>5. quote[at].subtotal = Subtotal(at)
    BY <1>0, <2>3, <2>4, EverythingPriced
  <2>6. \A s \in Seller : Quoted(s)' => Quoted(s) \/ s = at
    BY <1>0, <2>1 DEF Quoted
  <2>7. \A s \in Seller : pc' = "range" /\ s >= at' => s > at
    BY <1>0, <2>1
  <2> QED BY <1>0, <2>1, <2>2, <2>5, <2>6, <2>7, SellersStay DEF GoodsInv
<1>6. CASE \/ ChargeHandling \/ RebateDelivery \/ OpenTip \/ TipSeller \/ OpenWallet
           \/ RedeemSeller \/ SetPayable
  <2>1. pc \notin {"hydrate", "range", "lines", "refused"}
        /\ pc' \notin {"hydrate", "range", "lines"}
    BY <1>6 DEF ChargeHandling, RebateDelivery, OpenTip, TipSeller, OpenWallet, RedeemSeller,
                SetPayable
  <2>2. \A s \in Seller : quote'[s].subtotal = quote[s].subtotal
    <3>1. CASE OpenTip \/ OpenWallet
      BY <3>1 DEF OpenTip, OpenWallet
    <3>2. CASE ChargeHandling
      BY <1>0, <3>2, HandlingMove
    <3>3. CASE RebateDelivery
      BY <1>0, <3>3, RebateMove
    <3>4. CASE TipSeller
      BY <1>0, <3>4, TipMove DEF SameCharges
    <3>5. CASE RedeemSeller
      BY <1>0, <3>5, RedeemMove DEF SameCharges
    <3>6. CASE SetPayable
      BY <1>0, <3>6, PayableMove DEF SameCharges
    <3> QED BY <1>6, <3>1, <3>2, <3>3, <3>4, <3>5, <3>6
  <2> QED BY <1>0, <2>1, <2>2, GoodsLater DEF Quoted
<1>7. CASE Ended \/ UNCHANGED vars
  <2>1. UNCHANGED vars
    BY <1>7 DEF Ended
  <2> QED BY <2>1, <1>0, SellersStay, UpToStays DEF vars, GoodsInv, LinesLeft, Quoted
<1> QED BY <1>1, <1>2, <1>3, <1>4, <1>5, <1>6, <1>7 DEF Next

-----------------------------------------------------------------------------
(* The charges: delivery, handling and the discount of each seller.        *)

\* A seller's own handling fee, until the checkout's replaces it.
OwnFee(s) ==
    Quoted(s) /\ pc \in {"range", "lines", "handling"} => quote[s].handling \in SellerHandling(s)

ChargesInv ==
    \A s \in Seller :
        /\ quote[s].delivery \in Nat /\ quote[s].handling \in Nat
        /\ OwnFee(s)
        /\ Quoted(s) => quote[s].discount \in DiscountShares(s)

WithinGoods ==
    pc \notin {"hydrate", "refused"} /\ (EngineApplies \/ request.discount <= CartSubtotal)
        => discount <= CartSubtotal

SumsInv == GoodsInv /\ ChargesInv /\ WithinGoods /\ HandlingChargedOnce

LEMMA DeliveryNat ==
  ASSUME TypeOK, NEW s \in Seller
  PROVE  CustomerDeliveryFee(s) \in Nat
<1>1. request.distance[s] \in Nat
  BY DEF TypeOK, Request, Seller
<1>2. settings.capacity \in Nat /\ settings.surcharge \in Nat /\ settings.baseFee \in Nat
      /\ settings.fixedFee \in Nat
  BY DEF TypeOK, Settings
<1>3. PICK km \in Nat : km = ExtraKm(s)
  BY <1>1, <1>2 DEF ExtraKm, CeilKm
<1>4. km * settings.surcharge \in Nat
  BY <1>2, <1>3
<1> QED BY <1>2, <1>3, <1>4 DEF CustomerDeliveryFee

LEMMA OthersStay ==
  ASSUME UNCHANGED inputs
  PROVE  /\ \A s : SellerHandling(s)' = SellerHandling(s)
         /\ EngineApplies' = EngineApplies
         /\ discount' = discount => \A s : DiscountShares(s)' = DiscountShares(s)
         /\ Bought' = Bought
         /\ \A c : CartSpend(c)' = CartSpend(c) /\ FeeOn(c, CartSpend(c))' = FeeOn(c, CartSpend(c))
         /\ Dearest(Bought, CartSpend)' = Dearest(Bought, CartSpend)
<1>1. request' = request /\ rules' = rules /\ settings' = settings
  BY DEF inputs
<1>2. \A s : CategoriesOf(s)' = CategoriesOf(s)
  BY <1>1 DEF CategoriesOf
<1>3. \A s, c : Spend(s, c)' = Spend(s, c)
  BY <1>1 DEF Spend, SumOver, LineTotal
<1>4. \A c : CartSpend(c)' = CartSpend(c)
  BY <1>1, <1>3 DEF CartSpend, Seller
<1>5. \A c, x : FeeOn(c, x)' = FeeOn(c, x)
  BY <1>1 DEF FeeOn
<1>6. Bought' = Bought
  BY <1>1, <1>2 DEF Bought, Seller
<1>7. Dearest(Bought, CartSpend)' = Dearest(Bought, CartSpend)
  BY <1>4, <1>5, <1>6 DEF Dearest
<1>8. ASSUME NEW s PROVE SellerHandling(s)' = SellerHandling(s)
  <2>1. \A c : FeeOn(c, Spend(s, c))' = FeeOn(c, Spend(s, c))
    BY <1>1, <1>3 DEF FeeOn
  <2>2. SumFunction([c \in CategoriesOf(s) |-> FeeOn(c, Spend(s, c))])'
          = SumFunction([c \in CategoriesOf(s) |-> FeeOn(c, Spend(s, c))])
    BY <1>2, <2>1
  <2>3. SumOver(request.cart[s], LineFee)' = SumOver(request.cart[s], LineFee)
    BY <1>1 DEF SumOver, LineFee, FeeOn
  <2>4. Dearest(CategoriesOf(s), LAMBDA d : Spend(s, d))'
          = Dearest(CategoriesOf(s), LAMBDA d : Spend(s, d))
    BY <1>2, <2>1 DEF Dearest
  <2>5. {FeeOn(c, Spend(s, c)) : c \in Dearest(CategoriesOf(s), LAMBDA d : Spend(s, d))}'
          = {FeeOn(c, Spend(s, c)) : c \in Dearest(CategoriesOf(s), LAMBDA d : Spend(s, d))}
    BY <2>1, <2>4
  <2> QED BY <1>1, <2>2, <2>3, <2>5 DEF SellerHandling
<1>9. EngineApplies' = EngineApplies
  BY <1>1 DEF EngineApplies
<1>10. discount' = discount => \A s : DiscountShares(s)' = DiscountShares(s)
  BY SellersStay DEF DiscountShares
<1> QED BY <1>4, <1>5, <1>6, <1>7, <1>8, <1>9, <1>10

\* A seller whose categories ask for nothing on the whole cart asks for
\* nothing itself, by any strategy.
LEMMA NothingOwed ==
  ASSUME TypeOK, NEW s \in Seller, NEW fee \in SellerHandling(s),
         \A d \in Bought : FeeOn(d, CartSpend(d)) = 0
  PROVE  fee = 0
<1>1. \A i \in DOMAIN request.cart[s] : request.cart[s][i].category \in CategoriesOf(s)
  BY DEF CategoriesOf
<1>2. CategoriesOf(s) \subseteq Bought /\ CategoriesOf(s) \subseteq Category
  <2>1. \A i \in DOMAIN request.cart[s] : request.cart[s][i].category \in Category
    BY LinesFinite
  <2> QED BY <2>1 DEF CategoriesOf, Bought
<1>3. ASSUME NEW c \in CategoriesOf(s), NEW x \in Nat, x <= CartSpend(c)
      PROVE  FeeOn(c, x) = 0
  <2>1. FeeOn(c, x) \in Nat /\ FeeOn(c, x) <= FeeOn(c, CartSpend(c))
    BY <1>2, <1>3, SpendAmounts, FeeMonotone
  <2>2. FeeOn(c, CartSpend(c)) = 0
    BY <1>2
  <2> QED BY <2>1, <2>2
<1>4. \A c \in CategoriesOf(s) : FeeOn(c, Spend(s, c)) = 0
  <2>1. \A c \in CategoriesOf(s) : Spend(s, c) \in Nat /\ Spend(s, c) <= CartSpend(c)
    BY SpendAmounts
  <2> QED BY <1>3, <2>1
<1>5. CASE settings.strategy = "sum_of_category_fees"
  <2> DEFINE f == [c \in CategoriesOf(s) |-> FeeOn(c, Spend(s, c))]
             kind == [i \in DOMAIN request.cart[s] |-> request.cart[s][i].category]
  <2>1. IsFiniteSet(CategoriesOf(s))
    <3>1. kind \in Surjection(DOMAIN request.cart[s], CategoriesOf(s))
      BY DEF Surjection, CategoriesOf
    <3>2. IsFiniteSet(DOMAIN request.cart[s])
      BY LinesFinite
    <3> HIDE DEF kind
    <3> QED BY <3>1, <3>2, FS_Surjection
  <2>2. f \in [CategoriesOf(s) -> Int] /\ \A c \in CategoriesOf(s) : f[c] = 0
    BY <1>4
  <2>3. fee = SumFunction(f)
    BY <1>5 DEF SellerHandling
  <2> HIDE DEF f
  <2> QED BY <2>1, <2>2, <2>3, SumZero
<1>6. CASE settings.strategy = "per_item_fee"
  <2> DEFINE f == [i \in DOMAIN request.cart[s] |-> LineFee(request.cart[s][i])]
  <2>1. ASSUME NEW i \in DOMAIN request.cart[s]
        PROVE  LineFee(request.cart[s][i]) = 0
    <3>1. PICK line \in Line : line = request.cart[s][i]
      BY LinesFinite
    <3>2. line.category \in CategoriesOf(s) /\ line.quantity \in Nat /\ LineTotal(line) \in Nat
      BY <1>1, <3>1, LinesFinite DEF Line
    <3>3. LineTotal(line) <= CartSpend(line.category)
      <4>1. /\ LineTotal(line) <= Spend(s, line.category) /\ Spend(s, line.category) \in Nat
            /\ Spend(s, line.category) <= CartSpend(line.category)
            /\ CartSpend(line.category) \in Nat
        BY <3>1, SpendAmounts
      <4> QED BY <3>2, <4>1
    <3>4. FeeOn(line.category, LineTotal(line)) = 0
      BY <1>3, <3>2, <3>3
    <3>5. LineFee(line) = 0
      <4>1. PICK rule : rule = rules[line.category]
        OBVIOUS
      <4>2. CASE rule.feeKind = "fixed"
        <5>1. OrLegacy(rule.fee, rule.legacyFee) = 0
          BY <3>4, <4>1, <4>2 DEF FeeOn
        <5>2. LineFee(line) = 0 * line.quantity
          BY <4>1, <4>2, <5>1 DEF LineFee
        <5> QED BY <3>2, <5>2
      <4>3. CASE rule.feeKind # "fixed"
        BY <3>4, <4>1, <4>3 DEF LineFee
      <4> QED BY <4>2, <4>3
    <3> QED BY <3>1, <3>5
  <2>2. f \in [DOMAIN request.cart[s] -> Int] /\ \A i \in DOMAIN request.cart[s] : f[i] = 0
    BY <2>1
  <2>3. fee = SumFunction(f)
    BY <1>6 DEF SellerHandling, SumOver
  <2>4. IsFiniteSet(DOMAIN request.cart[s])
    BY LinesFinite
  <2> HIDE DEF f
  <2> QED BY <2>2, <2>3, <2>4, SumZero
<1>7. CASE settings.strategy \notin {"sum_of_category_fees", "per_item_fee"}
  <2>1. fee \in {FeeOn(c, Spend(s, c)) :
                   c \in Dearest(CategoriesOf(s), LAMBDA d : Spend(s, d))}
    BY <1>7 DEF SellerHandling
  <2>2. Dearest(CategoriesOf(s), LAMBDA d : Spend(s, d)) \subseteq CategoriesOf(s)
    BY DEF Dearest
  <2> QED BY <1>4, <2>1, <2>2
<1> QED BY <1>5, <1>6, <1>7

\* One seller is charged: the first of those that sell the category.
LEMMA OneCharged ==
  ASSUME TypeOK, NEW c \in Bought
  PROVE  \E s \in Seller : ChargedSellers(c) = {s}
<1> DEFINE T == {s \in Seller : c \in CategoriesOf(s)}
<1>1. T \subseteq Nat /\ T # {}
  BY SellersFinite DEF Bought
<1>2. PICK s \in T : \A t \in T : s <= t
  <2> HIDE DEF T
  <2> QED BY <1>1, HasLeast
<1>3. ASSUME NEW r \in ChargedSellers(c) PROVE r = s
  <2>1. r \in T /\ r <= s /\ s <= r
    BY <1>2, <1>3 DEF ChargedSellers
  <2> QED BY <1>1, <2>1
<1>4. s \in ChargedSellers(c)
  BY <1>2 DEF ChargedSellers
<1> QED BY <1>2, <1>3, <1>4

LEMMA HandlingCharged ==
  ASSUME IInv, ChargesInv, ChargeHandling, UNCHANGED inputs
  PROVE  HandlingChargedOnce'
<1>1. PICK c \in Dearest(Bought, CartSpend) :
        /\ FeeOn(c, CartSpend(c)) \in Nat
        /\ FeeOn(c, CartSpend(c)) = 0 => quote' = quote
        /\ FeeOn(c, CartSpend(c)) # 0 =>
             \A s \in Seller :
                quote'[s].handling = IF s \in ChargedSellers(c)
                                     THEN FeeOn(c, CartSpend(c)) ELSE 0
  BY HandlingMove DEF IInv
<1>2. PICK fee \in Nat : fee = FeeOn(c, CartSpend(c))
  BY <1>1
<1>3. TypeOK /\ c \in Bought /\ \A d \in Bought : FeeOn(d, CartSpend(d)) <= fee
  BY <1>2 DEF Dearest, IInv
<1> DEFINE f == [s \in Seller |-> quote'[s].handling]
           z == [s \in Seller |-> 0]
<1>4. SumFunction(f) = fee
  <2>1. IsFiniteSet(Seller)
    BY <1>3, SellersFinite
  <2>2. CASE fee = 0
    <3>1. Bought \subseteq Category
      BY <1>3, LinesFinite DEF Bought, CategoriesOf
    <3>2. ASSUME NEW d \in Bought PROVE FeeOn(d, CartSpend(d)) = 0
      <4>1. CartSpend(d) \in Nat
        BY <1>3, SpendAmounts
      <4>2. FeeOn(d, CartSpend(d)) \in Nat
        BY <1>3, <3>1, <4>1, FeeMonotone
      <4> QED BY <1>3, <2>2, <4>2
    <3>3. ASSUME NEW s \in Seller PROVE f[s] = 0
      <4>1. quote'[s] = quote[s] /\ quote[s].handling \in SellerHandling(s)
        BY <1>1, <1>2, <2>2 DEF ChargesInv, OwnFee, ChargeHandling, Quoted
      <4> QED BY <1>3, <3>2, <4>1, NothingOwed
    <3>4. f \in [Seller -> Int]
      BY <3>3
    <3> HIDE DEF f
    <3> QED BY <2>1, <2>2, <3>3, <3>4, SumZero
  <2>3. CASE fee # 0
    <3>1. PICK r \in Seller : ChargedSellers(c) = {r}
      BY <1>3, OneCharged
    <3>2. \A s \in Seller : f[s] = IF s = r THEN fee ELSE 0
      BY <1>1, <1>2, <2>3, <3>1
    <3>3. f \in [Seller -> Int] /\ z \in [Seller -> Int]
      BY <3>2
    <3>4. z[r] = 0 /\ f[r] = fee /\ \A s \in Seller \ {r} : f[s] = z[s]
      BY <3>2
    <3>5. \A s \in Seller : z[s] = 0
      OBVIOUS
    <3> HIDE DEF f, z
    <3>6. SumFunction(z) = 0
      BY <2>1, <3>3, <3>5, SumZero
    <3>7. SumFunction(f) = SumFunction(z) + (f[r] - z[r])
      BY <2>1, <3>3, <3>4, SumChange
    <3> QED BY <3>4, <3>6, <3>7
  <2> QED BY <2>2, <2>3
<1>5. Total("handling")' = fee
  <2>1. Total("handling")' = SumFunction(f)
    BY SellersStay DEF Total
  <2> HIDE DEF f
  <2> QED BY <1>4, <2>1
<1>6. ASSUME NEW d \in Dearest(Bought, CartSpend)' PROVE FeeOn(d, CartSpend(d))' = fee
  <2>1. d \in Dearest(Bought, CartSpend) /\ FeeOn(d, CartSpend(d))' = FeeOn(d, CartSpend(d))
    BY OthersStay
  <2>2. d \in Bought /\ FeeOn(d, CartSpend(d)) <= fee /\ fee <= FeeOn(d, CartSpend(d))
    BY <1>2, <1>3, <2>1 DEF Dearest
  <2>3. FeeOn(d, CartSpend(d)) \in Nat
    <3>1. d \in Category
      BY <1>3, <2>2, LinesFinite DEF Bought, CategoriesOf
    <3>2. CartSpend(d) \in Nat
      BY <1>3, SpendAmounts
    <3> QED BY <1>3, <3>1, <3>2, FeeMonotone
  <2> QED BY <2>1, <2>2, <2>3
<1> QED BY <1>5, <1>6 DEF HandlingChargedOnce

LEMMA SumsInit == Init => SumsInv
<1> SUFFICES ASSUME Init PROVE SumsInv
  OBVIOUS
<1>1. GoodsInv
  BY GoodsInit
<1>2. LastSeller \in Nat /\ Seller = 1..LastSeller
  BY InitInv, SellersFinite DEF IInv
<1>3. \A s \in Seller : quote[s].delivery = 0 /\ quote[s].handling = 0 /\ ~Quoted(s)
  BY <1>2 DEF Init, EmptyBreakdown, Quoted
<1>4. ChargesInv
  BY <1>3 DEF ChargesInv, OwnFee
<1> QED BY <1>1, <1>4 DEF SumsInv, Init, WithinGoods, HandlingChargedOnce

\* A step that leaves the charges and the discount alone.
LEMMA ChargesKept ==
  ASSUME SumsInv, UNCHANGED <<inputs, discount>>, \A s \in Seller : SameCharges(s),
         \A s \in Seller : Quoted(s)' => Quoted(s),
         \/ pc' = pc
         \/ pc = "range" /\ pc' \in {"lines", "refused"}
         \/ pc' \notin {"hydrate", "range", "lines", "handling"}
            /\ pc \notin {"hydrate", "range", "lines", "handling", "refused"}
  PROVE  ChargesInv' /\ WithinGoods' /\ HandlingChargedOnce'
<1>1. Seller' = Seller /\ CartSubtotal' = CartSubtotal /\ request' = request
  BY SellersStay DEF inputs
<1>2. /\ \A s : SellerHandling(s)' = SellerHandling(s)
      /\ EngineApplies' = EngineApplies
      /\ \A s : DiscountShares(s)' = DiscountShares(s)
      /\ \A c : FeeOn(c, CartSpend(c))' = FeeOn(c, CartSpend(c))
      /\ Dearest(Bought, CartSpend)' = Dearest(Bought, CartSpend)
  BY OthersStay
<1>3. ChargesInv'
  BY <1>1, <1>2 DEF SumsInv, ChargesInv, OwnFee, SameCharges
<1>4. WithinGoods'
  BY <1>1, <1>2 DEF SumsInv, WithinGoods
<1>5. HandlingChargedOnce'
  <2>1. [s \in Seller |-> quote[s].handling]' = [s \in Seller |-> quote[s].handling]
    BY <1>1 DEF SameCharges
  <2>2. Total("handling")' = Total("handling")
    BY <2>1 DEF Total
  <2> QED BY <1>2, <2>2 DEF SumsInv, HandlingChargedOnce
<1> QED BY <1>3, <1>4, <1>5

LEMMA SumsStep ==
  ASSUME IInv, IInv', SumsInv, [Next]_vars
  PROVE  SumsInv'
<1>0. /\ UNCHANGED inputs /\ TypeOK /\ TypeOK' /\ Seller' = Seller /\ CartSubtotal' = CartSubtotal
      /\ Seller = 1..LastSeller /\ LastSeller \in Nat /\ LastSeller >= 1 /\ at \in Seller
      /\ GoodsInv' /\ request' = request
  BY InputsStay, SellersStay, SellersFinite, GoodsStep DEF IInv, TypeOK, SumsInv, inputs
<1>00. /\ \A s : SellerHandling(s)' = SellerHandling(s)
       /\ EngineApplies' = EngineApplies
       /\ discount' = discount => \A s : DiscountShares(s)' = DiscountShares(s)
  BY <1>0, OthersStay
<1> SUFFICES ChargesInv' /\ WithinGoods' /\ HandlingChargedOnce'
  BY <1>0 DEF SumsInv
<1>1. CASE HydrateWithoutCoupon \/ HydrateWithCoupon
  <2>1. pc = "hydrate" /\ pc' = "range" /\ at' = at /\ quote' = quote
    BY <1>1 DEF HydrateWithoutCoupon, HydrateWithCoupon
  <2>2. \A s \in Seller : ~Quoted(s)'
    BY <1>0, <2>1 DEF SumsInv, GoodsInv, Quoted
  <2>3. ChargesInv'
    BY <1>0, <2>1, <2>2 DEF SumsInv, ChargesInv, OwnFee
  <2>4. WithinGoods'
    <3>1. CASE HydrateWithoutCoupon
      BY <1>0, <1>00, <3>1 DEF HydrateWithoutCoupon, WithinGoods
    <3>2. CASE HydrateWithCoupon
      <4>1. discount' \in CouponAmounts(request.coupon)
        BY <3>2 DEF HydrateWithCoupon
      <4>2. CartSubtotal \in Int
        BY <1>0, CartAmounts
      <4>3. \A a : Least(a, CartSubtotal) <= CartSubtotal
        BY <4>2 DEF Least
      <4>4. discount' <= CartSubtotal
        BY <4>1, <4>3 DEF CouponAmounts
      <4> QED BY <1>0, <4>4 DEF WithinGoods
    <3> QED BY <1>1, <3>1, <3>2
  <2> QED BY <2>1, <2>3, <2>4 DEF HandlingChargedOnce
<1>2. CASE Refuse
  <2>1. pc = "hydrate" /\ pc' = "refused" /\ at' = at /\ quote' = quote
    BY <1>2 DEF Refuse
  <2>2. \A s \in Seller : ~Quoted(s)'
    BY <1>0, <2>1 DEF SumsInv, GoodsInv, Quoted
  <2> QED BY <1>0, <2>1, <2>2 DEF SumsInv, ChargesInv, OwnFee, WithinGoods, HandlingChargedOnce
<1>3. CASE InRange
  <2>1. /\ pc = "range" /\ pc' \in {"lines", "refused"} /\ at' = at /\ quote' = quote
        /\ discount' = discount
    BY <1>3 DEF InRange
  <2>2. \A s \in Seller : SameCharges(s) /\ (Quoted(s)' => Quoted(s))
    BY <2>1 DEF SameCharges, Quoted
  <2> QED BY <1>0, <2>1, <2>2, ChargesKept
<1>4. CASE PriceLine
  <2>1. pc = "lines" /\ pc' = pc /\ at' = at /\ discount' = discount
    BY <1>4 DEF PriceLine
  <2>2. \A s \in Seller : /\ quote'[s].delivery = quote[s].delivery
                          /\ quote'[s].handling = quote[s].handling
                          /\ quote'[s].discount = quote[s].discount
    BY <1>0, <1>4, LineMove
  <2>3. ChargesInv'
    BY <1>0, <1>00, <2>1, <2>2 DEF SumsInv, ChargesInv, OwnFee, Quoted
  <2> QED BY <1>0, <1>00, <2>1, <2>3 DEF SumsInv, WithinGoods, HandlingChargedOnce
<1>5. CASE PriceSeller
  <2>1. /\ pc = "lines" /\ discount' = discount
        /\ \/ at < LastSeller /\ pc' = "range" /\ at' = at + 1
           \/ ~(at < LastSeller) /\ pc' = "handling" /\ at' = 1
    BY <1>5 DEF PriceSeller
  <2>2. /\ \A s \in Seller \ {at} : quote'[s] = quote[s]
        /\ quote'[at].delivery \in Nat /\ quote'[at].handling \in SellerHandling(at) \cap Nat
        /\ quote'[at].discount \in DiscountShares(at)
    BY <1>0, <1>5, SellerMove, DeliveryNat
  <2>3. \A s \in Seller : Quoted(s)' => Quoted(s) \/ s = at
    BY <1>0, <2>1 DEF Quoted
  <2>4. ASSUME NEW s \in Seller
        PROVE  /\ quote'[s].delivery \in Nat /\ quote'[s].handling \in Nat
               /\ OwnFee(s)'
               /\ Quoted(s)' => quote'[s].discount \in DiscountShares(s)
    <3>1. CASE s = at
      BY <1>00, <2>2, <3>1 DEF OwnFee
    <3>2. CASE s # at
      BY <1>00, <2>1, <2>2, <2>3, <3>2 DEF SumsInv, ChargesInv, OwnFee
    <3> QED BY <3>1, <3>2
  <2>5. ChargesInv'
    BY <1>0, <1>00, <2>1, <2>4 DEF ChargesInv
  <2> QED BY <1>0, <1>00, <2>1, <2>5 DEF SumsInv, WithinGoods, HandlingChargedOnce
<1>6. CASE ChargeHandling
  <2>1. pc = "handling" /\ pc' = "rebate" /\ discount' = discount
    BY <1>6 DEF ChargeHandling
  <2>2. HandlingChargedOnce'
    BY <1>0, <1>6, HandlingCharged DEF SumsInv
  <2>3. PICK c \in Dearest(Bought, CartSpend) :
          /\ FeeOn(c, CartSpend(c)) \in Nat
          /\ FeeOn(c, CartSpend(c)) = 0 => quote' = quote
          /\ FeeOn(c, CartSpend(c)) # 0 =>
               \A s \in Seller :
                  quote'[s].handling = IF s \in ChargedSellers(c)
                                       THEN FeeOn(c, CartSpend(c)) ELSE 0
          /\ \A s \in Seller : /\ quote'[s].delivery = quote[s].delivery
                               /\ quote'[s].discount = quote[s].discount
    BY <1>0, <1>6, HandlingMove
  <2>4. PICK fee \in Nat : fee = FeeOn(c, CartSpend(c))
    BY <2>3
  <2>5. \A s \in Seller : quote'[s].handling \in Nat
    <3>1. CASE fee = 0
      BY <2>3, <2>4, <3>1 DEF SumsInv, ChargesInv
    <3>2. CASE fee # 0
      BY <2>3, <2>4, <3>2
    <3> QED BY <3>1, <3>2
  <2>6. \A s \in Seller : Quoted(s)
    BY <2>1 DEF Quoted
  <2>7. ChargesInv'
    BY <1>0, <1>00, <2>1, <2>3, <2>5, <2>6 DEF SumsInv, ChargesInv, OwnFee
  <2> QED BY <1>0, <1>00, <2>1, <2>2, <2>7 DEF SumsInv, WithinGoods
<1>7. CASE RebateDelivery
  <2>1. pc = "rebate" /\ pc' = "open_tip" /\ discount' = discount
    BY <1>7 DEF RebateDelivery
  <2>2. \A s \in Seller : /\ quote'[s].delivery \in {0, quote[s].delivery}
                          /\ quote'[s].handling = quote[s].handling
                          /\ quote'[s].discount = quote[s].discount
    BY <1>0, <1>7, RebateMove
  <2>3. \A s \in Seller : Quoted(s)
    BY <2>1 DEF Quoted
  <2>4. ChargesInv'
    BY <1>0, <1>00, <2>1, <2>2, <2>3 DEF SumsInv, ChargesInv, OwnFee
  <2>5. [s \in Seller |-> quote[s].handling]' = [s \in Seller |-> quote[s].handling]
    BY <1>0, <2>2
  <2>6. Total("handling")' = Total("handling")
    BY <2>5 DEF Total
  <2>7. HandlingChargedOnce'
    BY <1>0, <2>1, <2>6, OthersStay DEF SumsInv, HandlingChargedOnce
  <2> QED BY <1>0, <1>00, <2>1, <2>4, <2>7 DEF SumsInv, WithinGoods
<1>8. CASE OpenTip \/ TipSeller \/ OpenWallet \/ RedeemSeller \/ SetPayable
  <2>1. /\ pc \in {"open_tip", "tip", "open_wallet", "wallet", "payable"}
        /\ pc' \in {"tip", "open_wallet", "wallet", "payable", "done"}
        /\ discount' = discount
    BY <1>8 DEF OpenTip, TipSeller, OpenWallet, RedeemSeller, SetPayable
  <2>2. ASSUME NEW s \in Seller PROVE SameCharges(s)
    <3>1. CASE OpenTip \/ OpenWallet
      BY <3>1 DEF OpenTip, OpenWallet, SameCharges
    <3>2. CASE TipSeller
      BY <1>0, <3>2, TipMove DEF SameCharges
    <3>3. CASE RedeemSeller
      BY <1>0, <3>3, RedeemMove DEF SameCharges
    <3>4. CASE SetPayable
      BY <1>0, <3>4, PayableMove
    <3> QED BY <1>8, <3>1, <3>2, <3>3, <3>4
  <2>3. \A s \in Seller : Quoted(s)' => Quoted(s)
    BY <2>1 DEF Quoted
  <2> QED BY <1>0, <2>1, <2>2, <2>3, ChargesKept
<1>9. CASE Ended \/ UNCHANGED vars
  <2>1. UNCHANGED vars
    BY <1>9 DEF Ended
  <2>2. /\ UNCHANGED <<inputs, discount>> /\ pc' = pc
        /\ \A s \in Seller : SameCharges(s) /\ (Quoted(s)' => Quoted(s))
    BY <2>1 DEF vars, inputs, SameCharges, Quoted
  <2> QED BY <2>2, ChargesKept
<1> QED BY <1>1, <1>2, <1>3, <1>4, <1>5, <1>6, <1>7, <1>8, <1>9 DEF Next

-----------------------------------------------------------------------------
(* The tip and the wallet money: what the loops over the sellers have      *)
(* divided, and what is left for the last one.                             *)

LEMMA NearestBounds ==
  ASSUME NEW n \in Int, NEW d \in Nat \ {0}, NEW q \in Nearest(n, d)
  PROVE  q \in Int /\ -d <= (2 * d) * q - 2 * n /\ (2 * d) * q - 2 * n <= d
<1>1. q \in Int /\ 2 * n - d <= 2 * q * d /\ 2 * q * d <= 2 * n + d
  BY NearestWhole DEF Nearest
<1>2. 2 * q * d = (2 * d) * q
  BY <1>1
<1>3. (2 * d) * q \in Int
  BY <1>1
<1> QED BY <1>1, <1>2, <1>3

LEMMA ProductGrows ==
  ASSUME NEW x \in Nat, NEW v \in Int, NEW w \in Int, v <= w
  PROVE  x * v <= x * w /\ x * v \in Int /\ x * w \in Int
OBVIOUS

LEMMA ProductCancels ==
  ASSUME NEW d \in Nat \ {0}, NEW v \in Int, NEW w \in Int, d * v <= d * w
  PROVE  v <= w
<1> SUFFICES ASSUME w < v PROVE FALSE
  OBVIOUS
<1>1. d * (w + 1) <= d * v
  BY ProductGrows
<1>2. d * (w + 1) = d * w + d
  BY Distributes
<1>3. d * w \in Int /\ d * v \in Int
  OBVIOUS
<1> QED BY <1>1, <1>2, <1>3

\* A share of no more than all of the amount is no more than the seller's part.
LEMMA NearestAtMost ==
  ASSUME NEW x \in Nat, NEW w \in Nat, NEW d \in Nat \ {0}, w <= d, NEW q \in Nearest(x * w, d)
  PROVE  q \in Nat /\ q <= x
<1>1. PICK n \in Nat : n = x * w
  OBVIOUS
<1>2. q \in Int /\ -d <= (2 * d) * q - 2 * n /\ (2 * d) * q - 2 * n <= d
  BY <1>1, NearestBounds
<1>3. x * w <= x * d /\ x * d = d * x /\ d * x \in Nat
  BY ProductGrows
<1>4. (2 * d) * q = 2 * (d * q) /\ d * q \in Int
  BY <1>2
<1>5. PICK p \in Int, m \in Nat : p = d * q /\ m = d * x
  BY <1>3, <1>4
<1>6. 2 * p <= 2 * m + d /\ -d <= 2 * p
  BY <1>1, <1>2, <1>3, <1>4, <1>5
<1>7. q <= x
  <2> SUFFICES ASSUME x + 1 <= q PROVE FALSE
    BY <1>2
  <2>1. d * (x + 1) <= d * q
    BY <1>2, ProductGrows
  <2>2. d * (x + 1) = d * x + d
    BY Distributes
  <2> QED BY <1>5, <1>6, <2>1, <2>2
<1>8. q >= 0
  <2> SUFFICES ASSUME q <= -1 PROVE FALSE
    BY <1>2
  <2>1. d * q <= d * (-1)
    BY <1>2, ProductGrows
  <2>2. d * (-1) = -d
    OBVIOUS
  <2> QED BY <1>5, <1>6, <2>1, <2>2
<1> QED BY <1>2, <1>7, <1>8

\* A share by grandTotal, the amount over the sum of the parts.
Fair(share, part, amount, all) ==
    IF all > 0 THEN share \in Nearest(part * amount, all) ELSE share = 0

LEMMA FairNothing ==
  ASSUME NEW part \in Int, NEW all \in Int
  PROVE  Fair(0, part, 0, all)
<1>1. part * 0 = 0
  OBVIOUS
<1>2. ASSUME all > 0 PROVE 0 \in Nearest(0, all)
  <2>1. 0 \div all = 0
    BY <1>2
  <2> QED BY <1>2, <2>1 DEF Nearest
<1> QED BY <1>1, <1>2 DEF Fair

\* What a seller's customer owes before wallet money, and all of it.
Owed(s)    == quote[s].gross + quote[s].tip
TotalOwed  == SumFunction([s \in Seller |-> Owed(s)])
Redeemable == IF settings.walletReduces THEN CappedWallet(TotalOwed) ELSE 0

\* At least nothing, at most what is owed.
Part(share, owed) == IF Least(share, owed) < 0 THEN 0 ELSE Least(share, owed)

TipInv ==
    /\ pc = "tip" =>
         /\ base = Total("gross") /\ given = Total("tip")
         /\ \A s \in Seller : s < at => Fair(quote[s].tip, quote[s].gross, request.tip, base)
         /\ \A s \in Seller : s >= at => quote[s].tip = 0
    /\ pc \in {"tip", "open_wallet"} => \A s \in Seller : quote[s].wallet = 0
    /\ pc \in {"open_wallet", "wallet", "payable", "done"} =>
         /\ Total("tip") = request.tip
         /\ \A s \in Seller : s < LastSeller =>
               Fair(quote[s].tip, quote[s].gross, request.tip, Total("gross"))

WalletInv ==
    /\ pc = "wallet" =>
         /\ base = TotalOwed /\ settings.walletReduces /\ CappedWallet(base) > 0
         /\ \A s \in Seller : s >= at => quote[s].wallet = 0
         /\ discount <= CartSubtotal =>
              /\ given = Total("wallet")
              /\ \A s \in Seller : s < at => Fair(quote[s].wallet, Owed(s), Redeemable, TotalOwed)
    /\ pc \in {"payable", "done"} /\ discount <= CartSubtotal =>
         /\ \A s \in Seller : s < LastSeller =>
              Fair(quote[s].wallet, Owed(s), Redeemable, TotalOwed)
         /\ quote[LastSeller].wallet =
              Part(Redeemable - (Total("wallet") - quote[LastSeller].wallet), Owed(LastSeller))
    /\ pc = "done" => \A s \in Seller : quote[s].payable = quote[s].grand

LEMMA TotalKept ==
  ASSUME NEW field, UNCHANGED inputs, \A s \in Seller : quote'[s][field] = quote[s][field]
  PROVE  Total(field)' = Total(field)
<1>1. [s \in Seller |-> quote[s][field]]' = [s \in Seller |-> quote[s][field]]
  BY SellersStay
<1> QED BY <1>1 DEF Total

LEMMA OwedKept ==
  ASSUME UNCHANGED inputs,
         \A s \in Seller : quote'[s].gross = quote[s].gross /\ quote'[s].tip = quote[s].tip
  PROVE  /\ TotalOwed' = TotalOwed /\ Redeemable' = Redeemable
         /\ \A s \in Seller : Owed(s)' = Owed(s)
<1>1. \A s \in Seller : Owed(s)' = Owed(s)
  BY DEF Owed
<1>2. [s \in Seller |-> Owed(s)]' = [s \in Seller |-> Owed(s)]
  BY <1>1, SellersStay
<1>3. TotalOwed' = TotalOwed
  BY <1>2 DEF TotalOwed
<1> QED BY <1>1, <1>3 DEF Redeemable, CappedWallet, inputs

LEMMA TotalInt ==
  ASSUME TypeOK
  PROVE  /\ Total("gross") \in Int /\ Total("tip") \in Int /\ Total("wallet") \in Int
         /\ Total("grand") \in Int /\ Total("discount") \in Int
         /\ TotalOwed = Total("gross") + Total("tip")
<1>1. /\ [s \in Seller |-> quote[s].gross] \in [Seller -> Int]
      /\ [s \in Seller |-> quote[s].tip] \in [Seller -> Int]
      /\ [s \in Seller |-> quote[s].wallet] \in [Seller -> Int]
      /\ [s \in Seller |-> quote[s].grand] \in [Seller -> Int]
      /\ [s \in Seller |-> quote[s].discount] \in [Seller -> Int]
      /\ [s \in Seller |-> Owed(s)] \in [Seller -> Int]
  BY FieldsWhole DEF TypeOK, Owed
<1>2. IsFiniteSet(Seller)
  BY SellersFinite
<1>3. /\ Total("gross") \in Int /\ Total("tip") \in Int /\ Total("wallet") \in Int
      /\ Total("grand") \in Int /\ Total("discount") \in Int
  BY <1>1, <1>2, SumInt DEF Total
<1> DEFINE f == [s \in Seller |-> quote[s].gross]
           h == [s \in Seller |-> quote[s].tip]
           e == [s \in Seller |-> Owed(s)]
<1>4. \A s \in Seller : e[s] = f[s] + h[s]
  BY DEF Owed
<1>5. Total("gross") = SumFunction(f) /\ Total("tip") = SumFunction(h) /\ TotalOwed = SumFunction(e)
  BY DEF Total, TotalOwed
<1>6. f \in [Seller -> Int] /\ h \in [Seller -> Int] /\ e \in [Seller -> Int]
  BY <1>1
<1> HIDE DEF f, h, e
<1> QED BY <1>2, <1>3, <1>4, <1>5, <1>6, SumAdd

LEMMA TotalChange ==
  ASSUME TypeOK, TypeOK', UNCHANGED inputs, NEW field \in {"tip", "wallet"}, NEW y \in Seller,
         \A s \in Seller \ {y} : quote'[s] = quote[s]
  PROVE  Total(field)' = Total(field) + (quote'[y][field] - quote[y][field])
<1>1. Seller' = Seller /\ IsFiniteSet(Seller)
  BY SellersStay, SellersFinite
<1> DEFINE f == [s \in Seller |-> quote[s][field]]
           h == [s \in Seller |-> quote'[s][field]]
<1>2. \A s \in Seller : quote[s] \in Breakdown /\ quote'[s] \in Breakdown
  BY <1>1 DEF TypeOK
<1>3. f \in [Seller -> Int] /\ h \in [Seller -> Int]
  BY <1>2 DEF Breakdown
<1>4. /\ \A s \in Seller \ {y} : h[s] = f[s]
      /\ h[y] = quote'[y][field] /\ f[y] = quote[y][field]
  OBVIOUS
<1>5. Total(field)' = SumFunction(h) /\ Total(field) = SumFunction(f)
  BY <1>1 DEF Total
<1> HIDE DEF f, h
<1> QED BY <1>1, <1>3, <1>4, <1>5, SumChange

\* With a discount within the goods' price no seller's gross is negative.
LEMMA GrossNat ==
  ASSUME IInv, SumsInv, discount <= CartSubtotal, NEW s \in Seller, Quoted(s)
  PROVE  quote[s].gross \in Nat
<1>1. TypeOK /\ quote[s] \in Breakdown /\ Settled(quote[s])
  BY DEF IInv, RowInv, TypeOK
<1>2. /\ quote[s].subtotal = Subtotal(s) /\ quote[s].delivery \in Nat /\ quote[s].handling \in Nat
      /\ quote[s].discount \in DiscountShares(s)
  BY DEF SumsInv, GoodsInv, ChargesInv
<1>3. /\ Subtotal(s) \in Nat /\ Subtotal(s) <= CartSubtotal /\ CartSubtotal \in Nat
      /\ discount \in Nat
  BY <1>1, CartAmounts DEF TypeOK
<1>4. quote[s].discount <= Subtotal(s) /\ quote[s].discount \in Int
  <2>1. CASE CartSubtotal > 0
    <3>1. discount * Subtotal(s) = Subtotal(s) * discount
      BY <1>3
    <3>2. quote[s].discount \in Nearest(Subtotal(s) * discount, CartSubtotal)
      BY <1>2, <2>1, <3>1 DEF DiscountShares
    <3> QED BY <1>3, <2>1, <3>2, NearestAtMost
  <2>2. CASE ~(CartSubtotal > 0)
    <3>1. discount = 0 /\ Subtotal(s) = 0 /\ 0 * 0 = 0 /\ LastSeller \in Nat \ {0}
      BY <1>1, <1>3, <2>2, SellersFinite
    <3>2. quote[s].discount \in Nearest(0 * 0, LastSeller)
      BY <1>2, <2>2, <3>1 DEF DiscountShares
    <3>3. quote[s].discount \in Nat /\ quote[s].discount <= 0
      BY <3>1, <3>2, NearestAtMost
    <3> QED BY <3>1, <3>3
  <2> QED BY <2>1, <2>2
<1> QED BY <1>1, <1>2, <1>3, <1>4, FieldsWhole DEF Settled

LEMMA TotalGrossNat ==
  ASSUME IInv, SumsInv, discount <= CartSubtotal, \A s \in Seller : Quoted(s)
  PROVE  Total("gross") \in Nat /\ \A s \in Seller : quote[s].gross <= Total("gross")
<1> DEFINE f == [s \in Seller |-> quote[s].gross]
<1>1. f \in [Seller -> Nat]
  BY GrossNat
<1>2. IsFiniteSet(Seller)
  BY SellersFinite DEF IInv
<1>3. Total("gross") = SumFunction(f) /\ \A s \in Seller : f[s] = quote[s].gross
  BY DEF Total
<1> HIDE DEF f
<1> QED BY <1>1, <1>2, <1>3, SumNat

\* No seller has been paid for yet: nothing is added up.
LEMMA TotalNothing ==
  ASSUME TypeOK, NEW field, \A s \in Seller : quote[s][field] = 0
  PROVE  Total(field) = 0
<1> DEFINE f == [s \in Seller |-> quote[s][field]]
<1>1. f \in [Seller -> Int] /\ \A s \in Seller : f[s] = 0
  OBVIOUS
<1>2. IsFiniteSet(Seller) /\ Total(field) = SumFunction(f)
  BY SellersFinite DEF Total
<1> HIDE DEF f
<1> QED BY <1>1, <1>2, SumZero

LEMMA TipsStep ==
  ASSUME IInv, IInv', TipInv, [Next]_vars
  PROVE  TipInv'
<1>0. /\ UNCHANGED inputs /\ TypeOK /\ TypeOK' /\ Seller' = Seller /\ LastSeller' = LastSeller
      /\ Seller = 1..LastSeller /\ LastSeller \in Nat /\ LastSeller >= 1 /\ at \in Seller
      /\ request' = request /\ request.tip \in Nat /\ LastSeller \in Seller
      /\ \A s \in Seller : quote[s] \in Breakdown /\ quote'[s] \in Breakdown
  <2>1. UNCHANGED inputs /\ Seller' = Seller /\ LastSeller' = LastSeller
    BY InputsStay, SellersStay DEF IInv
  <2>2. TypeOK /\ TypeOK'
    BY DEF IInv
  <2>3. Seller = 1..LastSeller /\ LastSeller \in Nat /\ LastSeller >= 1
    BY <2>2, SellersFinite
  <2>4. at \in Seller /\ LastSeller \in Seller
    BY <2>2, <2>3 DEF TypeOK
  <2>5. request' = request /\ request.tip \in Nat
    BY <2>1, <2>2 DEF TypeOK, inputs, Request
  <2>6. quote \in [Seller -> Breakdown] /\ quote' \in [Seller' -> Breakdown]
    BY <2>2 DEF TypeOK
  <2> QED BY <2>1, <2>2, <2>3, <2>4, <2>5, <2>6
<1>1. CASE pc' \in EarlyPasses
  BY <1>1 DEF TipInv, EarlyPasses
<1>2. CASE OpenTip
  <2>1. /\ pc = "open_tip" /\ at' = 1 /\ given' = 0 /\ base' = Total("grand") /\ quote' = quote
        /\ pc' = IF request.tip > 0 THEN "tip" ELSE "open_wallet"
    BY <1>2 DEF OpenTip
  <2>2. ASSUME NEW s \in Seller
        PROVE  quote[s].tip = 0 /\ quote[s].wallet = 0 /\ quote[s].grand = quote[s].gross
               /\ quote[s].gross \in Int
    <3>1. Untouched(quote[s]) /\ Settled(quote[s])
      BY <2>1 DEF IInv, RowInv, EarlyPasses, Quoted
    <3> QED BY <1>0, <3>1, FieldsWhole DEF Untouched, Settled
  <2>3. Total("grand") = Total("gross")
    <3>1. [s \in Seller |-> quote[s]["grand"]] = [s \in Seller |-> quote[s]["gross"]]
      BY <2>2
    <3> QED BY <3>1 DEF Total
  <2>4. Total("tip") = 0
    BY <1>0, <2>2, TotalNothing
  <2>5. Total("tip")' = Total("tip") /\ Total("gross")' = Total("gross")
    BY <1>0, <2>1, TotalKept
  <2>6. Total("gross") \in Int
    BY <1>0, TotalInt
  <2>7. CASE request.tip > 0
    <3>1. \A s \in Seller : ~(s < 1)
      BY <1>0
    <3> QED BY <1>0, <2>1, <2>2, <2>3, <2>4, <2>5, <2>7, <3>1 DEF TipInv
  <2>8. CASE request.tip = 0
    <3>1. \A s \in Seller : Fair(quote[s].tip, quote[s].gross, request.tip, Total("gross"))
      BY <2>2, <2>6, <2>8, FairNothing
    <3> QED BY <1>0, <2>1, <2>2, <2>4, <2>5, <2>8, <3>1 DEF TipInv
  <2> QED BY <1>0, <2>7, <2>8
<1>3. CASE TipSeller
  <2>1. /\ pc = "tip" /\ base' = base
        /\ \/ at < LastSeller /\ pc' = "tip" /\ at' = at + 1
           \/ ~(at < LastSeller) /\ pc' = "open_wallet" /\ at' = 1
    BY <1>3 DEF TipSeller
  <2>2. /\ \A s \in Seller \ {at} : quote'[s] = quote[s]
        /\ quote'[at].gross = quote[at].gross /\ quote'[at].wallet = quote[at].wallet
    BY <1>0, <1>3, TipMove
  <2>3. PICK share \in Shares(request.tip) :
          share \in Int /\ quote'[at].tip = quote[at].tip + share /\ given' = given + share
    BY <1>0, <1>3, TipMove
  <2>4. /\ base = Total("gross") /\ given = Total("tip")
        /\ \A s \in Seller : s < at => Fair(quote[s].tip, quote[s].gross, request.tip, base)
        /\ \A s \in Seller : s >= at => quote[s].tip = 0
        /\ \A s \in Seller : quote[s].wallet = 0
    BY <2>1 DEF TipInv
  <2>5. quote[at].tip = 0 /\ quote'[at].tip = share
    BY <1>0, <2>3, <2>4
  <2>6. quote[at].grand = quote[at].gross
    <3>1. Settled(quote[at]) /\ quote[at].wallet = 0
      BY <1>0, <2>1, <2>4 DEF IInv, RowInv, Quoted
    <3> QED BY <1>0, <2>5, <3>1, FieldsWhole DEF Settled
  <2>7. Total("tip")' = Total("tip") + share /\ Total("gross")' = Total("gross")
    <3>1. Total("tip")' = Total("tip") + (quote'[at]["tip"] - quote[at]["tip"])
      BY <1>0, <2>2, TotalChange
    <3>2. \A s \in Seller : quote'[s]["gross"] = quote[s]["gross"]
      BY <2>2
    <3>3. Total("gross")' = Total("gross")
      BY <1>0, <3>2, TotalKept
    <3> QED BY <2>3, <2>5, <3>1, <3>3
  <2>8. \A s \in Seller : quote'[s].wallet = 0
    BY <2>2, <2>4
  <2>9. CASE at < LastSeller
    <3>1. Fair(share, quote[at].gross, request.tip, base)
      BY <1>0, <2>3, <2>6, <2>9 DEF Shares, Fair
    <3>2. \A s \in Seller : s < at' =>
             Fair(quote'[s].tip, quote'[s].gross, request.tip, base)
      <4>1. SUFFICES ASSUME NEW s \in Seller, s < at'
                     PROVE  Fair(quote'[s].tip, quote'[s].gross, request.tip, base)
        OBVIOUS
      <4>2. CASE s = at
        BY <2>2, <2>5, <3>1, <4>2
      <4>3. CASE s # at
        <5>1. s < at
          BY <1>0, <2>1, <2>9, <4>1, <4>3
        <5> QED BY <2>2, <2>4, <4>3, <5>1
      <4> QED BY <4>2, <4>3
    <3>3. \A s \in Seller : s >= at' => quote'[s].tip = 0
      <4>1. \A s \in Seller : s >= at' => s # at /\ s >= at
        BY <1>0, <2>1, <2>9
      <4> QED BY <2>2, <2>4, <4>1
    <3> QED BY <1>0, <2>1, <2>3, <2>4, <2>7, <2>8, <2>9, <3>2, <3>3 DEF TipInv
  <2>10. CASE at = LastSeller
    <3>1. share = request.tip - given /\ given \in Int
      BY <1>0, <2>3, <2>10 DEF Shares, TypeOK
    <3>2. Total("tip")' = request.tip
      BY <1>0, <2>4, <2>7, <3>1
    <3>3. \A s \in Seller : s < LastSeller =>
             Fair(quote'[s].tip, quote'[s].gross, request.tip, base)
      <4>1. \A s \in Seller : s < LastSeller => s # at /\ s < at
        BY <1>0, <2>10
      <4> QED BY <2>2, <2>4, <4>1
    <3> QED BY <1>0, <2>1, <2>4, <2>7, <2>8, <2>10, <3>2, <3>3 DEF TipInv
  <2> QED BY <1>0, <2>9, <2>10
<1>4. CASE OpenWallet \/ RedeemSeller \/ SetPayable
  <2>1. /\ pc \in {"open_wallet", "wallet", "payable"} /\ pc' \in {"wallet", "payable", "done"}
    BY <1>4 DEF OpenWallet, RedeemSeller, SetPayable
  <2>2. \A s \in Seller : quote'[s].gross = quote[s].gross /\ quote'[s].tip = quote[s].tip
    <3>1. CASE OpenWallet
      BY <3>1 DEF OpenWallet
    <3>2. CASE RedeemSeller
      BY <1>0, <3>2, RedeemMove
    <3>3. CASE SetPayable
      BY <1>0, <3>3, PayableMove DEF SameParts
    <3> QED BY <1>4, <3>1, <3>2, <3>3
  <2>3. Total("gross")' = Total("gross") /\ Total("tip")' = Total("tip")
    BY <1>0, <2>2, TotalKept
  <2> QED BY <1>0, <2>1, <2>2, <2>3 DEF TipInv
<1>5. CASE Ended \/ UNCHANGED vars
  <2>1. UNCHANGED vars
    BY <1>5 DEF Ended
  <2>2. Total("gross")' = Total("gross") /\ Total("tip")' = Total("tip")
    BY <1>0, <2>1, TotalKept DEF vars
  <2> QED BY <1>0, <2>1, <2>2 DEF TipInv, vars
<1>6. CASE \/ HydrateWithoutCoupon \/ HydrateWithCoupon \/ Refuse \/ InRange \/ PriceLine
           \/ PriceSeller \/ ChargeHandling \/ RebateDelivery
  <2>1. pc' \in EarlyPasses
    BY <1>6 DEF HydrateWithoutCoupon, HydrateWithCoupon, Refuse, InRange, PriceLine, PriceSeller,
                ChargeHandling, RebateDelivery, EarlyPasses
  <2> QED BY <1>1, <2>1
<1> QED BY <1>2, <1>3, <1>4, <1>5, <1>6 DEF Next

\* Before wallet money no seller is owed less than nothing but the last, whose
\* part of the tip is what the others' rounding left.
LEMMA OwedNat ==
  ASSUME IInv, SumsInv, TipInv, discount <= CartSubtotal,
         pc \in {"open_wallet", "wallet", "payable", "done"}
  PROVE  /\ \A s \in Seller : s < LastSeller => Owed(s) \in Nat
         /\ 2 * Owed(LastSeller) >= -(LastSeller - 1)
         /\ TotalOwed \in Nat
<1>0. /\ TypeOK /\ IsFiniteSet(Seller) /\ LastSeller \in Seller /\ LastSeller \in Nat
      /\ LastSeller >= 1 /\ Seller = 1..LastSeller
      /\ Cardinality(Seller \ {LastSeller}) = LastSeller - 1
      /\ \A s \in Seller : quote[s] \in Breakdown
      /\ \A s \in Seller : quote[s].tip \in Int /\ quote[s].gross \in Int
  BY SellersFinite, FieldsWhole DEF IInv, TypeOK
<1>1. \A s \in Seller : Quoted(s)
  BY DEF Quoted
<1>2. \A s \in Seller : quote[s].gross \in Nat
  BY <1>1, GrossNat
<1>3. Total("gross") \in Nat /\ \A s \in Seller : quote[s].gross <= Total("gross")
  BY <1>1, TotalGrossNat
<1>4. PICK all \in Nat : all = Total("gross")
  BY <1>3
<1>5. PICK tip \in Nat : tip = request.tip
  BY <1>0 DEF TypeOK, Request
<1>6. Total("tip") = tip /\ TotalOwed = all + tip
  BY <1>0, <1>4, <1>5, TotalInt DEF TipInv
<1>7. \A s \in Seller : s < LastSeller => Fair(quote[s].tip, quote[s].gross, tip, all)
  BY <1>4, <1>5 DEF TipInv
<1>8. ASSUME NEW s \in Seller, s < LastSeller
      PROVE  Owed(s) \in Nat
  <2>1. CASE all > 0
    <3>1. PICK g \in Nat, t \in Int : g = quote[s].gross /\ t = quote[s].tip
      BY <1>0, <1>2
    <3>2. t \in Nearest(g * tip, all)
      BY <1>7, <1>8, <2>1, <3>1 DEF Fair
    <3>3. -all <= (2 * all) * t - 2 * (g * tip) /\ g * tip \in Nat
      BY <2>1, <3>2, NearestBounds
    <3>4. t >= 0
      <4> SUFFICES ASSUME t <= -1 PROVE FALSE
        BY <3>1
      <4>1. PICK n \in Nat : n = g * tip
        BY <3>3
      <4>2. (2 * all) * t <= (2 * all) * (-1)
        <5>1. 2 * all \in Nat BY <1>4
        <5> QED BY <3>1, <5>1, ProductGrows
      <4>3. (2 * all) * (-1) = -(2 * all)
        BY <1>4
      <4>4. (2 * all) * t \in Int
        BY <1>4, <3>1
      <4> QED BY <2>1, <3>3, <4>1, <4>2, <4>3, <4>4
    <3> QED BY <3>1, <3>4 DEF Owed
  <2>2. CASE ~(all > 0)
    <3>1. quote[s].tip = 0
      BY <1>7, <1>8, <2>2 DEF Fair
    <3> QED BY <1>2, <3>1 DEF Owed
  <2> QED BY <2>1, <2>2
<1>9. 2 * Owed(LastSeller) >= -(LastSeller - 1)
  <2> DEFINE f == [s \in Seller |-> IF s = LastSeller THEN 0 ELSE quote[s].tip]
             h == [s \in Seller |-> IF s = LastSeller THEN 0 ELSE quote[s].gross]
             ft == [s \in Seller |-> quote[s].tip]
             hg == [s \in Seller |-> quote[s].gross]
  <2>1. /\ f \in [Seller -> Int] /\ h \in [Seller -> Int]
        /\ ft \in [Seller -> Int] /\ hg \in [Seller -> Int]
    BY <1>0
  <2>2. /\ f[LastSeller] = 0 /\ h[LastSeller] = 0
        /\ ft[LastSeller] = quote[LastSeller].tip /\ hg[LastSeller] = quote[LastSeller].gross
        /\ \A s \in Seller \ {LastSeller} :
              /\ f[s] = ft[s] /\ h[s] = hg[s]
              /\ f[s] = quote[s].tip /\ h[s] = quote[s].gross
    BY <1>0
  <2>3. SumFunction(ft) = tip /\ SumFunction(hg) = all
    BY <1>4, <1>6 DEF Total
  <2> HIDE DEF f, h, ft, hg
  <2>4. /\ SumFunction(f) = tip - quote[LastSeller].tip
        /\ SumFunction(h) = all - quote[LastSeller].gross
    <3>1. PICK y \in Seller : y = LastSeller
      BY <1>0
    <3>2. /\ IsFiniteSet(Seller)
          /\ \A s \in Seller \ {y} : f[s] = ft[s] /\ h[s] = hg[s]
      BY <1>0, <2>2, <3>1
    <3>3. SumFunction(f) = SumFunction(ft) + (f[y] - ft[y])
      BY <2>1, <3>2, SumChange
    <3>4. SumFunction(h) = SumFunction(hg) + (h[y] - hg[y])
      BY <2>1, <3>2, SumChange
    <3> QED BY <1>0, <2>2, <2>3, <3>1, <3>3, <3>4
  <2>5. PICK t \in Int, g \in Nat : t = quote[LastSeller].tip /\ g = quote[LastSeller].gross
    BY <1>0, <1>2
  <2>6. g <= all
    BY <1>0, <1>3, <1>4, <2>5
  <2>7. \A s \in Seller \ {LastSeller} : s < LastSeller
    BY <1>0
  <2>8. CASE all > 0
    <3>1. ASSUME NEW s \in Seller \ {LastSeller}
          PROVE  /\ -all <= (2 * all) * f[s] - (2 * tip) * h[s]
                 /\ (2 * all) * f[s] - (2 * tip) * h[s] <= all
      <4>1. PICK x \in Int, y \in Nat : x = quote[s].tip /\ y = quote[s].gross
        BY <1>0, <1>2
      <4>2. x \in Nearest(y * tip, all)
        BY <1>7, <2>7, <2>8, <4>1 DEF Fair
      <4>3. /\ -all <= (2 * all) * x - 2 * (y * tip) /\ (2 * all) * x - 2 * (y * tip) <= all
        BY <2>8, <4>2, NearestBounds
      <4>4. 2 * (y * tip) = (2 * tip) * y
        OBVIOUS
      <4>5. f[s] = x /\ h[s] = y
        BY <2>2, <4>1
      <4> QED BY <4>3, <4>4, <4>5
    <3>2. (2 * all) * SumFunction(f) - (2 * tip) * SumFunction(h)
             <= all * Cardinality(Seller \ {LastSeller})
      <4>1. 2 * all \in Int /\ 2 * tip \in Int /\ -all \in Int /\ all \in Int
        OBVIOUS
      <4> QED BY <1>0, <2>1, <2>2, <3>1, <4>1, SumBetween
    <3>3. (2 * all) * (tip - t) - (2 * tip) * (all - g) <= all * (LastSeller - 1)
      BY <1>0, <2>4, <2>5, <3>2
    <3>4. (2 * all) * (tip - t) = 2 * (all * tip) - 2 * (all * t)
          /\ (2 * tip) * (all - g) = 2 * (all * tip) - 2 * (tip * g)
          /\ all * tip \in Nat /\ all * t \in Int /\ tip * g \in Nat
      BY <2>5
    <3>5. all * (LastSeller - 1) \in Int
      BY <1>0
    <3>6. -(2 * (all * t)) <= all * (LastSeller - 1)
      <4>1. PICK a \in Nat, b \in Int, c \in Nat, e \in Int :
               a = all * tip /\ b = all * t /\ c = tip * g /\ e = all * (LastSeller - 1)
        BY <3>4, <3>5
      <4> QED BY <3>3, <3>4, <4>1
    <3>7. all * (-(2 * t)) = -(2 * (all * t))
      BY <2>5
    <3>8. -(2 * t) <= LastSeller - 1
      <4>1. -(2 * t) \in Int /\ LastSeller - 1 \in Int /\ all \in Nat \ {0}
        BY <1>0, <2>5, <2>8
      <4>2. all * (-(2 * t)) <= all * (LastSeller - 1)
        BY <3>6, <3>7
      <4> QED BY <4>1, <4>2, ProductCancels
    <3>9. Owed(LastSeller) = g + t
      BY <2>5 DEF Owed
    <3>10. PICK n \in Nat : n = LastSeller - 1
      BY <1>0
    <3>11. 2 * (g + t) >= -n
      BY <2>5, <3>8, <3>10
    <3> QED BY <3>9, <3>10, <3>11
  <2>9. CASE ~(all > 0)
    <3>1. \A s \in Seller : f[s] = 0
      BY <1>7, <2>2, <2>7, <2>9 DEF Fair
    <3>2. SumFunction(f) = 0
      BY <1>0, <2>1, <3>1, SumZero
    <3>3. t = tip
      BY <2>4, <2>5, <3>2
    <3> QED BY <1>0, <2>5, <3>3 DEF Owed
  <2> QED BY <2>8, <2>9
<1> QED BY <1>6, <1>8, <1>9

LEMMA WalletStep ==
  ASSUME IInv, IInv', SumsInv, SumsInv', TipInv, TipInv', WalletInv, [Next]_vars
  PROVE  WalletInv'
<1>0. /\ UNCHANGED inputs /\ TypeOK /\ TypeOK' /\ Seller' = Seller /\ LastSeller' = LastSeller
      /\ Seller = 1..LastSeller /\ LastSeller \in Nat /\ LastSeller >= 1 /\ at \in Seller
      /\ request' = request /\ settings' = settings /\ request.wallet \in Nat
      /\ LastSeller \in Seller /\ CartSubtotal' = CartSubtotal
      /\ \A s \in Seller : quote[s] \in Breakdown /\ quote'[s] \in Breakdown
      /\ \A s \in Seller : Owed(s) \in Int
      /\ TotalOwed \in Int
  <2>1. /\ UNCHANGED inputs /\ TypeOK /\ TypeOK' /\ request' = request /\ settings' = settings
    BY InputsStay DEF IInv, inputs
  <2>2. /\ Seller' = Seller /\ LastSeller' = LastSeller /\ CartSubtotal' = CartSubtotal
    BY <2>1, SellersStay
  <2>3. Seller = 1..LastSeller /\ LastSeller \in Nat /\ LastSeller >= 1
    BY <2>1, SellersFinite
  <2>4. /\ at \in Seller /\ request.wallet \in Nat
        /\ \A s \in Seller : quote[s] \in Breakdown /\ quote'[s] \in Breakdown
    BY <2>1, <2>2 DEF TypeOK, Request
  <2>5. \A s \in Seller : Owed(s) \in Int
    BY <2>4, FieldsWhole DEF Owed
  <2>6. TotalOwed \in Int
    BY <2>1, TotalInt
  <2> QED BY <2>1, <2>2, <2>3, <2>4, <2>5, <2>6
<1>1. CASE pc' \notin {"wallet", "payable", "done"}
  BY <1>1 DEF WalletInv
<1>2. CASE OpenWallet
  <2>1. /\ pc = "open_wallet" /\ at' = 1 /\ given' = 0 /\ base' = Total("grand") /\ quote' = quote
        /\ discount' = discount
        /\ pc' = IF settings.walletReduces /\ CappedWallet(Total("grand")) > 0
                 THEN "wallet" ELSE "payable"
    BY <1>2 DEF OpenWallet
  <2>2. ASSUME NEW s \in Seller
        PROVE  quote[s].wallet = 0 /\ quote[s].grand = Owed(s)
    <3>1. quote[s].wallet = 0 /\ Settled(quote[s])
      BY <2>1 DEF IInv, RowInv, TipInv, Quoted
    <3> QED BY <1>0, <3>1, FieldsWhole DEF Settled, Owed
  <2>3. Total("grand") = TotalOwed
    <3>1. [s \in Seller |-> quote[s]["grand"]] = [s \in Seller |-> Owed(s)]
      BY <2>2
    <3> QED BY <3>1 DEF Total, TotalOwed
  <2>4. Total("wallet") = 0 /\ Total("wallet")' = 0
    <3>1. Total("wallet") = 0
      BY <1>0, <2>2, TotalNothing
    <3>2. Total("wallet")' = Total("wallet")
      BY <1>0, <2>1, TotalKept
    <3> QED BY <3>1, <3>2
  <2>5. TotalOwed' = TotalOwed /\ Redeemable' = Redeemable /\ \A s \in Seller : Owed(s)' = Owed(s)
    BY <1>0, <2>1, OwedKept
  <2>6. CASE settings.walletReduces /\ CappedWallet(TotalOwed) > 0
    <3>1. \A s \in Seller : ~(s < 1)
      BY <1>0
    <3>2. CappedWallet(base)' = CappedWallet(TotalOwed)
      BY <1>0, <2>1, <2>3 DEF CappedWallet
    <3> QED BY <1>0, <2>1, <2>2, <2>3, <2>4, <2>5, <2>6, <3>1, <3>2 DEF WalletInv
  <2>7. CASE ~(settings.walletReduces /\ CappedWallet(TotalOwed) > 0)
    <3>1. pc' = "payable"
      BY <2>1, <2>3, <2>7
    <3>2. ASSUME discount <= CartSubtotal
          PROVE  /\ \A s \in Seller : Fair(0, Owed(s), Redeemable, TotalOwed)
                 /\ Part(Redeemable - (0 - 0), Owed(LastSeller)) = 0
      <4>1. TotalOwed \in Nat
        BY <2>1, <3>2, OwedNat
      <4>2. Redeemable = 0
        BY <1>0, <2>7, <4>1 DEF Redeemable, CappedWallet, Least
      <4>3. \A s \in Seller : Fair(0, Owed(s), 0, TotalOwed)
        BY <1>0, FairNothing
      <4> QED BY <1>0, <4>2, <4>3 DEF Part, Least
    <3> QED BY <1>0, <2>1, <2>2, <2>4, <2>5, <3>1, <3>2 DEF WalletInv
  <2> QED BY <2>6, <2>7
<1>3. CASE RedeemSeller
  <2>1. /\ pc = "wallet" /\ base' = base /\ discount' = discount
        /\ \/ at < LastSeller /\ pc' = "wallet" /\ at' = at + 1
           \/ ~(at < LastSeller) /\ pc' = "payable" /\ at' = 1
    BY <1>3 DEF RedeemSeller
  <2>2. /\ \A s \in Seller \ {at} : quote'[s] = quote[s]
        /\ quote'[at].gross = quote[at].gross /\ quote'[at].tip = quote[at].tip
    BY <1>0, <1>3, RedeemMove
  <2>3. PICK share \in Shares(CappedWallet(base)) :
          /\ share \in Int /\ given' = given + share
          /\ quote'[at].wallet = quote[at].wallet + Clamped(share, quote[at])
    BY <1>0, <1>3, RedeemMove
  <2>4. /\ base = TotalOwed /\ settings.walletReduces /\ CappedWallet(base) > 0
        /\ \A s \in Seller : s >= at => quote[s].wallet = 0
        /\ discount <= CartSubtotal =>
             /\ given = Total("wallet")
             /\ \A s \in Seller : s < at => Fair(quote[s].wallet, Owed(s), Redeemable, TotalOwed)
    BY <2>1 DEF WalletInv
  <2>5. quote[at].wallet = 0 /\ quote[at].grand = Owed(at)
    <3>1. quote[at].wallet = 0 /\ Settled(quote[at])
      BY <1>0, <2>1, <2>4 DEF IInv, RowInv, Quoted
    <3> QED BY <1>0, <3>1, FieldsWhole DEF Settled, Owed
  <2>6. PICK part \in Int : part = Part(share, Owed(at)) /\ quote'[at].wallet = part
    <3>1. Clamped(share, quote[at]) = Part(share, Owed(at))
      BY <2>5 DEF Clamped, Part
    <3>2. Part(share, Owed(at)) \in Int
      BY <1>0, <2>3 DEF Part, Least
    <3> QED BY <2>3, <2>5, <3>1, <3>2
  <2>7. \A s \in Seller : quote'[s].gross = quote[s].gross /\ quote'[s].tip = quote[s].tip
    BY <2>2
  <2>8. TotalOwed' = TotalOwed /\ Redeemable' = Redeemable /\ \A s \in Seller : Owed(s)' = Owed(s)
    BY <1>0, <2>7, OwedKept
  <2>9. Total("wallet")' = Total("wallet") + part /\ Total("wallet") \in Int
    <3>1. Total("wallet")' = Total("wallet") + (quote'[at]["wallet"] - quote[at]["wallet"])
      BY <1>0, <2>2, TotalChange
    <3> QED BY <1>0, <2>5, <2>6, <3>1, TotalInt
  <2>10. Redeemable = CappedWallet(base) /\ CappedWallet(base)' = CappedWallet(base)
    BY <1>0, <2>1, <2>4 DEF Redeemable, CappedWallet
  <2>11. CASE at < LastSeller
    <3>1. \A s \in Seller : s >= at' => quote'[s].wallet = 0
      <4>1. \A s \in Seller : s >= at' => s # at /\ s >= at
        BY <1>0, <2>1, <2>11
      <4> QED BY <2>2, <2>4, <4>1
    <3>2. ASSUME discount <= CartSubtotal
          PROVE  /\ given' = Total("wallet")'
                 /\ \A s \in Seller : s < at' =>
                       Fair(quote'[s].wallet, Owed(s), Redeemable, TotalOwed)
      <4>1. Owed(at) \in Nat /\ TotalOwed \in Nat
        BY <1>0, <2>1, <2>11, <3>2, OwedNat
      <4>2. Redeemable \in Nat /\ Redeemable <= TotalOwed /\ Redeemable > 0
        BY <1>0, <2>4, <2>10, <4>1 DEF CappedWallet, Least
      <4>3. TotalOwed \in Nat \ {0}
        BY <4>1, <4>2
      <4>4. share \in Nearest(Owed(at) * Redeemable, TotalOwed)
        BY <1>0, <2>3, <2>4, <2>5, <2>10, <2>11, <4>3 DEF Shares
      <4>5. share \in Nat /\ share <= Owed(at)
        BY <4>1, <4>2, <4>3, <4>4, NearestAtMost
      <4>6. part = share
        BY <2>6, <4>1, <4>5 DEF Part, Least
      <4>7. Fair(quote'[at].wallet, Owed(at), Redeemable, TotalOwed)
        BY <2>6, <4>3, <4>4, <4>6 DEF Fair
      <4>8. given' = Total("wallet")'
        BY <2>3, <2>4, <2>9, <3>2, <4>6
      <4>9. ASSUME NEW s \in Seller, s < at', s # at
            PROVE  Fair(quote'[s].wallet, Owed(s), Redeemable, TotalOwed)
        <5>1. s < at
          BY <1>0, <2>1, <2>11, <4>9
        <5> QED BY <2>2, <2>4, <3>2, <4>9, <5>1
      <4> QED BY <4>7, <4>8, <4>9
    <3> QED BY <1>0, <2>1, <2>4, <2>8, <2>10, <2>11, <3>1, <3>2 DEF WalletInv
  <2>12. CASE at = LastSeller
    <3>1. pc' = "payable"
      BY <1>0, <2>1, <2>12
    <3>2. ASSUME discount <= CartSubtotal
          PROVE  /\ \A s \in Seller : s < LastSeller =>
                       Fair(quote'[s].wallet, Owed(s), Redeemable, TotalOwed)
                 /\ quote'[LastSeller].wallet =
                       Part(Redeemable - (Total("wallet")' - quote'[LastSeller].wallet),
                            Owed(LastSeller))
      <4>1. \A s \in Seller : s < LastSeller => s # at /\ s < at
        BY <1>0, <2>12
      <4>2. share = Redeemable - Total("wallet")
        BY <2>3, <2>4, <2>10, <2>12, <3>2 DEF Shares
      <4>3. Total("wallet") = Total("wallet")' - part
        BY <2>6, <2>9
      <4> QED BY <2>2, <2>4, <2>6, <2>12, <3>2, <4>1, <4>2, <4>3
    <3> QED BY <1>0, <2>1, <2>8, <3>1, <3>2 DEF WalletInv
  <2> QED BY <1>0, <2>11, <2>12
<1>4. CASE SetPayable
  <2>1. pc = "payable" /\ pc' = "done" /\ discount' = discount
    BY <1>4 DEF SetPayable
  <2>2. \A s \in Seller : /\ quote'[s].gross = quote[s].gross /\ quote'[s].tip = quote[s].tip
                          /\ quote'[s].wallet = quote[s].wallet
                          /\ quote'[s].payable = quote'[s].grand
    BY <1>0, <1>4, PayableMove DEF SameParts
  <2>3. TotalOwed' = TotalOwed /\ Redeemable' = Redeemable /\ \A s \in Seller : Owed(s)' = Owed(s)
    BY <1>0, <2>2, OwedKept
  <2>4. Total("wallet")' = Total("wallet")
    BY <1>0, <2>2, TotalKept
  <2> QED BY <1>0, <2>1, <2>2, <2>3, <2>4 DEF WalletInv
<1>5. CASE Ended \/ UNCHANGED vars
  <2>1. UNCHANGED vars
    BY <1>5 DEF Ended
  <2>2. TotalOwed' = TotalOwed /\ Redeemable' = Redeemable /\ \A s \in Seller : Owed(s)' = Owed(s)
    BY <1>0, <2>1, OwedKept DEF vars
  <2>3. Total("wallet")' = Total("wallet") /\ CappedWallet(base)' = CappedWallet(base)
    BY <1>0, <2>1, TotalKept DEF vars, CappedWallet
  <2> QED BY <1>0, <2>1, <2>2, <2>3 DEF WalletInv, vars
<1>6. CASE \/ HydrateWithoutCoupon \/ HydrateWithCoupon \/ Refuse \/ InRange \/ PriceLine
           \/ PriceSeller \/ ChargeHandling \/ RebateDelivery \/ OpenTip \/ TipSeller
  <2>1. pc' \notin {"wallet", "payable", "done"}
    BY <1>6 DEF HydrateWithoutCoupon, HydrateWithCoupon, Refuse, InRange, PriceLine, PriceSeller,
                ChargeHandling, RebateDelivery, OpenTip, TipSeller
  <2> QED BY <1>1, <2>1
<1> QED BY <1>2, <1>3, <1>4, <1>5, <1>6 DEF Next

\* The discount: the sellers' parts are each the nearest, and nobody's remainder.
LEMMA DiscountSplit ==
  ASSUME IInv, SumsInv, \A s \in Seller : Quoted(s)
  PROVE  2 * Deviation(Total("discount"), discount) <= LastSeller
<1>0. /\ TypeOK /\ IsFiniteSet(Seller) /\ LastSeller \in Nat \ {0} /\ Seller = 1..LastSeller
      /\ Cardinality(Seller) = LastSeller /\ discount \in Nat
      /\ \A s \in Seller : quote[s].discount \in Int
  BY SellersFinite, FieldsWhole DEF IInv, TypeOK
<1> DEFINE f == [s \in Seller |-> quote[s].discount]
           h == [s \in Seller |-> Subtotal(s)]
<1>1. CartSubtotal \in Nat /\ \A s \in Seller : Subtotal(s) \in Nat
  BY <1>0, CartAmounts
<1>2. f \in [Seller -> Int] /\ h \in [Seller -> Int]
  BY <1>0, <1>1
<1>3. \A s \in Seller : f[s] = quote[s].discount /\ h[s] = Subtotal(s)
  OBVIOUS
<1>4. SumFunction(f) = Total("discount") /\ SumFunction(h) = CartSubtotal
  BY DEF Total, CartSubtotal
<1>5. \A s \in Seller : quote[s].discount \in DiscountShares(s)
  BY DEF SumsInv, ChargesInv
<1>6. 0 \notin Seller /\ Seller \ {0} = Seller
  BY <1>0
<1> HIDE DEF f, h
<1>7. PICK all \in Nat, off \in Nat, n \in Nat \ {0}, part \in Int :
         all = CartSubtotal /\ off = discount /\ n = LastSeller /\ part = Total("discount")
  BY <1>0, <1>1, TotalInt
<1>8. -n <= 2 * part - 2 * off /\ 2 * part - 2 * off <= n
  <2>1. CASE all > 0
    <3>1. ASSUME NEW s \in Seller
          PROVE  /\ -all <= (2 * all) * f[s] - (2 * off) * h[s]
                 /\ (2 * all) * f[s] - (2 * off) * h[s] <= all
      <4>1. PICK x \in Int, y \in Nat : x = f[s] /\ y = h[s]
        BY <1>0, <1>1, <1>3
      <4>2. x \in Nearest(off * y, all) /\ off * y \in Int
        BY <1>3, <1>5, <1>7, <2>1, <4>1 DEF DiscountShares
      <4>3. -all <= (2 * all) * x - 2 * (off * y) /\ (2 * all) * x - 2 * (off * y) <= all
        BY <2>1, <4>2, NearestBounds
      <4>4. 2 * (off * y) = (2 * off) * y
        OBVIOUS
      <4> QED BY <4>1, <4>3, <4>4
    <3>2. /\ (-all) * n <= (2 * all) * part - (2 * off) * all
          /\ (2 * all) * part - (2 * off) * all <= all * n
      <4>1. 2 * all \in Int /\ 2 * off \in Int /\ -all \in Int /\ all \in Int
        OBVIOUS
      <4>2. /\ (-all) * Cardinality(Seller \ {0})
                  <= (2 * all) * SumFunction(f) - (2 * off) * SumFunction(h)
            /\ (2 * all) * SumFunction(f) - (2 * off) * SumFunction(h)
                  <= all * Cardinality(Seller \ {0})
        BY <1>0, <1>2, <1>6, <3>1, <4>1, SumBetween
      <4> QED BY <1>0, <1>4, <1>6, <1>7, <4>2
    <3>3. /\ (-all) * n = all * (-n)
          /\ (2 * all) * part - (2 * off) * all = all * (2 * part - 2 * off)
      BY <1>7
    <3>4. all * (-n) <= all * (2 * part - 2 * off) /\ all * (2 * part - 2 * off) <= all * n
      BY <3>2, <3>3
    <3> QED BY <1>7, <2>1, <3>4, ProductCancels
  <2>2. CASE ~(all > 0)
    <3>1. ASSUME NEW s \in Seller
          PROVE  /\ 2 * off - n <= (2 * n) * f[s] - 0 * h[s]
                 /\ (2 * n) * f[s] - 0 * h[s] <= 2 * off + n
      <4>1. PICK x \in Int, y \in Nat : x = f[s] /\ y = h[s]
        BY <1>0, <1>1, <1>3
      <4>2. x \in Nearest(off, n)
        BY <1>3, <1>5, <1>7, <2>2, <4>1 DEF DiscountShares
      <4>3. -n <= (2 * n) * x - 2 * off /\ (2 * n) * x - 2 * off <= n
        BY <1>7, <4>2, NearestBounds
      <4>4. 0 * y = 0 /\ (2 * n) * x \in Int
        BY <1>7
      <4> QED BY <1>7, <4>1, <4>3, <4>4
    <3>2. /\ (2 * off - n) * n <= (2 * n) * part - 0 * all
          /\ (2 * n) * part - 0 * all <= (2 * off + n) * n
      <4>1. 2 * n \in Int /\ 0 \in Int /\ 2 * off - n \in Int /\ 2 * off + n \in Int
        BY <1>7
      <4>2. /\ (2 * off - n) * Cardinality(Seller \ {0})
                  <= (2 * n) * SumFunction(f) - 0 * SumFunction(h)
            /\ (2 * n) * SumFunction(f) - 0 * SumFunction(h)
                  <= (2 * off + n) * Cardinality(Seller \ {0})
        BY <1>0, <1>2, <1>6, <3>1, <4>1, SumBetween
      <4> QED BY <1>0, <1>4, <1>6, <1>7, <4>2
    <3>3. /\ (2 * off - n) * n = n * (2 * off - n) /\ (2 * off + n) * n = n * (2 * off + n)
          /\ (2 * n) * part - 0 * all = n * (2 * part)
      BY <1>7
    <3>4. n * (2 * off - n) <= n * (2 * part) /\ n * (2 * part) <= n * (2 * off + n)
      BY <3>2, <3>3
    <3>5. 2 * off - n <= 2 * part /\ 2 * part <= 2 * off + n
      BY <1>7, <3>4, ProductCancels
    <3> QED BY <1>7, <3>5
  <2> QED BY <2>1, <2>2
<1> QED BY <1>7, <1>8 DEF Deviation

\* What the last seller's clamp leaves of the exact amount.
LEMMA WalletSplit ==
  ASSUME IInv, SumsInv, TipInv, WalletInv, discount <= CartSubtotal, pc = "done"
  PROVE  2 * Deviation(Total("wallet"), Redeemable)
            <= LastSeller - 1 + 2 * Below(Owed(LastSeller))
<1>0. /\ TypeOK /\ IsFiniteSet(Seller) /\ LastSeller \in Seller /\ LastSeller \in Nat
      /\ LastSeller >= 1 /\ Seller = 1..LastSeller
      /\ Cardinality(Seller \ {LastSeller}) = LastSeller - 1
      /\ \A s \in Seller : quote[s] \in Breakdown
      /\ \A s \in Seller : quote[s].wallet \in Int /\ Owed(s) \in Int
      /\ Total("wallet") \in Int /\ request.wallet \in Nat
  <2>1. TypeOK
    BY DEF IInv
  <2>2. /\ IsFiniteSet(Seller) /\ LastSeller \in Nat /\ LastSeller >= 1 /\ Seller = 1..LastSeller
        /\ Cardinality(Seller \ {LastSeller}) = LastSeller - 1
    BY <2>1, SellersFinite
  <2>3. request.wallet \in Nat /\ \A s \in Seller : quote[s] \in Breakdown
    BY <2>1 DEF TypeOK, Request
  <2>4. \A s \in Seller : quote[s].wallet \in Int /\ Owed(s) \in Int
    BY <2>3, FieldsWhole DEF Owed
  <2>5. Total("wallet") \in Int
    BY <2>1, TotalInt
  <2> QED BY <2>1, <2>2, <2>3, <2>4, <2>5
<1>1. TotalOwed \in Nat
  BY OwedNat
<1>2. Redeemable \in Nat /\ Redeemable <= TotalOwed
  BY <1>0, <1>1 DEF Redeemable, CappedWallet, Least
<1>3. PICK all \in Nat, cash \in Nat, n \in Nat, got \in Int, g \in Int, p \in Int :
        /\ all = TotalOwed /\ cash = Redeemable /\ n = LastSeller - 1 /\ got = Total("wallet")
        /\ g = Owed(LastSeller) /\ p = quote[LastSeller].wallet
  <2>1. LastSeller - 1 \in Nat /\ Owed(LastSeller) \in Int /\ quote[LastSeller].wallet \in Int
        /\ Total("wallet") \in Int
    BY <1>0
  <2> QED BY <1>1, <1>2, <2>1
<1>4. cash <= all /\ p = Part(cash - (got - p), g)
      /\ \A s \in Seller : s < LastSeller => Fair(quote[s].wallet, Owed(s), cash, all)
  BY <1>2, <1>3 DEF WalletInv
<1> DEFINE f == [s \in Seller |-> IF s = LastSeller THEN 0 ELSE quote[s].wallet]
           h == [s \in Seller |-> IF s = LastSeller THEN 0 ELSE Owed(s)]
           fw == [s \in Seller |-> quote[s].wallet]
           ho == [s \in Seller |-> Owed(s)]
<1>5. /\ f \in [Seller -> Int] /\ h \in [Seller -> Int]
      /\ fw \in [Seller -> Int] /\ ho \in [Seller -> Int]
  BY <1>0
<1>6. /\ f[LastSeller] = 0 /\ h[LastSeller] = 0
      /\ fw[LastSeller] = p /\ ho[LastSeller] = g
      /\ \A s \in Seller \ {LastSeller} :
            /\ f[s] = fw[s] /\ h[s] = ho[s] /\ f[s] = quote[s].wallet /\ h[s] = Owed(s)
  BY <1>0, <1>3
<1>7. SumFunction(fw) = got /\ SumFunction(ho) = all
  BY <1>3 DEF Total, TotalOwed
<1> HIDE DEF f, h, fw, ho
<1>8. SumFunction(f) = got - p /\ SumFunction(h) = all - g
  <2>1. PICK y \in Seller : y = LastSeller
    BY <1>0
  <2>2. /\ IsFiniteSet(Seller)
        /\ \A s \in Seller \ {y} : f[s] = fw[s] /\ h[s] = ho[s]
    BY <1>0, <1>6, <2>1
  <2>3. SumFunction(f) = SumFunction(fw) + (f[y] - fw[y])
    BY <1>5, <2>2, SumChange
  <2>4. SumFunction(h) = SumFunction(ho) + (h[y] - ho[y])
    BY <1>5, <2>2, SumChange
  <2> QED BY <1>3, <1>6, <1>7, <2>1, <2>3, <2>4
<1>9. \A s \in Seller \ {LastSeller} : s < LastSeller
  BY <1>0
<1>10. PICK others \in Int : others = got - p
  BY <1>3
<1> SUFFICES 2 * Deviation(got, cash) <= n + 2 * Below(g)
  BY <1>3
<1>11. CASE all > 0
  <2>1. ASSUME NEW s \in Seller \ {LastSeller}
        PROVE  /\ -all <= (2 * all) * f[s] - (2 * cash) * h[s]
               /\ (2 * all) * f[s] - (2 * cash) * h[s] <= all
    <3>1. PICK x \in Int, y \in Int : x = quote[s].wallet /\ y = Owed(s)
      BY <1>0
    <3>2. x \in Nearest(y * cash, all) /\ y * cash \in Int
      BY <1>4, <1>9, <1>11, <3>1 DEF Fair
    <3>3. -all <= (2 * all) * x - 2 * (y * cash) /\ (2 * all) * x - 2 * (y * cash) <= all
      BY <1>11, <3>2, NearestBounds
    <3>4. 2 * (y * cash) = (2 * cash) * y
      OBVIOUS
    <3>5. f[s] = x /\ h[s] = y
      BY <1>6, <3>1
    <3> QED BY <3>3, <3>4, <3>5
  <2>2. /\ (-all) * n <= (2 * all) * others - (2 * cash) * (all - g)
        /\ (2 * all) * others - (2 * cash) * (all - g) <= all * n
    <3>1. 2 * all \in Int /\ 2 * cash \in Int /\ -all \in Int /\ all \in Int
      OBVIOUS
    <3>2. /\ (-all) * Cardinality(Seller \ {LastSeller})
                <= (2 * all) * SumFunction(f) - (2 * cash) * SumFunction(h)
          /\ (2 * all) * SumFunction(f) - (2 * cash) * SumFunction(h)
                <= all * Cardinality(Seller \ {LastSeller})
      BY <1>0, <1>5, <1>6, <2>1, <3>1, SumBetween
    <3> QED BY <1>0, <1>3, <1>8, <1>10, <3>2
  \* What the rounding leaves, and what would have been the last seller's part.
  <2>3. /\ (2 * all) * others = all * (2 * others)
        /\ (2 * cash) * (all - g) = 2 * (all * cash) - 2 * (cash * g)
        /\ (-all) * n = -(all * n)
        /\ all * (2 * others) \in Int /\ all * cash \in Int /\ cash * g \in Int /\ all * n \in Int
        /\ all * g \in Int
    BY <1>3, <1>10
  <2>4. PICK a \in Int, c \in Int, d \in Int, e \in Int, i \in Int :
           a = all * (2 * others) /\ c = all * cash /\ d = cash * g /\ e = all * n /\ i = all * g
    BY <2>3
  <2>5. -e <= a - (2 * c - 2 * d) /\ a - (2 * c - 2 * d) <= e
    BY <2>2, <2>3, <2>4
  <2>6. CASE g >= 0
    <3>1. 0 <= d /\ d <= i
      <4>1. g * cash <= g * all /\ g * 0 <= g * cash
        BY <1>3, <1>4, <2>6, ProductGrows
      <4>2. g * cash = cash * g /\ g * all = all * g /\ g * 0 = 0
        BY <1>3
      <4> QED BY <2>4, <4>1, <4>2
    <3>2. a <= 2 * c + e /\ 2 * c - 2 * i - e <= a
      BY <2>5, <3>1
    <3>3. /\ all * (2 * cash + n) = 2 * c + e
          /\ all * (2 * cash - 2 * g - n) = 2 * c - 2 * i - e
      BY <1>3, <2>4
    <3>4. 2 * others <= 2 * cash + n /\ 2 * cash - 2 * g - n <= 2 * others
      <4>1. /\ 2 * others \in Int /\ 2 * cash + n \in Int /\ 2 * cash - 2 * g - n \in Int
            /\ all \in Nat \ {0}
        BY <1>3, <1>10, <1>11
      <4>2. /\ all * (2 * others) <= all * (2 * cash + n)
            /\ all * (2 * cash - 2 * g - n) <= all * (2 * others)
        BY <2>4, <3>2, <3>3
      <4> QED BY <4>1, <4>2, ProductCancels
    <3>5. p = IF cash - others < 0 THEN 0 ELSE IF cash - others <= g THEN cash - others ELSE g
      BY <1>3, <1>4, <1>10, <2>6 DEF Part, Least
    <3> QED BY <1>10, <2>6, <3>4, <3>5 DEF Deviation, Below
  <2>7. CASE g < 0
    <3>1. i <= d /\ d <= 0
      <4>1. PICK m \in Nat : m = -g
        BY <1>3, <2>7
      <4>2. m * cash <= m * all /\ m * 0 <= m * cash
        BY <1>4, <4>1, ProductGrows
      <4>3. m * cash = -(cash * g) /\ m * all = -(all * g) /\ m * 0 = 0
        BY <1>3, <4>1
      <4> QED BY <2>4, <4>2, <4>3
    <3>2. a <= 2 * c - 2 * i + e /\ 2 * c - e <= a
      BY <2>5, <3>1
    <3>3. all * (2 * cash - 2 * g + n) = 2 * c - 2 * i + e /\ all * (2 * cash - n) = 2 * c - e
      BY <1>3, <2>4
    <3>4. 2 * others <= 2 * cash - 2 * g + n /\ 2 * cash - n <= 2 * others
      <4>1. /\ 2 * others \in Int /\ 2 * cash - 2 * g + n \in Int /\ 2 * cash - n \in Int
            /\ all \in Nat \ {0}
        BY <1>3, <1>10, <1>11
      <4>2. /\ all * (2 * others) <= all * (2 * cash - 2 * g + n)
            /\ all * (2 * cash - n) <= all * (2 * others)
        BY <2>4, <3>2, <3>3
      <4> QED BY <4>1, <4>2, ProductCancels
    <3>5. p = 0
      BY <1>3, <1>4, <2>7 DEF Part, Least
    <3> QED BY <1>10, <2>7, <3>4, <3>5 DEF Deviation, Below
  <2> QED BY <2>6, <2>7
<1>12. CASE ~(all > 0)
  <2>1. \A s \in Seller : f[s] = 0
    BY <1>4, <1>6, <1>9, <1>12 DEF Fair
  <2>2. SumFunction(f) = 0
    BY <1>0, <1>5, <2>1, SumZero
  <2>3. others = 0 /\ cash = 0
    BY <1>3, <1>4, <1>8, <1>10, <1>12, <2>2
  <2>4. p = Part(0, g)
    BY <1>4, <1>10, <2>3
  <2>5. p = 0
    BY <2>4 DEF Part, Least
  <2> QED BY <1>10, <2>3, <2>5 DEF Deviation, Below
<1> QED BY <1>11, <1>12

PricingInv == IInv /\ SumsInv /\ TipInv /\ WalletInv

LEMMA PricingInit == Init => PricingInv
BY InitInv, SumsInit DEF PricingInv, Init, TipInv, WalletInv

LEMMA PricingStep == PricingInv /\ [Next]_vars => PricingInv'
<1> SUFFICES ASSUME PricingInv, [Next]_vars PROVE PricingInv'
  OBVIOUS
<1>1. IInv /\ SumsInv /\ TipInv /\ WalletInv
  BY DEF PricingInv
<1>2. IInv'
  BY <1>1, StepInv
<1>3. SumsInv'
  BY <1>1, <1>2, SumsStep
<1>4. TipInv'
  BY <1>1, <1>2, TipsStep
<1>5. WalletInv'
  BY <1>1, <1>2, <1>3, <1>4, WalletStep
<1> QED BY <1>2, <1>3, <1>4, <1>5 DEF PricingInv

LEMMA PricingAlways == Spec => []PricingInv
BY PricingInit, PricingStep, PTL DEF Spec

LEMMA InvAddsUp == PricingInv => SharesAddUp
<1> SUFFICES ASSUME PricingInv, pc = "done"
             PROVE  /\ Total("tip") = request.tip
                    /\ 2 * Deviation(Total("discount"), discount) <= LastSeller
                    /\ settings.walletReduces /\ discount <= CartSubtotal =>
                         2 * Deviation(Total("wallet"),
                                       Least(request.wallet, Total("grand") + Total("wallet")))
                           <= LastSeller - 1
                              + 2 * Below(quote[LastSeller].grand + quote[LastSeller].wallet)
  BY DEF SharesAddUp
<1>1. IInv /\ SumsInv /\ TipInv /\ WalletInv /\ TypeOK
  BY DEF PricingInv, IInv
<1>2. Total("tip") = request.tip
  BY <1>1 DEF TipInv
<1>3. \A s \in Seller : Quoted(s)
  BY DEF Quoted
<1>4. 2 * Deviation(Total("discount"), discount) <= LastSeller
  BY <1>1, <1>3, DiscountSplit
<1>5. ASSUME NEW s \in Seller
      PROVE  Owed(s) = quote[s].grand + quote[s].wallet
  <2>1. quote[s] \in Breakdown /\ Settled(quote[s])
    BY <1>1, <1>3 DEF IInv, RowInv, TypeOK
  <2> QED BY <2>1, FieldsWhole DEF Settled, Owed
<1>6. TotalOwed = Total("grand") + Total("wallet")
  <2> DEFINE f == [s \in Seller |-> quote[s].grand]
             h == [s \in Seller |-> quote[s].wallet]
             e == [s \in Seller |-> Owed(s)]
  <2>1. \A s \in Seller : quote[s].grand \in Int /\ quote[s].wallet \in Int
    BY <1>1, FieldsWhole DEF TypeOK
  <2>2. f \in [Seller -> Int] /\ h \in [Seller -> Int] /\ e \in [Seller -> Int]
        /\ \A s \in Seller : e[s] = f[s] + h[s]
    BY <1>5, <2>1
  <2>3. Total("grand") = SumFunction(f) /\ Total("wallet") = SumFunction(h)
        /\ TotalOwed = SumFunction(e)
    BY DEF Total, TotalOwed
  <2>4. IsFiniteSet(Seller)
    BY <1>1, SellersFinite
  <2> HIDE DEF f, h, e
  <2> QED BY <2>2, <2>3, <2>4, SumAdd
<1>7. LastSeller \in Seller
  BY <1>1, SellersFinite
<1>8. ASSUME settings.walletReduces, discount <= CartSubtotal
      PROVE  2 * Deviation(Total("wallet"),
                           Least(request.wallet, Total("grand") + Total("wallet")))
               <= LastSeller - 1
                  + 2 * Below(quote[LastSeller].grand + quote[LastSeller].wallet)
  <2>1. Redeemable = Least(request.wallet, Total("grand") + Total("wallet"))
    BY <1>6, <1>8 DEF Redeemable, CappedWallet
  <2>2. Owed(LastSeller) = quote[LastSeller].grand + quote[LastSeller].wallet
    BY <1>5, <1>7
  <2>3. 2 * Deviation(Total("wallet"), Redeemable)
            <= LastSeller - 1 + 2 * Below(Owed(LastSeller))
    BY <1>1, <1>8, WalletSplit
  <2> QED BY <2>1, <2>2, <2>3
<1> QED BY <1>2, <1>4, <1>8

LEMMA InvPayable == PricingInv => PayableNotNegative
<1> SUFFICES ASSUME PricingInv, pc = "done", EngineApplies \/ request.discount <= CartSubtotal,
                    NEW s \in Seller
             PROVE  quote[s].payable >= -((LastSeller - 1) \div 2)
  BY DEF PayableNotNegative
<1>1. IInv /\ SumsInv /\ TipInv /\ WalletInv /\ TypeOK
  BY DEF PricingInv, IInv
<1>2. discount <= CartSubtotal
  BY <1>1 DEF SumsInv, WithinGoods
<1>3. /\ LastSeller \in Nat /\ LastSeller >= 1 /\ Seller = 1..LastSeller
  BY <1>1, SellersFinite
<1>4. PICK w \in Int, o \in Int, p \in Int : /\ w = quote[s].wallet /\ o = Owed(s)
                                             /\ p = quote[s].payable
  <2>1. quote[s] \in Breakdown
    BY <1>1 DEF TypeOK
  <2>2. quote[s].wallet \in Int /\ Owed(s) \in Int /\ quote[s].payable \in Int
    BY <2>1, FieldsWhole DEF Owed
  <2> QED BY <2>2
<1>5. p = o - w
  <2>1. quote[s] \in Breakdown /\ Settled(quote[s]) /\ quote[s].payable = quote[s].grand
    BY <1>1 DEF IInv, RowInv, TypeOK, Quoted, WalletInv
  <2> QED BY <1>4, <2>1, FieldsWhole DEF Settled, Owed
<1>6. /\ \A r \in Seller : r < LastSeller => Owed(r) \in Nat
      /\ 2 * Owed(LastSeller) >= -(LastSeller - 1)
      /\ TotalOwed \in Nat
  BY <1>1, <1>2, OwedNat
<1>7. CASE s < LastSeller
  <2>1. o \in Nat /\ Fair(w, o, Redeemable, TotalOwed)
    BY <1>1, <1>2, <1>4, <1>6, <1>7 DEF WalletInv
  <2>2. Redeemable \in Nat /\ Redeemable <= TotalOwed
    <3>1. request.wallet \in Nat
      BY <1>1 DEF TypeOK, Request
    <3> QED BY <1>6, <3>1 DEF Redeemable, CappedWallet, Least
  <2>3. w <= o
    <3>1. CASE TotalOwed > 0
      <4>1. PICK all \in Nat \ {0}, cash \in Nat : all = TotalOwed /\ cash = Redeemable
        BY <1>6, <2>2, <3>1
      <4>2. w \in Nearest(o * cash, all) /\ cash <= all
        BY <2>1, <2>2, <3>1, <4>1 DEF Fair
      <4> QED BY <2>1, <4>2, NearestAtMost
    <3>2. CASE ~(TotalOwed > 0)
      BY <2>1, <3>2 DEF Fair
    <3> QED BY <3>1, <3>2
  <2>4. (LastSeller - 1) \div 2 >= 0
    BY <1>3
  <2> QED BY <1>4, <1>5, <2>3, <2>4, <1>3
<1>8. CASE s = LastSeller
  <2>1. \E share : w = Part(share, o)
    BY <1>1, <1>2, <1>4, <1>8 DEF WalletInv
  <2>2. o >= 0 => w <= o
    BY <1>4, <2>1 DEF Part, Least
  <2>3. PICK share : w = Part(share, o)
    BY <2>1
  <2>4. 2 * o >= -(LastSeller - 1)
    BY <1>4, <1>6, <1>8
  <2>5. o < 0 => w = 0
    <3>1. PICK x \in Int : x = Redeemable - (Total("wallet") - quote[LastSeller].wallet)
      <4>1. request.wallet \in Nat /\ Total("wallet") \in Int
        BY <1>1, TotalInt DEF TypeOK, Request
      <4>2. Redeemable \in Int
        BY <1>6, <4>1 DEF Redeemable, CappedWallet, Least
      <4> QED BY <1>4, <1>8, <4>1, <4>2
    <3>2. w = Part(x, o)
      BY <1>1, <1>2, <1>4, <1>8, <3>1 DEF WalletInv
    <3> QED BY <1>4, <3>1, <3>2 DEF Part, Least
  <2>6. p >= -((LastSeller - 1) \div 2)
    <3>1. CASE o >= 0
      <4>1. (LastSeller - 1) \div 2 >= 0
        BY <1>3
      <4> QED BY <1>4, <1>5, <2>2, <3>1, <4>1, <1>3
    <3>2. CASE o < 0
      <4>1. p = o
        BY <1>4, <1>5, <2>5, <3>2
      <4> QED BY <1>3, <1>4, <2>4, <4>1
    <3> QED BY <1>4, <3>1, <3>2
  <2> QED BY <1>4, <2>6
<1> QED BY <1>3, <1>7, <1>8

(* A checkout is charged one handling fee, the highest of its categories', *)
(* for any cart, any rules and any strategy the sellers were priced by:    *)
(* where that fee is zero the sellers were not charged either, so that the *)
(* early return of applyGlobalHandlingFeeToSellerBreakdowns is harmless.   *)
THEOREM HandlingOnce == Spec => []HandlingChargedOnce
<1>1. PricingInv => HandlingChargedOnce
  BY DEF PricingInv, SumsInv
<1>2. QED
  BY <1>1, PricingAlways, PTL

(* The tip is divided without a remainder and the discount and the wallet  *)
(* money within the stated roundings, for any number of sellers.           *)
THEOREM SharesCorrect == Spec => []SharesAddUp
BY PricingAlways, InvAddsUp, PTL

(* No order is left with less to collect than what the rounding of a tip   *)
(* explains, for any number of sellers and any amounts, where the discount *)
(* is the engine's or the client's is not above the price of the goods.    *)
THEOREM PayableCorrect == Spec => []PayableNotNegative
BY PricingAlways, InvPayable, PTL
=============================================================================
