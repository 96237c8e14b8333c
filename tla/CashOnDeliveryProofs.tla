------------------------- MODULE CashOnDeliveryProofs -------------------------
(***************************************************************************)
(* Theorems about CashOnDelivery, for any number of riders, orders and     *)
(* handlers and any amounts: its types, that every delivered order is      *)
(* settled once, and that the wallets agree with what the orders owe.      *)
(*                                                                         *)
(* The wallets are compared with sums over the orders.  A sum is a fold of *)
(* the community modules, a recursive function over the parts of a finite  *)
(* set; what the proofs need of it comes first.                            *)
(***************************************************************************)
EXTENDS CashOnDelivery, FiniteSetTheorems, WellFoundedInduction, TLAPS

-----------------------------------------------------------------------------
(* Induction.                                                              *)

Some(T) == CHOOSE x \in T : TRUE

\* A set of natural numbers has a least member: the order is well founded.
LEMMA HasLeast ==
  ASSUME NEW T, T \subseteq Nat, T # {}
  PROVE \E x \in T : \A y \in T : x <= y
<1> DEFINE R == OpToRel(<, Nat)
<1>1. IsWellFoundedOn(R, Nat)
  BY NatLessThanWellFounded
<1>2. \A x \in Nat, y \in Nat : y < x => <<y, x>> \in R
  BY DEF OpToRel
<1> HIDE DEF R
<1>3. PICK x \in T : \A y \in T : ~(<<y, x>> \in R)
  BY <1>1, WFMin
<1>4. SUFFICES ASSUME NEW y \in T PROVE x <= y
  OBVIOUS
<1>5. x \in Nat /\ y \in Nat
  OBVIOUS
<1>6. ~(y < x)
  BY <1>2, <1>3, <1>5
<1> QED BY <1>5, <1>6

\* Induction over the natural numbers, with a set for the predicate.
LEMMA NatSetInduction ==
  ASSUME NEW P, 0 \in P, \A n \in Nat : n \in P => n + 1 \in P
  PROVE  \A n \in Nat : n \in P
<1>1. SUFFICES ASSUME Nat \ P # {} PROVE FALSE
  OBVIOUS
<1>2. PICK x \in Nat \ P : \A y \in Nat \ P : x <= y
  BY <1>1, HasLeast
<1>3. x \in Nat /\ x # 0 /\ x - 1 \in Nat /\ (x - 1) + 1 = x
  BY <1>2
<1>4. x - 1 \in P
  BY <1>2, <1>3
<1> QED BY <1>2, <1>3, <1>4

\* A set that has the empty set, and each part of S whenever it has that part
\* without some member, has every part of a finite S.
LEMMA SubsetInduction ==
  ASSUME NEW S, IsFiniteSet(S), NEW P, {} \in P,
         \A T \in SUBSET S : T # {} /\ T \ {Some(T)} \in P => T \in P
  PROVE  \A T \in SUBSET S : T \in P
<1> DEFINE Sizes == {n \in Nat : \E T \in SUBSET S : T \notin P /\ Cardinality(T) = n}
<1>1. SUFFICES ASSUME Sizes # {} PROVE FALSE
  <2>1. SUFFICES ASSUME NEW T \in SUBSET S, T \notin P PROVE Sizes # {}
    BY <1>1
  <2>2. Cardinality(T) \in Nat
    BY FS_Subset, FS_CardinalityType
  <2> QED BY <2>1, <2>2
<1>2. Sizes \subseteq Nat OBVIOUS
<1>3. PICK n \in Sizes : \A m \in Sizes : n <= m
  <2> HIDE DEF Sizes
  <2> QED BY <1>1, <1>2, HasLeast
<1>4. PICK T \in SUBSET S : T \notin P /\ Cardinality(T) = n
  BY <1>3
<1>5. T # {}
  BY <1>4
<1>6. Some(T) \in T
  BY <1>5 DEF Some
<1>7. IsFiniteSet(T) /\ IsFiniteSet(T \ {Some(T)})
  BY FS_Subset
<1>8. Cardinality(T \ {Some(T)}) = n - 1 /\ n - 1 \in Nat
  <2>1. Cardinality(T \ {Some(T)}) = Cardinality(T) - 1
    BY <1>6, <1>7, FS_RemoveElement
  <2>2. Cardinality(T \ {Some(T)}) \in Nat
    BY <1>7, FS_CardinalityType
  <2> QED BY <2>1, <2>2, <1>4
<1>9. T \ {Some(T)} \notin P
  BY <1>4, <1>5
<1>10. n - 1 \in Sizes
  BY <1>8, <1>9
<1>11. n \in Nat BY <1>2
<1> HIDE DEF Sizes
<1> QED BY <1>3, <1>10, <1>11

\* The function that the fold of the community modules defines by recursion.
IsSum(g, f, S) ==
    g = [T \in SUBSET S |-> IF T = {} THEN 0
                            ELSE LET x == CHOOSE x \in T : TRUE IN f[x] + g[T \ {x}]]

\* It exists: on the parts with at most n members, by induction over n.
LEMMA SumExists ==
  ASSUME NEW S, IsFiniteSet(S), NEW f
  PROVE  \E g : IsSum(g, f, S)
<1> DEFINE Small(n) == {T \in SUBSET S : Cardinality(T) <= n}
           Eq(g, U) == IF U = {} THEN 0 ELSE f[Some(U)] + g[U \ {Some(U)}]
           Ok(g, n) == g = [U \in Small(n) |-> Eq(g, U)]
           P == {n \in Nat : \E g : Ok(g, n)}
<1>1. \A T \in SUBSET S : IsFiniteSet(T) /\ Cardinality(T) \in Nat
  BY FS_Subset, FS_CardinalityType
<1>2. \A T \in SUBSET S : T # {} =>
          /\ T \ {Some(T)} \in SUBSET S
          /\ Cardinality(T \ {Some(T)}) = Cardinality(T) - 1
  <2>1. SUFFICES ASSUME NEW T \in SUBSET S, T # {}
        PROVE  /\ T \ {Some(T)} \in SUBSET S
               /\ Cardinality(T \ {Some(T)}) = Cardinality(T) - 1
    OBVIOUS
  <2>2. Some(T) \in T BY <2>1 DEF Some
  <2> QED BY <1>1, <2>2, FS_RemoveElement
<1>3. \A T \in SUBSET S : Cardinality(T) <= 0 => T = {}
  <2>1. SUFFICES ASSUME NEW T \in SUBSET S, Cardinality(T) <= 0 PROVE T = {}
    OBVIOUS
  <2>2. IsFiniteSet(T) /\ Cardinality(T) = 0
    BY <1>1, <2>1
  <2> QED BY <2>2, FS_EmptySet
<1>4. 0 \in P
  <2> DEFINE g == [U \in Small(0) |-> 0]
  <2>1. \A U \in Small(0) : Eq(g, U) = 0
    BY <1>3
  <2>2. Ok(g, 0)
    BY <2>1
  <2> QED BY <2>2
<1>5. ASSUME NEW n \in Nat, n \in P PROVE n + 1 \in P
  <2>1. PICK g : Ok(g, n)
    BY <1>5
  <2>2. PICK h : h = [U \in Small(n + 1) |-> Eq(g, U)]
    OBVIOUS
  <2>3. ASSUME NEW U \in Small(n + 1) PROVE Eq(h, U) = Eq(g, U)
    <3>1. CASE U = {}
      BY <3>1
    <3>2. CASE U # {}
      <4>1. U \ {Some(U)} \in Small(n) /\ U \ {Some(U)} \in Small(n + 1)
        BY <1>1, <1>2, <3>2
      <4>2. h[U \ {Some(U)}] = g[U \ {Some(U)}]
        <5> HIDE DEF Small
        <5>1. h[U \ {Some(U)}] = Eq(g, U \ {Some(U)})
          BY <2>2, <4>1
        <5>2. g[U \ {Some(U)}] = Eq(g, U \ {Some(U)})
          <6> HIDE DEF Eq
          <6> QED BY <2>1, <4>1
        <5> QED BY <5>1, <5>2
      <4> QED BY <4>2
    <3> QED BY <3>1, <3>2
  <2>4. h = [U \in Small(n + 1) |-> Eq(h, U)]
    <3> HIDE DEF Small, Eq
    <3> QED BY <2>2, <2>3
  <2>5. \E k : Ok(k, n + 1)
    BY <2>4
  <2> QED
    <3> HIDE DEF Ok
    <3> QED BY <2>5
<1>6. \A n \in Nat : n \in P
  <2> HIDE DEF P
  <2> QED BY <1>4, <1>5, NatSetInduction
<1>7. PICK g : Ok(g, Cardinality(S))
  BY <1>1, <1>6
<1>8. Small(Cardinality(S)) = SUBSET S
  <2>1. \A T \in SUBSET S : Cardinality(T) <= Cardinality(S)
    BY FS_Subset
  <2> QED BY <2>1
<1>9. g = [U \in SUBSET S |-> Eq(g, U)]
  <2> HIDE DEF Small
  <2> QED BY <1>7, <1>8
<1>10. IsSum(g, f, S)
  BY <1>9 DEF IsSum, Some
<1> QED BY <1>10

-----------------------------------------------------------------------------
Sum(f, S) == MapThenSumSet(LAMBDA x : f[x], S)

\* g[T] is the sum of f over T, for each part T of S.
PartialSums(g, f, S) ==
    /\ g[{}] = 0
    /\ \A T \in SUBSET S :
          T # {} => Some(T) \in T /\ g[T] = f[Some(T)] + g[T \ {Some(T)}]

LEMMA SumPartial ==
  ASSUME NEW S, IsFiniteSet(S), NEW f
  PROVE  \E g : PartialSums(g, f, S) /\ Sum(f, S) = g[S]
<1>1. PICK g : IsSum(g, f, S) /\ g = (CHOOSE k : IsSum(k, f, S))
  BY SumExists
<1>2. Sum(f, S) = g[S]
  BY <1>1 DEF Sum, MapThenSumSet, MapThenFoldSet, IsSum
<1>3. g[{}] = 0
  BY <1>1 DEF IsSum
<1>4. ASSUME NEW T \in SUBSET S, T # {}
      PROVE  Some(T) \in T /\ g[T] = f[Some(T)] + g[T \ {Some(T)}]
  BY <1>1, <1>4 DEF IsSum, Some
<1> QED BY <1>2, <1>3, <1>4 DEF PartialSums

\* What a sum of natural numbers is.
LEMMA SumNat ==
  ASSUME NEW S, IsFiniteSet(S), NEW f \in [S -> Nat]
  PROVE  Sum(f, S) \in Nat
<1>1. PICK g : PartialSums(g, f, S) /\ Sum(f, S) = g[S]
  BY SumPartial
<1> DEFINE P == {T \in SUBSET S : g[T] \in Nat}
<1>2. {} \in P
  BY <1>1 DEF PartialSums
<1>3. ASSUME NEW T \in SUBSET S, T # {}, T \ {Some(T)} \in P PROVE T \in P
  BY <1>1, <1>3 DEF PartialSums
<1>4. S \in P
  <2> HIDE DEF P
  <2> QED BY <1>2, <1>3, SubsetInduction
<1> QED BY <1>1, <1>4

\* Where one summand changes, the sum changes as much.
LEMMA SumChange ==
  ASSUME NEW S, IsFiniteSet(S), NEW f \in [S -> Int], NEW h \in [S -> Int], NEW y \in S,
         \A x \in S \ {y} : h[x] = f[x]
  PROVE  /\ Sum(f, S) \in Int
         /\ Sum(h, S) = Sum(f, S) + (h[y] - f[y])
<1>1. PICK g : PartialSums(g, f, S) /\ Sum(f, S) = g[S]
  BY SumPartial
<1>2. PICK k : PartialSums(k, h, S) /\ Sum(h, S) = k[S]
  BY SumPartial
<1> DEFINE P == {T \in SUBSET S : /\ g[T] \in Int
                                  /\ k[T] = g[T] + (IF y \in T THEN h[y] - f[y] ELSE 0)}
<1>3. {} \in P
  BY <1>1, <1>2 DEF PartialSums
<1>4. ASSUME NEW T \in SUBSET S, T # {}, T \ {Some(T)} \in P PROVE T \in P
  <2>1. PICK x \in T : /\ x = Some(T)
                       /\ g[T] = f[x] + g[T \ {x}]
                       /\ k[T] = h[x] + k[T \ {x}]
    BY <1>1, <1>2, <1>4 DEF PartialSums
  <2>2. /\ g[T \ {x}] \in Int
        /\ k[T \ {x}] = g[T \ {x}] + (IF y \in T \ {x} THEN h[y] - f[y] ELSE 0)
    BY <1>4, <2>1
  <2>3. f[x] \in Int /\ h[x] \in Int /\ f[y] \in Int /\ h[y] \in Int
    OBVIOUS
  <2>4. CASE x = y
    BY <2>1, <2>2, <2>3, <2>4
  <2>5. CASE x # y
    <3>1. h[x] = f[x] /\ (y \in T \ {x} <=> y \in T)
      BY <2>5
    <3> QED BY <2>1, <2>2, <2>3, <3>1
  <2> QED BY <2>4, <2>5
<1>5. S \in P
  <2> HIDE DEF P
  <2> QED BY <1>3, <1>4, SubsetInduction
<1> QED BY <1>1, <1>2, <1>5

\* Larger summands have a larger sum.
LEMMA SumMonotone ==
  ASSUME NEW S, IsFiniteSet(S), NEW f \in [S -> Int], NEW h \in [S -> Int],
         \A x \in S : f[x] <= h[x]
  PROVE  Sum(f, S) \in Int /\ Sum(h, S) \in Int /\ Sum(f, S) <= Sum(h, S)
<1>1. PICK g : PartialSums(g, f, S) /\ Sum(f, S) = g[S]
  BY SumPartial
<1>2. PICK k : PartialSums(k, h, S) /\ Sum(h, S) = k[S]
  BY SumPartial
<1> DEFINE P == {T \in SUBSET S : g[T] \in Int /\ k[T] \in Int /\ g[T] <= k[T]}
<1>3. {} \in P
  BY <1>1, <1>2 DEF PartialSums
<1>4. ASSUME NEW T \in SUBSET S, T # {}, T \ {Some(T)} \in P PROVE T \in P
  <2>1. PICK x \in T : /\ x = Some(T)
                       /\ g[T] = f[x] + g[T \ {x}]
                       /\ k[T] = h[x] + k[T \ {x}]
    BY <1>1, <1>2, <1>4 DEF PartialSums
  <2>2. f[x] \in Int /\ h[x] \in Int /\ f[x] <= h[x]
    OBVIOUS
  <2> QED BY <1>4, <2>1, <2>2
<1>5. S \in P
  <2> HIDE DEF P
  <2> QED BY <1>3, <1>4, SubsetInduction
<1> QED BY <1>1, <1>2, <1>5

\* A sum of zeros.
LEMMA SumZero ==
  ASSUME NEW S, IsFiniteSet(S), NEW f, \A x \in S : f[x] = 0
  PROVE  Sum(f, S) = 0
<1>1. PICK g : PartialSums(g, f, S) /\ Sum(f, S) = g[S]
  BY SumPartial
<1> DEFINE P == {T \in SUBSET S : g[T] = 0}
<1>2. {} \in P
  BY <1>1 DEF PartialSums
<1>3. ASSUME NEW T \in SUBSET S, T # {}, T \ {Some(T)} \in P PROVE T \in P
  BY <1>1, <1>3 DEF PartialSums
<1>4. S \in P
  <2> HIDE DEF P
  <2> QED BY <1>2, <1>3, SubsetInduction
<1> QED BY <1>1, <1>4

\* Functions with the same summands have the same sum.
LEMMA SumSame ==
  ASSUME NEW S, IsFiniteSet(S), NEW f, NEW h, \A x \in S : f[x] = h[x]
  PROVE  Sum(f, S) = Sum(h, S)
<1>1. PICK g : PartialSums(g, f, S) /\ Sum(f, S) = g[S]
  BY SumPartial
<1>2. PICK k : PartialSums(k, h, S) /\ Sum(h, S) = k[S]
  BY SumPartial
<1> DEFINE P == {T \in SUBSET S : g[T] = k[T]}
<1>3. {} \in P
  BY <1>1, <1>2 DEF PartialSums
<1>4. ASSUME NEW T \in SUBSET S, T # {}, T \ {Some(T)} \in P PROVE T \in P
  BY <1>1, <1>2, <1>4 DEF PartialSums
<1>5. S \in P
  <2> HIDE DEF P
  <2> QED BY <1>3, <1>4, SubsetInduction
<1> QED BY <1>1, <1>2, <1>5

-----------------------------------------------------------------------------
(* The constants and the rows.                                             *)

LEMMA OrdersFinite == IsFiniteSet(Orders) /\ 1 \in Orders /\ Orders \subseteq Nat
<1>1. IsFiniteSet(1..NumOrders)
  BY CashAmountAssumption, FS_Interval
<1>2. 1 \in 1..NumOrders /\ 1..NumOrders \subseteq Nat
  BY CashAmountAssumption
<1> QED BY <1>1, <1>2 DEF Orders

LEMMA TotalIsSum == ASSUME NEW f PROVE Total(f) = Sum(f, Orders)
  BY DEF Total, Sum

Labels == {"idle", "code", "miss", "consume", "deliver", "settle", "cash", "records",
           "remit", "record", "enter"}

LEMMA IdleOK ==
  /\ Idle \in Handlers
  /\ Idle.pc = "idle"
  BY OrdersFinite DEF Idle, Handlers

HistoryRows ==
    [settled : [Orders -> Nat], booked : [Orders -> Nat], mixed : SUBSET Riders]

LEMMA OtpRow ==
  ASSUME NEW r \in OtpRows
  PROVE  r.asked \in 0..MaxCodes /\ r.no \in 0..MaxCodes /\ r.open \in BOOLEAN
         /\ r.attempts \in 0..MaxTries
  BY DEF OtpRows

\* Every context but c is where it was.
Moves(c) ==
    /\ ctx' \in [Contexts -> Handlers]
    /\ \A d \in Contexts \ {c} : ctx'[d] = ctx[d]

LEMMA BeginMoves ==
  ASSUME TypeOK, NEW c \in Contexts, NEW h \in Handlers, Begin(c, h)
  PROVE  Moves(c) /\ ctx'[c] = h /\ ctx[c].pc = "idle"
  BY DEF TypeOK, Begin, Free, Moves

LEMMA GotoMoves ==
  ASSUME TypeOK, NEW c \in Contexts, NEW label \in Labels, Goto(c, label)
  PROVE  /\ Moves(c)
         /\ ctx'[c].pc = label /\ ctx'[c].o = ctx[c].o
<1>1. PICK h : h = [ctx[c] EXCEPT !.pc = label]
  OBVIOUS
<1>2. ctx[c] \in Handlers
  BY DEF TypeOK
<1>3. h \in Handlers /\ h.pc = label /\ h.o = ctx[c].o
  BY <1>1, <1>2 DEF Handlers, Labels
<1>4. ctx' = [ctx EXCEPT ![c] = h]
  BY <1>1, <1>2 DEF Goto
<1> QED BY <1>3, <1>4 DEF TypeOK, Moves

LEMMA DoneMoves ==
  ASSUME TypeOK, NEW c \in Contexts, Done(c)
  PROVE  Moves(c) /\ ctx'[c].pc = "idle"
  BY IdleOK DEF TypeOK, Done, Moves

-----------------------------------------------------------------------------
(* The inductive invariant.  A code that is being created was asked for; a *)
(* handler that is about to store a miss read fewer tries than there may   *)
(* be; one that remits has something left to remit, of its own rider.      *)

Creating(o) == {c \in Contexts : ctx[c].pc = "code" /\ ctx[c].o = o}

CodesWereAsked ==
    \A o \in Orders : otp[o].no + Cardinality(Creating(o)) <= otp[o].asked
MissesLeft == \A c \in Contexts : ctx[c].pc = "miss" => ctx[c].tries < MaxTries
RemitsLeft == \A c \in Contexts :
    ctx[c].pc = "remit" =>
        /\ \E o \in Orders : ctx[c].plan[o] > 0
        /\ \A o \in Orders : ctx[c].plan[o] > 0 => order[o].rider = ctx[c].rider

TypeInv == TypeOK /\ CodesWereAsked /\ MissesLeft
CashInv == TypeInv /\ RemitsLeft /\ DeliveredOrderSettled /\ CashInHandIsPending

LEMMA CreatingSize ==
  ASSUME NEW o
  PROVE  IsFiniteSet(Creating(o)) /\ Cardinality(Creating(o)) \in Nat
<1>1. Creating(o) \in SUBSET Contexts /\ IsFiniteSet(Contexts)
  BY CashBoundAssumption DEF Creating
<1>2. IsFiniteSet(Creating(o))
  BY <1>1, FS_Subset
<1> QED BY <1>2, FS_CardinalityType

\* A step that sends no handler to create a code.
LEMMA CodesKept ==
  ASSUME TypeOK, CodesWereAsked, NEW c \in Contexts, Moves(c), ctx'[c].pc # "code",
         otp' \in [Orders -> OtpRows],
         \A o \in Orders : otp'[o].no = otp[o].no /\ otp'[o].asked = otp[o].asked
  PROVE  CodesWereAsked'
<1>1. SUFFICES ASSUME NEW o \in Orders
               PROVE  otp'[o].no + Cardinality(Creating(o)') <= otp'[o].asked
  BY DEF CodesWereAsked
<1>2. Creating(o)' \in SUBSET Creating(o)
  BY DEF Creating, Moves
<1>3. Cardinality(Creating(o)') <= Cardinality(Creating(o))
  BY <1>2, CreatingSize, FS_Subset
<1>4. Cardinality(Creating(o)') \in Nat
  BY <1>2, CreatingSize, FS_Subset, FS_CardinalityType
<1>5. otp[o] \in OtpRows
  BY DEF TypeOK
<1>6. otp[o].no \in Nat /\ otp[o].asked \in Nat
  BY <1>5, OtpRow, CashBoundAssumption
<1>7. otp[o].no + Cardinality(Creating(o)) <= otp[o].asked
  BY DEF CodesWereAsked
<1>8. Cardinality(Creating(o)) \in Nat
  BY CreatingSize
<1>9. otp'[o].no = otp[o].no /\ otp'[o].asked = otp[o].asked
  OBVIOUS
<1> HIDE DEF Creating
<1> QED BY <1>3, <1>4, <1>6, <1>7, <1>8, <1>9

LEMMA MissesKept ==
  ASSUME MissesLeft, NEW c \in Contexts, Moves(c), ctx'[c].pc # "miss"
  PROVE  MissesLeft'
  BY DEF MissesLeft, Moves

LEMMA RemitsKept ==
  ASSUME RemitsLeft, NEW c \in Contexts, Moves(c), ctx'[c].pc # "remit",
         \A o \in Orders : order'[o].rider = order[o].rider
  PROVE  RemitsLeft'
  BY DEF RemitsLeft, Moves

LEMMA SettledKept ==
  ASSUME DeliveredOrderSettled, NEW c \in Contexts, Moves(c), TypeOK,
         faults' \in Nat,
         ctx[c].pc # "settle" \/ faults' > 0, faults' >= faults,
         \A o \in Orders : /\ order'[o].ws = order[o].ws
                           /\ order'[o].settled = order[o].settled
                           /\ history'.settled[o] = history.settled[o]
  PROVE  DeliveredOrderSettled'
<1>1. SUFFICES ASSUME NEW o \in Orders
               PROVE  /\ history'.settled[o] = (IF order'[o].settled THEN 1 ELSE 0)
                      /\ order'[o].settled => order'[o].ws = "DELIVERED"
                      /\ order'[o].ws = "DELIVERED" /\ ~order'[o].settled =>
                           faults' > 0 \/ \E d \in Contexts : ctx'[d].pc = "settle" /\ ctx'[d].o = o
  BY DEF DeliveredOrderSettled, Delivered, At
<1>2. /\ history.settled[o] = (IF order[o].settled THEN 1 ELSE 0)
      /\ order[o].settled => order[o].ws = "DELIVERED"
      /\ order[o].ws = "DELIVERED" /\ ~order[o].settled =>
            faults > 0 \/ \E d \in Contexts : ctx[d].pc = "settle" /\ ctx[d].o = o
  BY DEF DeliveredOrderSettled, Delivered, At
<1>3. faults \in Nat
  BY CashBoundAssumption DEF TypeOK
<1>4. ASSUME NEW d \in Contexts, ctx[d].pc = "settle", ctx[d].o = o, ~(faults' > 0)
      PROVE  ctx'[d].pc = "settle" /\ ctx'[d].o = o
  BY <1>4 DEF Moves
<1> QED BY <1>1, <1>2, <1>3, <1>4

-----------------------------------------------------------------------------
(* The sums of the wallets.                                                *)

Collected == [o \in Orders |-> order[o].codCollected]
Remitted  == [o \in Orders |-> order[o].codRemitted]
Open      == [o \in Orders |-> Pending(o)]
Dues(r)   == [o \in Orders |-> IF order[o].rider = r THEN Pending(o) ELSE 0]
InHands   == Sum(cashInHand, Riders)

\* The invariant in these terms.
CashSums ==
    /\ adminCash = Total(Remitted)
    /\ \A r \in Riders \ history.mixed : cashInHand[r] = Total(Dues(r))
    /\ InHands >= Total(Open)
    /\ \A o \in Orders : /\ history.booked[o] = (IF order[o].collected THEN 1 ELSE 0)
                         /\ order[o].codRemitted <= order[o].codCollected

LEMMA CashAsSums == CashInHandIsPending <=> CashSums
  BY DEF CashInHandIsPending, CashSums, Remitted, Open, Dues, Owed, InHands, Sum

LEMMA CashAsSumsNext == CashInHandIsPending' <=> CashSums'
  BY CashAsSums, PTL

LEMMA CashKept ==
  ASSUME CashInHandIsPending, UNCHANGED <<cashInHand, adminCash>>,
         history'.mixed = history.mixed,
         \A o \in Orders : /\ order'[o].collected = order[o].collected
                           /\ order'[o].codCollected = order[o].codCollected
                           /\ order'[o].rider = order[o].rider
                           /\ order'[o].codRemitted = order[o].codRemitted
                           /\ history'.booked[o] = history.booked[o]
  PROVE  CashInHandIsPending'
<1>1. CashSums
  BY CashAsSums
<1>2. Remitted' = Remitted /\ Open' = Open /\ InHands' = InHands
  BY DEF Remitted, Open, Pending, InHands
<1>3. ASSUME NEW r PROVE Dues(r)' = Dues(r)
  BY DEF Dues, Pending
<1>4. CashSums'
  BY <1>1, <1>2, <1>3 DEF CashSums
<1> QED BY <1>4, CashAsSumsNext

-----------------------------------------------------------------------------
(* Initial states.                                                         *)

LEMMA TotalOfZeros ==
  ASSUME NEW f, \A o \in Orders : f[o] = 0
  PROVE  Total(f) = 0
  BY OrdersFinite, SumZero, TotalIsSum

LEMMA InitInv == Init => CashInv
<1>1. SUFFICES ASSUME Init PROVE CashInv
  OBVIOUS
<1>2. TypeOK
  <2>1. otp \in [Orders -> OtpRows]
    BY <1>1, CashBoundAssumption DEF Init, OtpRows
  <2>2. order \in [Orders -> OrderRows]
    <3>1. PICK riderOf \in [Orders -> Riders] :
            order = [o \in Orders |-> [rider |-> riderOf[o], ws |-> "OUT_FOR_DELIVERY",
                                      settled |-> FALSE, collected |-> FALSE,
                                      codCollected |-> 0, codRemitted |-> 0]]
      BY <1>1 DEF Init
    <3> QED BY <3>1 DEF OrderRows
  <2>3. ctx \in [Contexts -> Handlers]
    BY <1>1, IdleOK DEF Init
  <2>4. /\ txns \in [collected : SUBSET Orders, handed : [Riders -> Nat]]
        /\ history \in HistoryRows
    BY <1>1 DEF Init, HistoryRows
  <2> QED BY <1>1, <2>1, <2>2, <2>3, <2>4, CashBoundAssumption DEF Init, TypeOK
<1>3. \A c \in Contexts : ctx[c].pc = "idle"
  BY <1>1, IdleOK DEF Init
<1>4. CodesWereAsked
  <2>1. SUFFICES ASSUME NEW o \in Orders
                 PROVE  otp[o].no + Cardinality(Creating(o)) <= otp[o].asked
    BY DEF CodesWereAsked
  <2>2. Creating(o) = {}
    BY <1>3 DEF Creating
  <2>3. Cardinality(Creating(o)) = 0
    BY <2>2, FS_EmptySet
  <2>4. otp[o].no = 0 /\ otp[o].asked = 0
    BY <1>1 DEF Init
  <2> QED BY <2>3, <2>4
<1>5. MissesLeft /\ RemitsLeft
  BY <1>3 DEF MissesLeft, RemitsLeft
<1>6. DeliveredOrderSettled
  BY <1>1 DEF Init, DeliveredOrderSettled, Delivered
<1>7. CashInHandIsPending
  <2>1. \A o \in Orders : order[o].codCollected = 0 /\ order[o].codRemitted = 0
                          /\ ~order[o].collected /\ history.booked[o] = 0
    BY <1>1 DEF Init
  <2>2. Total(Remitted) = 0 /\ Total(Open) = 0
    BY <2>1, TotalOfZeros DEF Remitted, Open, Pending
  <2>3. ASSUME NEW r PROVE Total(Dues(r)) = 0
    BY <2>1, TotalOfZeros DEF Dues, Pending
  <2>4. adminCash = 0 /\ \A r \in Riders : cashInHand[r] = 0
    BY <1>1 DEF Init
  <2>5. InHands = 0
    BY <2>4, SumZero, CashBoundAssumption DEF InHands
  <2>6. CashSums
    BY <2>1, <2>2, <2>3, <2>4, <2>5 DEF CashSums
  <2> QED BY <2>6, CashAsSums
<1> QED BY <1>2, <1>4, <1>5, <1>6, <1>7 DEF CashInv, TypeInv

-----------------------------------------------------------------------------
(* The rows after a write.                                                 *)

LEMMA OrderRow ==
  ASSUME TypeOK, NEW o \in Orders
  PROVE  /\ order[o] \in OrderRows
         /\ order[o].rider \in Riders
         /\ order[o].ws \in {"OUT_FOR_DELIVERY", "DELIVERED"}
         /\ order[o].settled \in BOOLEAN /\ order[o].collected \in BOOLEAN
         /\ order[o].codCollected \in Nat /\ order[o].codRemitted \in Nat
  BY DEF TypeOK, OrderRows

LEMMA OrderWrite ==
  ASSUME TypeOK, NEW o \in Orders, NEW row \in OrderRows, order' = [order EXCEPT ![o] = row]
  PROVE  /\ order' \in [Orders -> OrderRows] /\ order'[o] = row
         /\ \A p \in Orders \ {o} : order'[p] = order[p]
  BY DEF TypeOK

LEMMA OrderDelivers ==
  ASSUME TypeOK, NEW o \in Orders, order' = [order EXCEPT ![o].ws = "DELIVERED"]
  PROVE  /\ order' \in [Orders -> OrderRows]
         /\ \A p \in Orders \ {o} : order'[p] = order[p]
         /\ order'[o].ws = "DELIVERED" /\ order'[o].settled = order[o].settled
         /\ order'[o].collected = order[o].collected
         /\ order'[o].codCollected = order[o].codCollected
         /\ order'[o].codRemitted = order[o].codRemitted
         /\ order'[o].rider = order[o].rider
<1>1. PICK row : row = [order[o] EXCEPT !.ws = "DELIVERED"]
  OBVIOUS
<1>2. row \in OrderRows /\ row.ws = "DELIVERED" /\ row.settled = order[o].settled
      /\ row.collected = order[o].collected /\ row.codCollected = order[o].codCollected
      /\ row.codRemitted = order[o].codRemitted /\ row.rider = order[o].rider
  BY <1>1, OrderRow DEF OrderRows
<1>3. order' = [order EXCEPT ![o] = row]
  BY <1>1
<1> QED BY <1>2, <1>3, OrderWrite

LEMMA OrderSettles ==
  ASSUME TypeOK, NEW o \in Orders,
         order' = [order EXCEPT ![o].ws = "DELIVERED", ![o].settled = TRUE]
  PROVE  /\ order' \in [Orders -> OrderRows]
         /\ \A p \in Orders \ {o} : order'[p] = order[p]
         /\ order'[o].ws = "DELIVERED" /\ order'[o].settled
         /\ order'[o].collected = order[o].collected
         /\ order'[o].codCollected = order[o].codCollected
         /\ order'[o].codRemitted = order[o].codRemitted
         /\ order'[o].rider = order[o].rider
<1>1. PICK row : row = [order[o] EXCEPT !.ws = "DELIVERED", !.settled = TRUE]
  OBVIOUS
<1>2. row \in OrderRows /\ row.ws = "DELIVERED" /\ row.settled
      /\ row.collected = order[o].collected /\ row.codCollected = order[o].codCollected
      /\ row.codRemitted = order[o].codRemitted /\ row.rider = order[o].rider
  BY <1>1, OrderRow DEF OrderRows
<1>3. order' = [order EXCEPT ![o] = row]
  BY <1>1 DEF TypeOK
<1> QED BY <1>2, <1>3, OrderWrite

LEMMA OrderBooks ==
  ASSUME TypeOK, NEW o \in Orders, NEW n \in Nat,
         order' = [order EXCEPT ![o].collected = TRUE, ![o].codCollected = @ + n]
  PROVE  /\ order' \in [Orders -> OrderRows]
         /\ \A p \in Orders \ {o} : order'[p] = order[p]
         /\ order'[o].ws = order[o].ws /\ order'[o].settled = order[o].settled
         /\ order'[o].collected
         /\ order'[o].codCollected = order[o].codCollected + n
         /\ order'[o].codRemitted = order[o].codRemitted
         /\ order'[o].rider = order[o].rider
<1>1. PICK m \in Nat : m = order[o].codCollected + n
  BY OrderRow
<1>2. PICK row : row = [order[o] EXCEPT !.collected = TRUE, !.codCollected = m]
  OBVIOUS
<1>3. row \in OrderRows /\ row.ws = order[o].ws /\ row.settled = order[o].settled
      /\ row.collected /\ row.codCollected = m /\ row.codRemitted = order[o].codRemitted
      /\ row.rider = order[o].rider
  BY <1>2, OrderRow DEF OrderRows
<1>4. order' = [order EXCEPT ![o] = row]
  BY <1>1, <1>2 DEF TypeOK
<1> QED BY <1>1, <1>3, <1>4, OrderWrite

LEMMA OrderRemits ==
  ASSUME TypeOK, NEW o \in Orders, NEW n \in Nat,
         order' = [order EXCEPT ![o].codRemitted = @ + n]
  PROVE  /\ order' \in [Orders -> OrderRows]
         /\ \A p \in Orders \ {o} : order'[p] = order[p]
         /\ order'[o].ws = order[o].ws /\ order'[o].settled = order[o].settled
         /\ order'[o].collected = order[o].collected
         /\ order'[o].codCollected = order[o].codCollected
         /\ order'[o].codRemitted = order[o].codRemitted + n
         /\ order'[o].rider = order[o].rider
<1>1. PICK m \in Nat : m = order[o].codRemitted + n
  BY OrderRow
<1>2. PICK row : row = [order[o] EXCEPT !.codRemitted = m]
  OBVIOUS
<1>3. row \in OrderRows /\ row.ws = order[o].ws /\ row.settled = order[o].settled
      /\ row.collected = order[o].collected
      /\ row.codCollected = order[o].codCollected /\ row.codRemitted = m
      /\ row.rider = order[o].rider
  BY <1>2, OrderRow DEF OrderRows
<1>4. order' = [order EXCEPT ![o] = row]
  BY <1>1, <1>2 DEF TypeOK
<1> QED BY <1>1, <1>3, <1>4, OrderWrite

-----------------------------------------------------------------------------
(* Steps that write neither an order nor a wallet.                         *)

LEMMA BoundsOK ==
  ASSUME TypeOK
  PROVE  settlements \in Nat /\ faults \in Nat /\ faults \in 0..MaxFaults
         /\ settlements \in 0..MaxSettlements
  BY CashBoundAssumption DEF TypeOK

LEMMA OtpKept ==
  ASSUME TypeOK, UNCHANGED otp
  PROVE  /\ otp' \in [Orders -> OtpRows]
         /\ \A o \in Orders : otp'[o].no = otp[o].no /\ otp'[o].asked = otp[o].asked
  BY DEF TypeOK

LEMMA OtpOpens ==
  ASSUME TypeOK, NEW o \in Orders, NEW open \in BOOLEAN, otp' = [otp EXCEPT ![o].open = open]
  PROVE  /\ otp' \in [Orders -> OtpRows]
         /\ \A p \in Orders : otp'[p].no = otp[p].no /\ otp'[p].asked = otp[p].asked
<1>1. PICK row : row = [otp[o] EXCEPT !.open = open]
  OBVIOUS
<1>2. otp[o] \in OtpRows
  BY DEF TypeOK
<1>3. row \in OtpRows /\ row.no = otp[o].no /\ row.asked = otp[o].asked
  BY <1>1, <1>2 DEF OtpRows
<1>4. otp' = [otp EXCEPT ![o] = row]
  BY <1>1
<1> QED BY <1>3, <1>4 DEF TypeOK

LEMMA OtpMisses ==
  ASSUME TypeOK, NEW o \in Orders, NEW n \in 0..MaxTries, otp' = [otp EXCEPT ![o].attempts = n]
  PROVE  /\ otp' \in [Orders -> OtpRows]
         /\ \A p \in Orders : otp'[p].no = otp[p].no /\ otp'[p].asked = otp[p].asked
<1>1. PICK row : row = [otp[o] EXCEPT !.attempts = n]
  OBVIOUS
<1>2. otp[o] \in OtpRows
  BY DEF TypeOK
<1>3. row \in OtpRows /\ row.no = otp[o].no /\ row.asked = otp[o].asked
  BY <1>1, <1>2 DEF OtpRows
<1>4. otp' = [otp EXCEPT ![o] = row]
  BY <1>1
<1> QED BY <1>3, <1>4 DEF TypeOK

LEMMA QuietStep ==
  ASSUME CashInv, NEW c \in Contexts, Moves(c), ctx'[c].pc \notin {"code", "miss", "remit"},
         ctx[c].pc # "settle" \/ faults' > 0,
         otp' \in [Orders -> OtpRows],
         \A o \in Orders : otp'[o].no = otp[o].no /\ otp'[o].asked = otp[o].asked,
         txns' \in [collected : SUBSET Orders, handed : [Riders -> Nat]],
         UNCHANGED <<order, cashInHand, adminCash, history>>,
         settlements' \in 0..MaxSettlements, faults' \in 0..MaxFaults, faults' >= faults
  PROVE  CashInv'
<1>0. TypeOK /\ CodesWereAsked /\ MissesLeft /\ RemitsLeft /\ DeliveredOrderSettled
      /\ CashInHandIsPending
  BY DEF CashInv, TypeInv
<1>1. TypeOK'
  BY <1>0 DEF TypeOK, Moves
<1>2. CodesWereAsked'
  BY <1>0, CodesKept
<1>3. MissesLeft' /\ RemitsLeft'
  BY <1>0, MissesKept, RemitsKept
<1>4. DeliveredOrderSettled'
  <2>1. faults' \in Nat
    BY CashBoundAssumption
  <2> QED BY <1>0, <2>1, SettledKept
<1>5. CashInHandIsPending'
  BY <1>0, CashKept
<1> QED BY <1>1, <1>2, <1>3, <1>4, <1>5 DEF CashInv, TypeInv

LEMMA TypesOfInv ==
  ASSUME CashInv
  PROVE  TypeOK /\ CodesWereAsked /\ MissesLeft /\ RemitsLeft /\ DeliveredOrderSettled
         /\ CashInHandIsPending
  BY DEF CashInv, TypeInv

LEMMA TxnsOK ==
  ASSUME TypeOK
  PROVE  txns \in [collected : SUBSET Orders, handed : [Riders -> Nat]]
  BY DEF TypeOK

LEMMA CtxOK ==
  ASSUME TypeOK, NEW c \in Contexts
  PROVE  /\ ctx[c] \in Handlers /\ ctx[c].o \in Orders /\ ctx[c].tries \in Nat
         /\ ctx[c].amount \in Nat /\ ctx[c].plan \in [Orders -> Nat]
  BY DEF TypeOK, Handlers

LEMMA SaveMissInv ==
  ASSUME CashInv, NEW c \in Contexts, SaveMiss(c)
  PROVE  CashInv'
<1>1. TypeOK /\ ctx[c].pc = "miss"
  BY TypesOfInv DEF SaveMiss, At
<1>2. ctx[c].o \in Orders /\ ctx[c].tries \in Nat /\ ctx[c].tries < MaxTries
  BY <1>1, TypesOfInv, CtxOK DEF MissesLeft
<1>3. PICK n \in 0..MaxTries : n = ctx[c].tries + 1
  BY <1>2, CashBoundAssumption
<1>4. /\ otp' \in [Orders -> OtpRows]
      /\ \A o \in Orders : otp'[o].no = otp[o].no /\ otp'[o].asked = otp[o].asked
  <2>1. CASE otp[ctx[c].o].no = ctx[c].amount
    <3>1. otp' = [otp EXCEPT ![ctx[c].o].attempts = n]
      BY <1>3, <2>1 DEF SaveMiss
    <3> QED BY <1>1, <1>2, <3>1, OtpMisses
  <2>2. CASE otp[ctx[c].o].no # ctx[c].amount
    BY <1>1, <2>2, OtpKept DEF SaveMiss
  <2> QED BY <2>1, <2>2
<1>5. Moves(c) /\ ctx'[c].pc = "idle"
  BY <1>1, DoneMoves DEF SaveMiss
<1>6. UNCHANGED <<order, cashInHand, adminCash, txns, history, settlements, faults>>
  BY DEF SaveMiss, money, bounds
<1> QED BY <1>1, <1>4, <1>5, <1>6, QuietStep, BoundsOK, TxnsOK

LEMMA ConsumeCodeInv ==
  ASSUME CashInv, NEW c \in Contexts, ConsumeCode(c)
  PROVE  CashInv'
<1>1. TypeOK /\ ctx[c].pc = "consume" /\ ctx[c].o \in Orders
  BY TypesOfInv, CtxOK DEF ConsumeCode, At
<1>4. /\ otp' \in [Orders -> OtpRows]
      /\ \A o \in Orders : otp'[o].no = otp[o].no /\ otp'[o].asked = otp[o].asked
  <2>1. CASE otp[ctx[c].o].no = ctx[c].amount
    <3>1. otp' = [otp EXCEPT ![ctx[c].o].open = FALSE]
      BY <2>1 DEF ConsumeCode
    <3> QED BY <1>1, <3>1, OtpOpens
  <2>2. CASE otp[ctx[c].o].no # ctx[c].amount
    BY <1>1, <2>2, OtpKept DEF ConsumeCode
  <2> QED BY <2>1, <2>2
<1>5. Moves(c) /\ ctx'[c].pc = "deliver"
  <2>1. "deliver" \in Labels BY DEF Labels
  <2> QED BY <1>1, <2>1, GotoMoves DEF ConsumeCode
<1>6. UNCHANGED <<order, cashInHand, adminCash, txns, history, settlements, faults>>
  BY DEF ConsumeCode, money, bounds
<1> QED BY <1>1, <1>4, <1>5, <1>6, QuietStep, BoundsOK, TxnsOK

LEMMA StatusDeliveredInv ==
  ASSUME CashInv, NEW c \in Contexts, NEW o \in Orders, StatusDelivered(c, o)
  PROVE  CashInv'
<1>1. TypeOK
  BY TypesOfInv
<1>2. PICK h : h = [Idle EXCEPT !.pc = "deliver", !.by = "status", !.o = o]
  OBVIOUS
<1>5. h \in Handlers /\ h.pc = "deliver"
  BY <1>2, IdleOK DEF Handlers
<1>6. Begin(c, h)
  BY <1>2 DEF StatusDelivered
<1>3. Moves(c) /\ ctx'[c].pc = "deliver" /\ ctx[c].pc = "idle"
  BY <1>1, <1>5, <1>6, BeginMoves
<1>4. UNCHANGED <<otp, order, cashInHand, adminCash, txns, history, settlements, faults>>
  BY DEF StatusDelivered, money, bounds
<1> QED BY <1>1, <1>3, <1>4, QuietStep, BoundsOK, TxnsOK, OtpKept

LEMMA EndpointDeliveredInv ==
  ASSUME CashInv, NEW c \in Contexts, NEW o \in Orders, EndpointDelivered(c, o)
  PROVE  CashInv'
<1>1. TypeOK
  BY TypesOfInv
<1>2. PICK h : h = [Idle EXCEPT !.pc = "settle", !.by = "endpoint", !.o = o]
  OBVIOUS
<1>5. h \in Handlers /\ h.pc = "settle"
  BY <1>2, IdleOK DEF Handlers
<1>6. Begin(c, h)
  BY <1>2 DEF EndpointDelivered
<1>3. Moves(c) /\ ctx'[c].pc = "settle" /\ ctx[c].pc = "idle"
  BY <1>1, <1>5, <1>6, BeginMoves
<1>4. UNCHANGED <<otp, order, cashInHand, adminCash, txns, history, settlements, faults>>
  BY DEF EndpointDelivered, money, bounds
<1> QED BY <1>1, <1>3, <1>4, QuietStep, BoundsOK, TxnsOK, OtpKept

LEMMA CheckSettlementInv ==
  ASSUME CashInv, NEW c \in Contexts, NEW r \in Riders, NEW amount \in Nat,
         CheckSettlement(c, r, amount)
  PROVE  CashInv'
<1>1. TypeOK
  BY TypesOfInv
<1>2. PICK h : h = [Idle EXCEPT !.pc = "enter", !.rider = r, !.amount = amount]
  OBVIOUS
<1>6. h \in Handlers /\ h.pc = "enter"
  BY <1>2, IdleOK DEF Handlers
<1>7. Begin(c, h)
  BY <1>2 DEF CheckSettlement
<1>3. Moves(c) /\ ctx'[c].pc = "enter" /\ ctx[c].pc = "idle"
  BY <1>1, <1>6, <1>7, BeginMoves
<1>4. UNCHANGED <<otp, order, cashInHand, adminCash, txns, history, faults>>
  BY DEF CheckSettlement, money
<1>5. settlements' \in 0..MaxSettlements
  BY <1>1, BoundsOK, CashBoundAssumption DEF CheckSettlement
<1> QED BY <1>1, <1>3, <1>4, <1>5, QuietStep, BoundsOK, TxnsOK, OtpKept

LEMMA CashFailsInv ==
  ASSUME CashInv, NEW c \in Contexts, CashFails(c)
  PROVE  CashInv'
<1>1. TypeOK /\ ctx[c].pc = "cash"
  BY TypesOfInv DEF CashFails, At
<1>2. Moves(c) /\ ctx'[c].pc \in {"idle", "records"}
  <2>1. "records" \in Labels BY DEF Labels
  <2> QED BY <1>1, <2>1, GotoMoves, DoneMoves DEF CashFails
<1>3. UNCHANGED <<otp, order, cashInHand, adminCash, txns, history, settlements>>
  BY DEF CashFails, money
<1>4. faults' \in 0..MaxFaults /\ faults' >= faults
  BY <1>1, BoundsOK, CashBoundAssumption DEF CashFails
<1> QED BY <1>1, <1>2, <1>3, <1>4, QuietStep, BoundsOK, TxnsOK, OtpKept

LEMMA CrashInv ==
  ASSUME CashInv, NEW c \in Contexts, Crash(c)
  PROVE  CashInv'
<1>1. TypeOK
  BY TypesOfInv
<1>2. Moves(c) /\ ctx'[c].pc = "idle"
  BY <1>1, DoneMoves DEF Crash
<1>3. UNCHANGED <<otp, order, cashInHand, adminCash, txns, history, settlements>>
  BY DEF Crash, money
<1>4. faults' \in 0..MaxFaults /\ faults' >= faults /\ faults' > 0
  BY <1>1, BoundsOK, CashBoundAssumption DEF Crash
<1> QED BY <1>1, <1>2, <1>3, <1>4, QuietStep, BoundsOK, TxnsOK, OtpKept

LEMMA WriteRecordsInv ==
  ASSUME CashInv, NEW c \in Contexts, WriteRecords(c)
  PROVE  CashInv'
<1>1. TypeOK /\ ctx[c].pc = "records" /\ ctx[c].o \in Orders
  BY TypesOfInv, CtxOK DEF WriteRecords, At
<1>2. Moves(c) /\ ctx'[c].pc = "idle"
  BY <1>1, DoneMoves DEF WriteRecords
<1>3. txns' \in [collected : SUBSET Orders, handed : [Riders -> Nat]]
  BY <1>1, TxnsOK DEF WriteRecords
<1>4. UNCHANGED <<otp, order, cashInHand, adminCash, history, settlements, faults>>
  BY DEF WriteRecords, bounds
<1> QED BY <1>1, <1>2, <1>3, <1>4, QuietStep, BoundsOK, OtpKept

LEMMA HandedOK ==
  ASSUME TypeOK, NEW r, NEW n \in Nat, txns' = [txns EXCEPT !.handed[r] = @ + n]
  PROVE  txns' \in [collected : SUBSET Orders, handed : [Riders -> Nat]]
<1>1. PICK f : f = [txns.handed EXCEPT ![r] = txns.handed[r] + n]
  OBVIOUS
<1>2. f \in [Riders -> Nat]
  <2>1. txns.handed \in [Riders -> Nat]
    BY TxnsOK
  <2>2. CASE r \in Riders
    <3>1. txns.handed[r] + n \in Nat
      BY <2>1, <2>2
    <3> QED BY <1>1, <2>1, <3>1
  <2>3. CASE r \notin Riders
    BY <1>1, <2>1, <2>3
  <2> QED BY <2>2, <2>3
<1>3. txns' = [txns EXCEPT !.handed = f]
  BY <1>1, TxnsOK
<1> QED BY <1>2, <1>3, TxnsOK

LEMMA RecordSubmissionInv ==
  ASSUME CashInv, NEW c \in Contexts, RecordSubmission(c)
  PROVE  CashInv'
<1>1. TypeOK /\ ctx[c].pc = "record" /\ ctx[c].amount \in Nat
  BY TypesOfInv, CtxOK DEF RecordSubmission, At
<1>2. Moves(c) /\ ctx'[c].pc = "idle"
  BY <1>1, DoneMoves DEF RecordSubmission
<1>3. txns' \in [collected : SUBSET Orders, handed : [Riders -> Nat]]
  BY <1>1, HandedOK DEF RecordSubmission
<1>4. UNCHANGED <<otp, order, cashInHand, adminCash, history, settlements, faults>>
  BY DEF RecordSubmission, bounds
<1> QED BY <1>1, <1>2, <1>3, <1>4, QuietStep, BoundsOK, OtpKept

LEMMA EnterSettlementInv ==
  ASSUME CashInv, NEW c \in Contexts, EnterSettlement(c)
  PROVE  CashInv'
<1>1. TypeOK /\ ctx[c].pc = "enter" /\ ctx[c].amount \in Nat
  BY TypesOfInv, CtxOK DEF EnterSettlement, At
<1>2. Moves(c) /\ ctx'[c].pc = "idle"
  BY <1>1, DoneMoves DEF EnterSettlement
<1>3. txns' \in [collected : SUBSET Orders, handed : [Riders -> Nat]]
  BY <1>1, HandedOK DEF EnterSettlement
<1>4. UNCHANGED <<otp, order, cashInHand, adminCash, history, settlements, faults>>
  BY DEF EnterSettlement, bounds
<1> QED BY <1>1, <1>2, <1>3, <1>4, QuietStep, BoundsOK, OtpKept

-----------------------------------------------------------------------------
(* The code.                                                               *)

LEMMA CreatingStep ==
  ASSUME TypeOK, NEW c \in Contexts, NEW o \in Orders, Moves(c)
  PROVE  /\ ctx'[c].pc = "code" /\ ctx'[c].o = o => Cardinality(Creating(o)') <= Cardinality(Creating(o)) + 1
         /\ ~(ctx'[c].pc = "code" /\ ctx'[c].o = o) => Cardinality(Creating(o)') <= Cardinality(Creating(o))
         /\ ~(ctx'[c].pc = "code" /\ ctx'[c].o = o) /\ c \in Creating(o)
              => Cardinality(Creating(o)') <= Cardinality(Creating(o)) - 1
         /\ Cardinality(Creating(o)') \in Nat
<1>1. IsFiniteSet(Creating(o)) /\ Cardinality(Creating(o)) \in Nat
  BY CreatingSize
<1>2. Creating(o)' \in SUBSET (Creating(o) \cup {c})
  BY DEF Creating, Moves
<1>3. /\ IsFiniteSet(Creating(o) \cup {c})
      /\ Cardinality(Creating(o) \cup {c}) <= Cardinality(Creating(o)) + 1
  <2>1. /\ IsFiniteSet(Creating(o) \cup {c})
        /\ Cardinality(Creating(o) \cup {c})
             = IF c \in Creating(o) THEN Cardinality(Creating(o)) ELSE Cardinality(Creating(o)) + 1
    BY <1>1, FS_AddElement
  <2> HIDE DEF Creating
  <2> QED BY <1>1, <2>1
<1>4. /\ Cardinality(Creating(o)') <= Cardinality(Creating(o) \cup {c})
      /\ IsFiniteSet(Creating(o)')
  BY <1>2, <1>3, FS_Subset
<1>5. Cardinality(Creating(o)') \in Nat
  BY <1>4, FS_CardinalityType
<1>6. Cardinality(Creating(o) \cup {c}) \in Nat
  BY <1>3, FS_CardinalityType
<1>7. Cardinality(Creating(o)') <= Cardinality(Creating(o)) + 1
  <2> HIDE DEF Creating
  <2> QED BY <1>1, <1>3, <1>4, <1>5, <1>6
<1>8. ASSUME ~(ctx'[c].pc = "code" /\ ctx'[c].o = o)
      PROVE  Creating(o)' \in SUBSET (Creating(o) \ {c})
  BY <1>8 DEF Creating, Moves
<1>9. /\ IsFiniteSet(Creating(o) \ {c})
      /\ Cardinality(Creating(o) \ {c})
           = IF c \in Creating(o) THEN Cardinality(Creating(o)) - 1 ELSE Cardinality(Creating(o))
  BY <1>1, FS_RemoveElement
<1>10. ASSUME ~(ctx'[c].pc = "code" /\ ctx'[c].o = o)
       PROVE  Cardinality(Creating(o)') <= Cardinality(Creating(o) \ {c})
  BY <1>8, <1>9, <1>10, FS_Subset
<1> HIDE DEF Creating
<1> QED BY <1>1, <1>5, <1>7, <1>9, <1>10

LEMMA OtpNumbers ==
  ASSUME TypeOK, NEW o \in Orders
  PROVE  /\ otp[o] \in OtpRows /\ otp[o].no \in Nat /\ otp[o].asked \in Nat
         /\ otp[o].attempts \in Nat
         /\ otp[o].no <= MaxCodes /\ otp[o].asked <= MaxCodes /\ otp[o].attempts <= MaxTries
<1>1. otp[o] \in OtpRows
  BY DEF TypeOK
<1> QED BY <1>1, OtpRow, CashBoundAssumption

\* A step of the codes: what they are is left to say.
LEMMA CodeStep ==
  ASSUME CashInv, NEW c \in Contexts, Moves(c), ctx[c].pc # "settle", ctx'[c].pc # "remit",
         otp' \in [Orders -> OtpRows], CodesWereAsked', MissesLeft',
         UNCHANGED <<order, cashInHand, adminCash, txns, history, settlements, faults>>
  PROVE  CashInv'
<1>0. TypeOK /\ RemitsLeft /\ DeliveredOrderSettled /\ CashInHandIsPending
  BY TypesOfInv
<1>1. TypeOK'
  BY <1>0 DEF TypeOK, Moves
<1>3. RemitsLeft'
  BY <1>0, RemitsKept
<1>4. DeliveredOrderSettled'
  <2>1. faults' \in Nat /\ faults' >= faults
    BY <1>0, BoundsOK
  <2> QED BY <1>0, <2>1, SettledKept
<1>5. CashInHandIsPending'
  BY <1>0, CashKept
<1> QED BY <1>1, <1>3, <1>4, <1>5 DEF CashInv, TypeInv

LEMMA RequestCodeInv ==
  ASSUME CashInv, NEW c \in Contexts, NEW o \in Orders, RequestCode(c, o)
  PROVE  CashInv'
<1>1. TypeOK /\ CodesWereAsked /\ MissesLeft
  BY TypesOfInv
<1>2. PICK h : h = [Idle EXCEPT !.pc = "code", !.o = o]
  OBVIOUS
<1>3. h \in Handlers /\ h.pc = "code" /\ h.o = o
  BY <1>2, IdleOK DEF Handlers
<1>4. Begin(c, h)
  BY <1>2 DEF RequestCode
<1>5. Moves(c) /\ ctx'[c] = h /\ ctx[c].pc = "idle"
  BY <1>1, <1>3, <1>4, BeginMoves
<1>6. PICK n \in 0..MaxCodes : n = otp[o].asked + 1
  BY <1>1, OtpNumbers, CashBoundAssumption DEF RequestCode
<1>7. PICK row : row = [otp[o] EXCEPT !.asked = n, !.open = FALSE]
  OBVIOUS
<1>8. row \in OtpRows /\ row.asked = n /\ row.no = otp[o].no
  BY <1>1, <1>7, OtpNumbers DEF OtpRows
<1>9. otp' = [otp EXCEPT ![o] = row]
  BY <1>1, <1>6, <1>7 DEF RequestCode, TypeOK
<1>10. /\ otp' \in [Orders -> OtpRows] /\ otp'[o] = row
       /\ \A p \in Orders \ {o} : otp'[p] = otp[p]
  BY <1>1, <1>8, <1>9 DEF TypeOK
<1>11. CodesWereAsked'
  <2>1. SUFFICES ASSUME NEW p \in Orders
                 PROVE  otp'[p].no + Cardinality(Creating(p)') <= otp'[p].asked
    BY DEF CodesWereAsked
  <2>2. otp[p].no + Cardinality(Creating(p)) <= otp[p].asked
    BY <1>1 DEF CodesWereAsked
  <2>3. otp[p].no \in Nat /\ otp[p].asked \in Nat /\ Cardinality(Creating(p)) \in Nat
    BY <1>1, OtpNumbers, CreatingSize
  <2>4. CASE p = o
    <3>1. Cardinality(Creating(p)') <= Cardinality(Creating(p)) + 1
          /\ Cardinality(Creating(p)') \in Nat
      BY <1>1, <1>3, <1>5, <2>4, CreatingStep
    <3>2. otp'[p].no = otp[p].no /\ otp'[p].asked = otp[p].asked + 1
      BY <1>6, <1>8, <1>10, <2>4
    <3> QED BY <2>2, <2>3, <3>1, <3>2
  <2>5. CASE p # o
    <3>1. Cardinality(Creating(p)') <= Cardinality(Creating(p))
          /\ Cardinality(Creating(p)') \in Nat
      BY <1>1, <1>3, <1>5, <2>5, CreatingStep
    <3>2. otp'[p].no = otp[p].no /\ otp'[p].asked = otp[p].asked
      BY <1>10, <2>5
    <3> QED BY <2>2, <2>3, <3>1, <3>2
  <2> QED BY <2>4, <2>5
<1>12. MissesLeft'
  BY <1>1, <1>3, <1>5, MissesKept
<1>13. UNCHANGED <<order, cashInHand, adminCash, txns, history, settlements, faults>>
  BY DEF RequestCode, money, bounds
<1> QED BY <1>3, <1>5, <1>10, <1>11, <1>12, <1>13, CodeStep

LEMMA CreateCodeInv ==
  ASSUME CashInv, NEW c \in Contexts, CreateCode(c)
  PROVE  CashInv'
<1>1. TypeOK /\ CodesWereAsked /\ MissesLeft
  BY TypesOfInv
<1>2. PICK o \in Orders : o = ctx[c].o /\ ctx[c].pc = "code"
  BY <1>1, CtxOK DEF CreateCode, At
<1>3. Moves(c) /\ ctx'[c].pc = "idle"
  BY <1>1, DoneMoves DEF CreateCode
<1>4. c \in Creating(o)
  BY <1>2 DEF Creating
<1>5. Cardinality(Creating(o)') <= Cardinality(Creating(o)) - 1 /\ Cardinality(Creating(o)') \in Nat
  BY <1>1, <1>2, <1>3, <1>4, CreatingStep
<1>6. /\ otp[o].no + Cardinality(Creating(o)) <= otp[o].asked
      /\ otp[o].no \in Nat /\ otp[o].asked \in Nat /\ otp[o].asked <= MaxCodes
      /\ Cardinality(Creating(o)) \in Nat
  BY <1>1, <1>2, OtpNumbers, CreatingSize DEF CodesWereAsked
<1>7. PICK n \in 0..MaxCodes : n = otp[o].no + 1
  BY <1>5, <1>6, CashBoundAssumption
<1>8. PICK row : row = [otp[o] EXCEPT !.no = n, !.open = TRUE, !.attempts = 0]
  OBVIOUS
<1>9. row \in OtpRows /\ row.no = n /\ row.asked = otp[o].asked
  <2>1. 0 \in 0..MaxTries /\ otp[o] \in OtpRows
    BY <1>1, OtpNumbers, CashBoundAssumption
  <2> QED BY <1>8, <2>1 DEF OtpRows
<1>10. otp' = [otp EXCEPT ![o] = row]
  BY <1>1, <1>2, <1>7, <1>8 DEF CreateCode, TypeOK
<1>11. /\ otp' \in [Orders -> OtpRows] /\ otp'[o] = row
       /\ \A p \in Orders \ {o} : otp'[p] = otp[p]
  BY <1>1, <1>2, <1>9, <1>10 DEF TypeOK
<1>12. CodesWereAsked'
  <2>1. SUFFICES ASSUME NEW p \in Orders
                 PROVE  otp'[p].no + Cardinality(Creating(p)') <= otp'[p].asked
    BY DEF CodesWereAsked
  <2>2. otp[p].no + Cardinality(Creating(p)) <= otp[p].asked
    BY <1>1 DEF CodesWereAsked
  <2>3. otp[p].no \in Nat /\ otp[p].asked \in Nat /\ Cardinality(Creating(p)) \in Nat
    BY <1>1, OtpNumbers, CreatingSize
  <2>4. CASE p = o
    <3>1. otp'[p].no = otp[p].no + 1 /\ otp'[p].asked = otp[p].asked
      BY <1>7, <1>9, <1>11, <2>4
    <3> QED BY <1>5, <2>2, <2>3, <2>4, <3>1
  <2>5. CASE p # o
    <3>1. Cardinality(Creating(p)') <= Cardinality(Creating(p))
          /\ Cardinality(Creating(p)') \in Nat
      BY <1>1, <1>3, CreatingStep
    <3>2. otp'[p].no = otp[p].no /\ otp'[p].asked = otp[p].asked
      BY <1>11, <2>5
    <3> QED BY <2>2, <2>3, <3>1, <3>2
  <2> QED BY <2>4, <2>5
<1>13. MissesLeft'
  BY <1>1, <1>3, MissesKept
<1>14. UNCHANGED <<order, cashInHand, adminCash, txns, history, settlements, faults>>
  BY DEF CreateCode, money, bounds
<1> QED BY <1>2, <1>3, <1>11, <1>12, <1>13, <1>14, CodeStep

LEMMA VerifyCodeInv ==
  ASSUME CashInv, NEW c \in Contexts, NEW o \in Orders, NEW right \in BOOLEAN,
         VerifyCode(c, o, right)
  PROVE  CashInv'
<1>1. TypeOK /\ CodesWereAsked /\ MissesLeft
  BY TypesOfInv
<1>2. PICK label \in {"consume", "miss"} : label = IF right THEN "consume" ELSE "miss"
  OBVIOUS
<1>3. PICK h : h = [Idle EXCEPT !.pc = label, !.o = o, !.amount = otp[o].no,
                                !.tries = otp[o].attempts]
  OBVIOUS
<1>4. otp[o].no \in Nat /\ otp[o].attempts \in Nat /\ otp[o].attempts < MaxTries
  BY <1>1, OtpNumbers DEF VerifyCode
<1>5. h \in Handlers /\ h.pc = label /\ h.o = o /\ h.tries = otp[o].attempts
  BY <1>3, <1>4, IdleOK DEF Handlers
<1>6. Begin(c, h)
  BY <1>2, <1>3 DEF VerifyCode
<1>7. Moves(c) /\ ctx'[c] = h /\ ctx[c].pc = "idle"
  BY <1>1, <1>5, <1>6, BeginMoves
<1>8. UNCHANGED <<otp, order, cashInHand, adminCash, txns, history, settlements, faults>>
  BY DEF VerifyCode, money, bounds
<1>9. CodesWereAsked' /\ otp' \in [Orders -> OtpRows]
  <2>1. ctx'[c].pc # "code"
    BY <1>2, <1>5, <1>7
  <2> QED BY <1>1, <1>7, <1>8, <2>1, OtpKept, CodesKept
<1>10. MissesLeft'
  BY <1>1, <1>4, <1>5, <1>7 DEF MissesLeft, Moves
<1>11. ctx'[c].pc # "remit"
  BY <1>2, <1>5, <1>7
<1> QED BY <1>7, <1>8, <1>9, <1>10, <1>11, CodeStep

-----------------------------------------------------------------------------
(* Delivery and settlement.                                                *)

LEMMA HistoryOK ==
  ASSUME TypeOK, NEW o \in Orders
  PROVE  history.settled[o] \in Nat /\ history.booked[o] \in Nat
  BY DEF TypeOK

LEMMA SettledFacts ==
  ASSUME TypeOK, DeliveredOrderSettled, NEW o \in Orders
  PROVE  /\ history.settled[o] = (IF order[o].settled THEN 1 ELSE 0)
         /\ order[o].settled => order[o].ws = "DELIVERED"
         /\ order[o].ws = "DELIVERED" /\ ~order[o].settled =>
              faults > 0 \/ \E d \in Contexts : ctx[d].pc = "settle" /\ ctx[d].o = o
  BY DEF DeliveredOrderSettled, Delivered, At

\* A step that leaves the codes, the cash and the bounds alone.
LEMMA DeliveryStep ==
  ASSUME CashInv, NEW c \in Contexts, Moves(c), ctx'[c].pc \notin {"code", "miss", "remit"},
         order' \in [Orders -> OrderRows],
         history' \in HistoryRows,
         history'.booked = history.booked, history'.mixed = history.mixed,
         \A o \in Orders : /\ order'[o].collected = order[o].collected
                           /\ order'[o].codCollected = order[o].codCollected
                           /\ order'[o].rider = order[o].rider
                           /\ order'[o].rider = order[o].rider
                        /\ order'[o].codRemitted = order[o].codRemitted,
         DeliveredOrderSettled',
         UNCHANGED <<otp, cashInHand, adminCash, txns, settlements, faults>>
  PROVE  CashInv'
<1>0. TypeOK /\ CodesWereAsked /\ MissesLeft /\ RemitsLeft /\ CashInHandIsPending
  BY TypesOfInv
<1>1. TypeOK'
  BY <1>0 DEF TypeOK, Moves, HistoryRows
<1>2. CodesWereAsked'
  BY <1>0, CodesKept, OtpKept
<1>3. MissesLeft' /\ RemitsLeft'
  BY <1>0, MissesKept, RemitsKept
<1>4. CashInHandIsPending'
  BY <1>0, CashKept
<1> QED BY <1>1, <1>2, <1>3, <1>4 DEF CashInv, TypeInv

\* A handler that turns the order to delivered goes on to settle it.
LEMMA TurnsDelivered ==
  ASSUME CashInv, NEW c \in Contexts, NEW o \in Orders, o = ctx[c].o,
         ctx[c].pc = "deliver", Goto(c, "settle"),
         order' = [order EXCEPT ![o].ws = "DELIVERED"],
         UNCHANGED <<otp, cashInHand, adminCash, txns, history, settlements, faults>>
  PROVE  CashInv'
<1>1. TypeOK /\ DeliveredOrderSettled
  BY TypesOfInv
<1>2. Moves(c) /\ ctx'[c].pc = "settle" /\ ctx'[c].o = o
  <2>1. "settle" \in Labels BY DEF Labels
  <2> QED BY <1>1, <2>1, GotoMoves
<1>3. /\ order' \in [Orders -> OrderRows]
      /\ \A p \in Orders \ {o} : order'[p] = order[p]
      /\ order'[o].ws = "DELIVERED" /\ order'[o].settled = order[o].settled
      /\ order'[o].collected = order[o].collected
      /\ order'[o].codCollected = order[o].codCollected
      /\ order'[o].codRemitted = order[o].codRemitted
      /\ order'[o].rider = order[o].rider
  BY <1>1, OrderDelivers
<1>4. DeliveredOrderSettled'
  <2>1. SUFFICES ASSUME NEW p \in Orders
                 PROVE  /\ history.settled[p] = (IF order'[p].settled THEN 1 ELSE 0)
                        /\ order'[p].settled => order'[p].ws = "DELIVERED"
                        /\ order'[p].ws = "DELIVERED" /\ ~order'[p].settled =>
                             faults > 0 \/ \E d \in Contexts : ctx'[d].pc = "settle" /\ ctx'[d].o = p
    BY DEF DeliveredOrderSettled, Delivered, At
  <2>2. CASE p = o
    BY <1>1, <1>2, <1>3, <2>2, SettledFacts
  <2>3. CASE p # o
    <3>1. order'[p] = order[p]
      BY <1>3, <2>3
    <3>2. ASSUME NEW d \in Contexts, ctx[d].pc = "settle" PROVE ctx'[d] = ctx[d]
      BY <1>2, <3>2 DEF Moves
    <3>3. /\ history.settled[p] = (IF order[p].settled THEN 1 ELSE 0)
          /\ order[p].settled => order[p].ws = "DELIVERED"
          /\ order[p].ws = "DELIVERED" /\ ~order[p].settled =>
               faults > 0 \/ \E d \in Contexts : ctx[d].pc = "settle" /\ ctx[d].o = p
      BY <1>1, SettledFacts
    <3> QED BY <3>1, <3>2, <3>3
  <2> QED BY <2>2, <2>3
<1>5. history' \in HistoryRows
  BY <1>1 DEF TypeOK, HistoryRows
<1>6. \A p \in Orders : /\ order'[p].collected = order[p].collected
                        /\ order'[p].codCollected = order[p].codCollected
                        /\ order'[p].rider = order[p].rider
                        /\ order'[p].codRemitted = order[p].codRemitted
  BY <1>3
<1> QED BY <1>2, <1>3, <1>4, <1>5, <1>6, DeliveryStep

LEMMA DeliverInv ==
  ASSUME CashInv, NEW c \in Contexts, Deliver(c)
  PROVE  CashInv'
<1>1. TypeOK
  BY TypesOfInv
<1>2. PICK o \in Orders : o = ctx[c].o /\ ctx[c].pc = "deliver"
  BY <1>1, CtxOK DEF Deliver, At
<1>3. UNCHANGED <<otp, cashInHand, adminCash, txns, history, settlements, faults>>
  BY DEF Deliver, money, bounds
<1>4. CASE Delivered(o)
  <2>1. Done(c) /\ UNCHANGED order
    BY <1>2, <1>4 DEF Deliver
  <2>2. Moves(c) /\ ctx'[c].pc = "idle"
    BY <1>1, <2>1, DoneMoves
  <2> QED BY <1>1, <1>2, <1>3, <2>1, <2>2, QuietStep, OtpKept, TxnsOK, BoundsOK
<1>5. CASE ~Delivered(o)
  <2>1. Goto(c, "settle") /\ order' = [order EXCEPT ![o].ws = "DELIVERED"]
    BY <1>2, <1>5 DEF Deliver
  <2> QED BY <1>2, <1>3, <2>1, TurnsDelivered
<1> QED BY <1>4, <1>5

LEMMA SaveDeliveredInv ==
  ASSUME CashInv, NEW c \in Contexts, SaveDelivered(c)
  PROVE  CashInv'
<1>1. TypeOK
  BY TypesOfInv
<1>2. PICK o \in Orders : o = ctx[c].o /\ ctx[c].pc = "deliver"
  BY <1>1, CtxOK DEF SaveDelivered, At
<1>3. /\ UNCHANGED <<otp, cashInHand, adminCash, txns, history, settlements, faults>>
      /\ Goto(c, "settle") /\ order' = [order EXCEPT ![o].ws = "DELIVERED"]
  BY <1>2 DEF SaveDelivered, money, bounds
<1> QED BY <1>2, <1>3, TurnsDelivered

LEMMA HistorySettles ==
  ASSUME TypeOK, NEW o \in Orders, history' = [history EXCEPT !.settled[o] = @ + 1]
  PROVE  /\ history' \in HistoryRows
         /\ history'.booked = history.booked /\ history'.mixed = history.mixed
         /\ history'.settled[o] = history.settled[o] + 1
         /\ \A p \in Orders \ {o} : history'.settled[p] = history.settled[p]
<1>1. history \in HistoryRows
  BY DEF TypeOK, HistoryRows
<1>2. PICK n \in Nat : n = history.settled[o] + 1
  BY HistoryOK
<1>3. PICK f \in [Orders -> Nat] : f = [history.settled EXCEPT ![o] = n]
  BY <1>1 DEF HistoryRows
<1>4. history' = [history EXCEPT !.settled = f]
  BY <1>1, <1>2, <1>3 DEF HistoryRows
<1> QED BY <1>1, <1>2, <1>3, <1>4 DEF HistoryRows

LEMMA HistoryBooks ==
  ASSUME TypeOK, NEW o \in Orders, history' = [history EXCEPT !.booked[o] = @ + 1]
  PROVE  /\ history' \in HistoryRows
         /\ history'.settled = history.settled /\ history'.mixed = history.mixed
         /\ history'.booked[o] = history.booked[o] + 1
         /\ \A p \in Orders \ {o} : history'.booked[p] = history.booked[p]
<1>1. history \in HistoryRows
  BY DEF TypeOK, HistoryRows
<1>2. PICK n \in Nat : n = history.booked[o] + 1
  BY HistoryOK
<1>3. PICK f \in [Orders -> Nat] : f = [history.booked EXCEPT ![o] = n]
  BY <1>1 DEF HistoryRows
<1>4. history' = [history EXCEPT !.booked = f]
  BY <1>1, <1>2, <1>3 DEF HistoryRows
<1> QED BY <1>1, <1>2, <1>3, <1>4 DEF HistoryRows

LEMMA SettleDeliveredInv ==
  ASSUME CashInv, NEW c \in Contexts, SettleDelivered(c)
  PROVE  CashInv'
<1>1. TypeOK /\ DeliveredOrderSettled
  BY TypesOfInv
<1>2. PICK o \in Orders : o = ctx[c].o /\ ctx[c].pc = "settle"
  BY <1>1, CtxOK DEF SettleDelivered, At
<1>3. Moves(c) /\ ctx'[c].pc \in {"cash", "records", "idle"}
  <2>1. "cash" \in Labels /\ "records" \in Labels BY DEF Labels
  <2>2. Goto(c, "cash") \/ Goto(c, "records") \/ Done(c)
    BY DEF SettleDelivered
  <2> QED BY <1>1, <2>1, <2>2, GotoMoves, DoneMoves
<1>4. UNCHANGED <<otp, cashInHand, adminCash, txns, settlements, faults>>
  BY DEF SettleDelivered, bounds
<1>5. /\ order' \in [Orders -> OrderRows]
      /\ history' \in HistoryRows
      /\ history'.booked = history.booked /\ history'.mixed = history.mixed
      /\ \A p \in Orders \ {o} : order'[p] = order[p] /\ history'.settled[p] = history.settled[p]
      /\ order'[o].ws = "DELIVERED" /\ order'[o].settled /\ history'.settled[o] = 1
      /\ order'[o].collected = order[o].collected
      /\ order'[o].codCollected = order[o].codCollected
      /\ order'[o].codRemitted = order[o].codRemitted
      /\ order'[o].rider = order[o].rider
  <2>1. CASE order[o].settled
    <3>1. UNCHANGED <<order, history>>
      BY <1>2, <2>1 DEF SettleDelivered
    <3> QED BY <1>1, <2>1, <3>1, SettledFacts DEF TypeOK, HistoryRows
  <2>2. CASE ~order[o].settled
    <3>1. /\ order' = [order EXCEPT ![o].ws = "DELIVERED", ![o].settled = TRUE]
          /\ history' = [history EXCEPT !.settled[o] = @ + 1]
      BY <1>2, <2>2 DEF SettleDelivered
    <3>2. history.settled[o] = 0
      BY <1>1, <2>2, SettledFacts
    <3>3. /\ order' \in [Orders -> OrderRows]
          /\ \A p \in Orders \ {o} : order'[p] = order[p]
          /\ order'[o].ws = "DELIVERED" /\ order'[o].settled
          /\ order'[o].collected = order[o].collected
          /\ order'[o].codCollected = order[o].codCollected
          /\ order'[o].codRemitted = order[o].codRemitted
          /\ order'[o].rider = order[o].rider
      BY <1>1, <3>1, OrderSettles
    <3>4. /\ history' \in HistoryRows
          /\ history'.booked = history.booked /\ history'.mixed = history.mixed
          /\ history'.settled[o] = history.settled[o] + 1
          /\ \A p \in Orders \ {o} : history'.settled[p] = history.settled[p]
      BY <1>1, <3>1, HistorySettles
    <3> QED BY <3>2, <3>3, <3>4
  <2> QED BY <2>1, <2>2
<1>6. DeliveredOrderSettled'
  <2>1. SUFFICES ASSUME NEW p \in Orders
                 PROVE  /\ history'.settled[p] = (IF order'[p].settled THEN 1 ELSE 0)
                        /\ order'[p].settled => order'[p].ws = "DELIVERED"
                        /\ order'[p].ws = "DELIVERED" /\ ~order'[p].settled =>
                             faults' > 0 \/ \E d \in Contexts : ctx'[d].pc = "settle" /\ ctx'[d].o = p
    BY DEF DeliveredOrderSettled, Delivered, At
  <2>2. CASE p = o
    BY <1>5, <2>2
  <2>3. CASE p # o
    <3>1. order'[p] = order[p] /\ history'.settled[p] = history.settled[p] /\ faults' = faults
      BY <1>4, <1>5, <2>3
    <3>2. ASSUME NEW d \in Contexts, ctx[d].pc = "settle", ctx[d].o = p
          PROVE  ctx'[d] = ctx[d]
      BY <1>2, <1>3, <2>3, <3>2 DEF Moves
    <3> QED BY <1>1, <3>1, <3>2, SettledFacts
  <2> QED BY <2>2, <2>3
<1>7. \A p \in Orders : /\ order'[p].collected = order[p].collected
                        /\ order'[p].codCollected = order[p].codCollected
                        /\ order'[p].rider = order[p].rider
                        /\ order'[p].codRemitted = order[p].codRemitted
  BY <1>5
<1>8. ctx'[c].pc \notin {"code", "miss", "remit"}
  BY <1>3
<1> QED BY <1>3, <1>4, <1>5, <1>6, <1>7, <1>8, DeliveryStep

-----------------------------------------------------------------------------
(* The cash.  A step changes what one order has collected or remitted, and *)
(* the sum changes as much.                                                *)

LEMMA PendingOK ==
  ASSUME TypeOK, CashInHandIsPending, NEW o \in Orders
  PROVE  Pending(o) \in Nat
<1>1. order[o].codCollected \in Nat /\ order[o].codRemitted \in Nat
      /\ order[o].codRemitted <= order[o].codCollected
  BY OrderRow DEF CashInHandIsPending
<1> QED BY <1>1 DEF Pending

LEMMA SumsAreInt ==
  ASSUME TypeOK, CashInHandIsPending
  PROVE  /\ Remitted \in [Orders -> Nat] /\ Open \in [Orders -> Nat]
         /\ \A r : Dues(r) \in [Orders -> Nat] /\ Total(Dues(r)) \in Nat
         /\ Total(Remitted) \in Nat /\ Total(Open) \in Nat
<1>1. Remitted \in [Orders -> Nat]
  BY OrderRow DEF Remitted
<1>2. Open \in [Orders -> Nat]
  BY PendingOK DEF Open
<1>3. ASSUME NEW r PROVE Dues(r) \in [Orders -> Nat] /\ Total(Dues(r)) \in Nat
  <2>1. Dues(r) \in [Orders -> Nat]
    BY PendingOK DEF Dues
  <2> QED BY <2>1, OrdersFinite, SumNat, TotalIsSum
<1>4. Total(Remitted) \in Nat /\ Total(Open) \in Nat
  BY <1>1, <1>2, OrdersFinite, SumNat, TotalIsSum
<1> QED BY <1>1, <1>2, <1>3, <1>4

LEMMA TotalChange ==
  ASSUME NEW f \in [Orders -> Nat], NEW h \in [Orders -> Nat], NEW o \in Orders,
         \A p \in Orders \ {o} : h[p] = f[p]
  PROVE  Total(h) = Total(f) + (h[o] - f[o])
<1>1. f \in [Orders -> Int] /\ h \in [Orders -> Int]
  OBVIOUS
<1>2. Sum(h, Orders) = Sum(f, Orders) + (h[o] - f[o])
  BY <1>1, OrdersFinite, SumChange
<1> QED BY <1>2, TotalIsSum

\* A summand is no more than the sum.
LEMMA TotalBound ==
  ASSUME NEW f \in [Orders -> Nat], NEW o \in Orders
  PROVE  f[o] <= Total(f) /\ Total(f) \in Nat
<1>1. PICK h : h = [f EXCEPT ![o] = 0]
  OBVIOUS
<1>2. h \in [Orders -> Nat] /\ h[o] = 0 /\ \A p \in Orders \ {o} : h[p] = f[p]
  BY <1>1
<1>3. Total(h) = Total(f) + (h[o] - f[o])
  BY <1>2, TotalChange
<1>4. Total(h) \in Nat /\ Total(f) \in Nat
  BY <1>2, OrdersFinite, SumNat, TotalIsSum
<1> QED BY <1>2, <1>3, <1>4

\* What the riders hold changes as much as one wallet does.
LEMMA HandsChange ==
  ASSUME TypeOK, NEW r \in Riders, NEW n \in Nat, cashInHand' = [cashInHand EXCEPT ![r] = n]
  PROVE  /\ cashInHand' \in [Riders -> Nat] /\ cashInHand'[r] = n
         /\ \A q \in Riders \ {r} : cashInHand'[q] = cashInHand[q]
         /\ InHands \in Int /\ InHands' = InHands + (n - cashInHand[r])
<1>1. cashInHand \in [Riders -> Nat]
  BY DEF TypeOK
<1>2. /\ cashInHand' \in [Riders -> Nat] /\ cashInHand'[r] = n
      /\ \A q \in Riders \ {r} : cashInHand'[q] = cashInHand[q]
  BY <1>1
<1>3. PICK h : h = cashInHand'
  OBVIOUS
<1>4. cashInHand \in [Riders -> Int] /\ h \in [Riders -> Int]
  BY <1>1, <1>2, <1>3
<1>5. /\ Sum(cashInHand, Riders) \in Int
      /\ Sum(h, Riders) = Sum(cashInHand, Riders) + (h[r] - cashInHand[r])
  <2>1. IsFiniteSet(Riders)
    BY CashBoundAssumption
  <2>2. \A q \in Riders \ {r} : h[q] = cashInHand[q]
    BY <1>2, <1>3
  <2> HIDE <1>1, <1>2, <1>3
  <2> QED BY <1>4, <2>1, <2>2, SumChange
<1>6. InHands' = Sum(h, Riders)
  BY <1>3 DEF InHands
<1> QED BY <1>2, <1>3, <1>5, <1>6 DEF InHands

LEMMA CashFacts ==
  ASSUME CashInHandIsPending
  PROVE  /\ adminCash = Total(Remitted)
         /\ \A r \in Riders \ history.mixed : cashInHand[r] = Total(Dues(r))
         /\ InHands >= Total(Open)
         /\ \A o \in Orders : /\ history.booked[o] = (IF order[o].collected THEN 1 ELSE 0)
                              /\ order[o].codRemitted <= order[o].codCollected
  BY CashAsSums DEF CashSums

\* A rider who was not mixed up with another has in hand what an order of his owes.
LEMMA PendingInHand ==
  ASSUME TypeOK, CashInHandIsPending, NEW o \in Orders, order[o].rider \notin history.mixed
  PROVE  Pending(o) <= cashInHand[order[o].rider]
<1>1. PICK r \in Riders : r = order[o].rider
  BY OrderRow
<1>2. PICK f : f = Dues(r)
  OBVIOUS
<1>3. f \in [Orders -> Nat] /\ f[o] = Pending(o)
  BY <1>1, <1>2, SumsAreInt DEF Dues
<1>4. cashInHand[r] = Total(f)
  BY <1>1, <1>2, CashFacts
<1> QED BY <1>1, <1>3, <1>4, TotalBound

\* What one order owes changes: so do the sums of all the orders and of its rider's.
LEMMA DuesChange ==
  ASSUME TypeOK, CashInHandIsPending, NEW o \in Orders, NEW n \in Int,
         \A p \in Orders : order'[p].rider = order[p].rider,
         \A p \in Orders \ {o} : order'[p] = order[p],
         Pending(o)' \in Nat, Pending(o)' = Pending(o) + n
  PROVE  /\ Total(Open') = Total(Open) + n
         /\ Total(Dues(order[o].rider)') = Total(Dues(order[o].rider)) + n
         /\ \A r : r # order[o].rider => Total(Dues(r)') = Total(Dues(r))
<1>1. /\ Pending(o) \in Nat
      /\ \A p \in Orders \ {o} : Pending(p)' = Pending(p) /\ Pending(p) \in Nat
  BY PendingOK DEF Pending
<1>2. Total(Open') = Total(Open) + n
  <2>1. PICK f : f = Open
    OBVIOUS
  <2>2. PICK h : h = Open'
    OBVIOUS
  <2>3. h \in [Orders -> Nat] /\ h[o] = Pending(o)' /\ \A p \in Orders \ {o} : h[p] = Pending(p)
    BY <1>1, <2>2 DEF Open
  <2>4. f \in [Orders -> Nat] /\ \A p \in Orders : f[p] = Pending(p)
    BY <1>1, <2>1 DEF Open
  <2>5. Total(h) = Total(f) + (h[o] - f[o])
    BY <2>3, <2>4, TotalChange
  <2>6. Total(Open') = Total(h)
    BY <2>2
  <2>7. Total(f) \in Nat
    BY <2>4, TotalBound
  <2> QED BY <1>1, <2>1, <2>3, <2>4, <2>5, <2>6, <2>7
<1>3. Total(Dues(order[o].rider)') = Total(Dues(order[o].rider)) + n
  <2>1. PICK r : r = order[o].rider /\ order'[o].rider = r
    OBVIOUS
  <2>2. PICK f : f = Dues(r)
    OBVIOUS
  <2>3. PICK h : h = [p \in Orders |-> IF order'[p].rider = r THEN Pending(p)' ELSE 0]
    OBVIOUS
  <2>4. h \in [Orders -> Nat] /\ h[o] = Pending(o)'
        /\ \A p \in Orders \ {o} : h[p] = IF order[p].rider = r THEN Pending(p) ELSE 0
    BY <1>1, <2>1, <2>3
  <2>5. f \in [Orders -> Nat] /\ f[o] = Pending(o)
        /\ \A p \in Orders \ {o} : f[p] = IF order[p].rider = r THEN Pending(p) ELSE 0
    BY <1>1, <2>1, <2>2 DEF Dues
  <2>6. Total(h) = Total(f) + (h[o] - f[o])
    BY <2>4, <2>5, TotalChange
  <2>7. Total(Dues(order[o].rider)') = Total(h)
    BY <2>1, <2>3 DEF Dues
  <2>8. Total(f) \in Nat
    BY <2>5, TotalBound
  <2> QED BY <1>1, <2>1, <2>2, <2>4, <2>5, <2>6, <2>7, <2>8
<1>4. ASSUME NEW r, r # order[o].rider
      PROVE  Total(Dues(r)') = Total(Dues(r))
  <2>1. [p \in Orders |-> IF order'[p].rider = r THEN Pending(p)' ELSE 0] = Dues(r)
    BY <1>1, <1>4 DEF Dues
  <2> QED BY <2>1 DEF Dues
<1> QED BY <1>2, <1>3, <1>4

\* The invariants that a step on the cash leaves as they are.
CashLeaves ==
    /\ order' \in [Orders -> OrderRows]
    /\ \A o \in Orders : /\ order'[o].ws = order[o].ws /\ order'[o].settled = order[o].settled
                         /\ order'[o].rider = order[o].rider
    /\ history' \in HistoryRows
    /\ history'.settled = history.settled
    /\ cashInHand' \in [Riders -> Nat] /\ adminCash' \in Nat
    /\ CashInHandIsPending'
    /\ UNCHANGED <<otp, txns, settlements, faults>>

LEMMA CashStep ==
  ASSUME CashInv, NEW c \in Contexts, Moves(c), ctx[c].pc # "settle",
         ctx'[c].pc \notin {"code", "miss"}, RemitsLeft', CashLeaves
  PROVE  CashInv'
<1>0. TypeOK /\ CodesWereAsked /\ MissesLeft /\ DeliveredOrderSettled
  BY TypesOfInv
<1>1. TypeOK'
  BY <1>0 DEF TypeOK, Moves, CashLeaves, HistoryRows
<1>2. CodesWereAsked'
  BY <1>0, CodesKept, OtpKept DEF CashLeaves
<1>3. MissesLeft'
  BY <1>0, MissesKept
<1>4. DeliveredOrderSettled'
  <2>1. faults' \in Nat /\ faults' >= faults
    BY <1>0, BoundsOK DEF CashLeaves
  <2>2. \A o \in Orders : /\ order'[o].ws = order[o].ws
                          /\ order'[o].settled = order[o].settled
                          /\ history'.settled[o] = history.settled[o]
    BY DEF CashLeaves
  <2> QED BY <1>0, <2>1, <2>2, SettledKept
<1> QED BY <1>1, <1>2, <1>3, <1>4 DEF CashInv, TypeInv, CashLeaves

LEMMA CashStepOutside ==
  ASSUME CashInv, UNCHANGED ctx, CashLeaves
  PROVE  CashInv'
<1>0. TypeOK /\ CodesWereAsked /\ MissesLeft /\ RemitsLeft /\ DeliveredOrderSettled
  BY TypesOfInv
<1>1. TypeOK'
  BY <1>0 DEF TypeOK, CashLeaves, HistoryRows
<1>2. CodesWereAsked'
  BY <1>0 DEF CodesWereAsked, Creating, CashLeaves
<1>3. MissesLeft' /\ RemitsLeft'
  BY <1>0 DEF MissesLeft, RemitsLeft, CashLeaves
<1>4. DeliveredOrderSettled'
  BY <1>0 DEF DeliveredOrderSettled, Delivered, At, CashLeaves
<1> QED BY <1>1, <1>2, <1>3, <1>4 DEF CashInv, TypeInv, CashLeaves

LEMMA BookCashLeaves ==
  ASSUME CashInv, NEW o \in Orders, NEW amount \in Nat, BookCash(o, amount),
         UNCHANGED <<otp, adminCash, txns, settlements, faults>>
  PROVE  CashLeaves
<1>1. TypeOK /\ CashInHandIsPending
  BY TypesOfInv
<1>2. CASE order[o].collected
  <2>1. UNCHANGED <<order, cashInHand, history>>
    BY <1>2 DEF BookCash
  <2>2. CashInHandIsPending'
    BY <1>1, <2>1, CashKept
  <2> QED BY <1>1, <2>1, <2>2 DEF CashLeaves, TypeOK, HistoryRows
<1>3. CASE ~order[o].collected
  <2>1. PICK n \in Nat : n = Net(amount)
    <3>1. Net(amount) \in Nat
      BY CashAmountAssumption DEF Net
    <3> QED BY <3>1
  <2>2. PICK r \in Riders : r = order[o].rider
    BY <1>1, OrderRow
  <2>3. PICK m \in Nat : m = cashInHand[r] + n
    BY <1>1 DEF TypeOK
  <2>4. /\ order' = [order EXCEPT ![o].collected = TRUE, ![o].codCollected = @ + n]
        /\ cashInHand' = [cashInHand EXCEPT ![r] = m]
        /\ history' = [history EXCEPT !.booked[o] = @ + 1]
    BY <1>3, <2>1, <2>2, <2>3 DEF BookCash
  <2>5. /\ order' \in [Orders -> OrderRows]
        /\ \A p \in Orders \ {o} : order'[p] = order[p]
        /\ order'[o].ws = order[o].ws /\ order'[o].settled = order[o].settled
        /\ order'[o].collected
        /\ order'[o].codCollected = order[o].codCollected + n
        /\ order'[o].codRemitted = order[o].codRemitted
        /\ order'[o].rider = order[o].rider
    BY <1>1, <2>4, OrderBooks
  <2>6. /\ history' \in HistoryRows
        /\ history'.settled = history.settled /\ history'.mixed = history.mixed
        /\ history'.booked[o] = history.booked[o] + 1
        /\ \A p \in Orders \ {o} : history'.booked[p] = history.booked[p]
    BY <1>1, <2>4, HistoryBooks
  <2>7. order[o].codCollected \in Nat /\ order[o].codRemitted \in Nat
        /\ order[o].codRemitted <= order[o].codCollected
    BY <1>1, OrderRow, CashFacts
  <2>8. Pending(o)' \in Nat /\ Pending(o)' = Pending(o) + n
    BY <2>5, <2>7 DEF Pending
  <2>9. /\ Total(Open') = Total(Open) + n
        /\ Total(Dues(r)') = Total(Dues(r)) + n
        /\ \A q : q # r => Total(Dues(q)') = Total(Dues(q))
    BY <1>1, <2>2, <2>5, <2>8, DuesChange
  <2>10. /\ cashInHand' \in [Riders -> Nat] /\ cashInHand'[r] = m
         /\ \A q \in Riders \ {r} : cashInHand'[q] = cashInHand[q]
         /\ InHands \in Int /\ InHands' = InHands + (m - cashInHand[r])
    BY <1>1, <2>4, HandsChange
  <2>11. cashInHand[r] \in Nat /\ Total(Open) \in Nat /\ \A q : Total(Dues(q)) \in Nat
    BY <1>1, SumsAreInt DEF TypeOK
  <2>12. CashSums'
    <3>1. adminCash' = Total(Remitted')
      <4>1. Remitted' = Remitted
        BY <2>5 DEF Remitted
      <4> QED BY <1>1, <4>1, CashFacts
    <3>2. ASSUME NEW q \in Riders \ history'.mixed PROVE cashInHand'[q] = Total(Dues(q)')
      <4>1. cashInHand[q] = Total(Dues(q))
        BY <1>1, <2>6, <3>2, CashFacts
      <4>2. CASE q = r
        BY <2>3, <2>9, <2>10, <2>11, <4>1, <4>2
      <4>3. CASE q # r
        BY <2>9, <2>10, <4>1, <4>3
      <4> QED BY <4>2, <4>3
    <3>3. InHands' >= Total(Open')
      <4>1. InHands >= Total(Open)
        BY <1>1, CashFacts
      <4> QED BY <2>3, <2>9, <2>10, <2>11, <4>1
    <3>4. ASSUME NEW p \in Orders
          PROVE  /\ history'.booked[p] = (IF order'[p].collected THEN 1 ELSE 0)
                 /\ order'[p].codRemitted <= order'[p].codCollected
      <4>1. /\ history.booked[p] = (IF order[p].collected THEN 1 ELSE 0)
            /\ order[p].codRemitted <= order[p].codCollected
        BY <1>1, CashFacts
      <4>2. CASE p = o
        BY <1>3, <2>5, <2>6, <2>7, <4>1, <4>2
      <4>3. CASE p # o
        BY <2>5, <2>6, <4>1, <4>3
      <4> QED BY <4>2, <4>3
    <3> QED BY <3>1, <3>2, <3>3, <3>4 DEF CashSums
  <2>13. CashInHandIsPending'
    BY <2>12, CashAsSumsNext
  <2>14. \A p \in Orders : /\ order'[p].ws = order[p].ws /\ order'[p].settled = order[p].settled
                           /\ order'[p].rider = order[p].rider
    BY <2>5
  <2>15. adminCash' \in Nat
    BY <1>1 DEF TypeOK
  <2> QED BY <2>5, <2>6, <2>10, <2>13, <2>14, <2>15 DEF CashLeaves
<1> QED BY <1>2, <1>3

LEMMA CollectCashInv ==
  ASSUME CashInv, NEW c \in Contexts, CollectCash(c)
  PROVE  CashInv'
<1>1. TypeOK /\ RemitsLeft
  BY TypesOfInv
<1>2. PICK o \in Orders : o = ctx[c].o /\ ctx[c].pc = "cash"
  BY <1>1, CtxOK DEF CollectCash, At
<1>3. CashLeaves
  BY <1>2, BookCashLeaves, CashAmountAssumption DEF CollectCash, bounds
<1>4. Moves(c) /\ ctx'[c].pc \in {"idle", "records"}
  <2>1. "records" \in Labels BY DEF Labels
  <2>2. Goto(c, "records") \/ Done(c)
    BY DEF CollectCash
  <2> QED BY <1>1, <2>1, <2>2, GotoMoves, DoneMoves
<1>5. RemitsLeft'
  BY <1>1, <1>3, <1>4, RemitsKept DEF CashLeaves
<1> QED BY <1>2, <1>3, <1>4, <1>5, CashStep

LEMMA MarkCollectedInv ==
  ASSUME CashInv, NEW o \in Orders, NEW amount \in Nat, MarkCollected(o, amount)
  PROVE  CashInv'
<1>1. CashLeaves
  BY BookCashLeaves DEF MarkCollected, bounds
<1> QED BY <1>1, CashStepOutside DEF MarkCollected

\* Nobody remits more than the order owes, so its rider has it in hand, when it is
\* his wallet that is debited and he was not mixed up with another before.
LEMMA ReconcileLeaves ==
  ASSUME CashInv, NEW o \in Orders, NEW r \in Riders, NEW n \in Nat, Reconcile(o, r, n),
         history' = IF r = order[o].rider THEN history
                    ELSE [history EXCEPT !.mixed = @ \cup {r, order[o].rider}],
         UNCHANGED <<otp, txns, settlements, faults>>
  PROVE  CashLeaves
<1>1. TypeOK /\ CashInHandIsPending
  BY TypesOfInv
<1>2. PICK m \in Nat : m = IF cashInHand[r] > n THEN cashInHand[r] - n ELSE 0
  BY <1>1 DEF TypeOK
<1>3. /\ order' = [order EXCEPT ![o].codRemitted = @ + n]
      /\ cashInHand' = [cashInHand EXCEPT ![r] = m] /\ adminCash' = adminCash + n
      /\ n <= Pending(o)
  BY <1>2 DEF Reconcile, TakeFromHand
<1>4. /\ order' \in [Orders -> OrderRows]
      /\ \A p \in Orders \ {o} : order'[p] = order[p]
      /\ order'[o].ws = order[o].ws /\ order'[o].settled = order[o].settled
      /\ order'[o].collected = order[o].collected
      /\ order'[o].codCollected = order[o].codCollected
      /\ order'[o].codRemitted = order[o].codRemitted + n
      /\ order'[o].rider = order[o].rider
  BY <1>1, <1>3, OrderRemits
<1>5. order[o].codCollected \in Nat /\ order[o].codRemitted \in Nat
  BY <1>1, OrderRow
<1>6. PICK s \in Riders : s = order[o].rider
  BY <1>1, OrderRow
<1>7. /\ history' \in HistoryRows
      /\ history'.settled = history.settled /\ history'.booked = history.booked
      /\ history.mixed \subseteq history'.mixed
      /\ r # s => r \in history'.mixed /\ s \in history'.mixed
  <2>1. history \in HistoryRows
    BY <1>1 DEF TypeOK, HistoryRows
  <2>2. CASE r = s
    BY <1>6, <2>1, <2>2
  <2>3. CASE r # s
    <3>1. PICK mixed \in SUBSET Riders : mixed = history.mixed \cup {r, s}
      BY <2>1 DEF HistoryRows
    <3>2. history' = [history EXCEPT !.mixed = mixed]
      BY <1>6, <2>3, <3>1
    <3> QED BY <2>1, <3>1, <3>2 DEF HistoryRows
  <2> QED BY <2>2, <2>3
<1>8. Pending(o)' \in Nat /\ Pending(o)' = Pending(o) + (-n) /\ Pending(o) \in Nat /\ -n \in Int
  BY <1>1, <1>3, <1>4, <1>5, PendingOK DEF Pending
<1>9. /\ Total(Open') = Total(Open) + (-n)
      /\ Total(Dues(s)') = Total(Dues(s)) + (-n)
      /\ \A q : q # s => Total(Dues(q)') = Total(Dues(q))
  BY <1>1, <1>4, <1>6, <1>8, DuesChange
<1>10. /\ cashInHand' \in [Riders -> Nat] /\ cashInHand'[r] = m
       /\ \A q \in Riders \ {r} : cashInHand'[q] = cashInHand[q]
       /\ InHands \in Int /\ InHands' = InHands + (m - cashInHand[r])
  BY <1>1, <1>3, HandsChange
<1>11. /\ cashInHand[r] \in Nat /\ adminCash \in Nat
       /\ Total(Open) \in Nat /\ \A q : Total(Dues(q)) \in Nat
  BY <1>1, SumsAreInt DEF TypeOK
<1>12. adminCash' = Total(Remitted')
  <2>1. PICK f : f = Remitted
    OBVIOUS
  <2>2. PICK h : h = Remitted'
    OBVIOUS
  <2>3. f \in [Orders -> Nat]
    BY <1>1, <2>1, SumsAreInt
  <2>4. h \in [Orders -> Nat] /\ h[o] = f[o] + n /\ \A p \in Orders \ {o} : h[p] = f[p]
    BY <1>4, <1>1, <2>1, <2>2, <2>3, OrderRow DEF Remitted
  <2>5. Total(h) = Total(f) + (h[o] - f[o])
    BY <2>3, <2>4, TotalChange
  <2>6. f[o] \in Nat /\ Total(f) \in Nat
    BY <2>3, TotalBound
  <2>7. adminCash = Total(f)
    BY <1>1, <2>1, CashFacts
  <2>8. Total(Remitted') = Total(h)
    BY <2>2
  <2> QED BY <1>3, <2>4, <2>5, <2>6, <2>7, <2>8
<1>13. ASSUME NEW q \in Riders \ history'.mixed PROVE cashInHand'[q] = Total(Dues(q)')
  <2>1. cashInHand[q] = Total(Dues(q)) /\ q \notin history.mixed
    BY <1>1, <1>7, <1>13, CashFacts
  <2>2. CASE q = s
    <3>1. r = s
      BY <1>7, <1>13, <2>2
    <3>2. Pending(o) <= cashInHand[s]
      BY <1>1, <1>6, <2>1, <2>2, PendingInHand
    <3>3. m = cashInHand[s] - n
      BY <1>2, <1>3, <1>8, <1>11, <3>1, <3>2
    <3> QED BY <1>9, <1>10, <1>11, <2>1, <2>2, <3>1, <3>3
  <2>3. CASE q # s
    <3>1. q # r
      BY <1>7, <1>13, <2>3
    <3> QED BY <1>9, <1>10, <1>13, <2>1, <2>3, <3>1
  <2> QED BY <2>2, <2>3
<1>14. InHands' >= Total(Open')
  <2>1. InHands >= Total(Open)
    BY <1>1, CashFacts
  <2>2. m >= cashInHand[r] - n
    BY <1>2, <1>11
  <2> QED BY <1>9, <1>10, <1>11, <2>1, <2>2
<1>15. ASSUME NEW p \in Orders
       PROVE  /\ history'.booked[p] = (IF order'[p].collected THEN 1 ELSE 0)
              /\ order'[p].codRemitted <= order'[p].codCollected
  <2>1. /\ history.booked[p] = (IF order[p].collected THEN 1 ELSE 0)
        /\ order[p].codRemitted <= order[p].codCollected
    BY <1>1, CashFacts
  <2>2. CASE p = o
    BY <1>3, <1>4, <1>5, <1>7, <2>1, <2>2 DEF Pending
  <2>3. CASE p # o
    BY <1>4, <1>7, <2>1, <2>3
  <2> QED BY <2>2, <2>3
<1>16. CashInHandIsPending'
  BY <1>12, <1>13, <1>14, <1>15, CashAsSumsNext DEF CashSums
<1>17. \A p \in Orders : /\ order'[p].ws = order[p].ws /\ order'[p].settled = order[p].settled
                         /\ order'[p].rider = order[p].rider
  BY <1>4
<1>18. adminCash' \in Nat
  BY <1>3, <1>11
<1> QED BY <1>4, <1>7, <1>10, <1>16, <1>17, <1>18 DEF CashLeaves

LEMMA ReconcileOrderInv ==
  ASSUME CashInv, NEW o \in Orders, NEW r \in Riders, NEW amount \in Nat,
         ReconcileOrder(o, r, amount)
  PROVE  CashInv'
<1>1. CashLeaves
  BY ReconcileLeaves DEF ReconcileOrder, bounds
<1> QED BY <1>1, CashStepOutside DEF ReconcileOrder

\* What is planned for an order is a number; an amount that the plan adds up to is
\* planned for somebody.
LEMMA PlanOK ==
  ASSUME CashInv, NEW r \in Riders, NEW amount \in Nat
  PROVE  /\ Plan(r, amount) \in [Orders -> Nat]
         /\ \A o \in Orders : Plan(r, amount)[o] > 0 => order[o].rider = r
         /\ amount > 0 /\ amount = Total(Plan(r, amount))
              => \E o \in Orders : Plan(r, amount)[o] > 0
<1>1. TypeOK /\ CashInHandIsPending
  BY TypesOfInv
<1>2. PICK due : due = [o \in Orders |-> IF order[o].rider = r /\ order[o].collected
                                        THEN Pending(o) ELSE 0]
  OBVIOUS
<1>3. due \in [Orders -> Nat]
  BY <1>1, <1>2, PendingOK
<1>4. \A o \in Orders : Sum(due, 1..(o - 1)) \in Nat
  <2>1. SUFFICES ASSUME NEW o \in Orders PROVE Sum(due, 1..(o - 1)) \in Nat
    OBVIOUS
  <2>2. o \in Nat /\ 1..(o - 1) \subseteq Orders
    BY CashAmountAssumption DEF Orders
  <2>3. IsFiniteSet(1..(o - 1))
    BY <2>2, FS_Interval
  <2>4. PICK f : f = [p \in 1..(o - 1) |-> due[p]]
    OBVIOUS
  <2>5. f \in [1..(o - 1) -> Nat]
    BY <1>3, <2>2, <2>4
  <2>6. Sum(f, 1..(o - 1)) \in Nat
    BY <2>3, <2>5, SumNat
  <2>7. Sum(due, 1..(o - 1)) = Sum(f, 1..(o - 1))
    BY <2>3, <2>4, SumSame
  <2> QED BY <2>6, <2>7
<1>5. Plan(r, amount) = [o \in Orders |-> IF amount > Sum(due, 1..(o - 1))
                                          THEN Least(due[o], amount - Sum(due, 1..(o - 1)))
                                          ELSE 0]
  BY <1>2 DEF Plan, Sum
<1>6. ASSUME NEW o \in Orders
      PROVE  (IF amount > Sum(due, 1..(o - 1))
              THEN Least(due[o], amount - Sum(due, 1..(o - 1))) ELSE 0) \in 0..due[o]
  <2>1. PICK b \in Nat : b = Sum(due, 1..(o - 1))
    BY <1>4
  <2>2. PICK d \in Nat : d = due[o]
    BY <1>3
  <2> QED BY <2>1, <2>2 DEF Least
<1>7. /\ Plan(r, amount) \in [Orders -> Nat]
      /\ \A o \in Orders : Plan(r, amount)[o] <= due[o]
  BY <1>3, <1>5, <1>6
<1>9. ASSUME NEW o \in Orders, Plan(r, amount)[o] > 0 PROVE order[o].rider = r
  <2>1. due[o] # 0
    BY <1>3, <1>7, <1>9
  <2> QED BY <1>2, <2>1
<1>8. ASSUME amount > 0, amount = Total(Plan(r, amount)), ~\E o \in Orders : Plan(r, amount)[o] > 0
      PROVE  FALSE
  <2>1. \A o \in Orders : Plan(r, amount)[o] = 0
    BY <1>7, <1>8
  <2>2. Total(Plan(r, amount)) = 0
    BY <2>1, TotalOfZeros
  <2> QED BY <1>8, <2>2
<1> QED BY <1>7, <1>8, <1>9

LEMMA SubmitCashInv ==
  ASSUME CashInv, NEW c \in Contexts, NEW r \in Riders, NEW amount \in Nat,
         SubmitCash(c, r, amount)
  PROVE  CashInv'
<1>1. TypeOK /\ RemitsLeft
  BY TypesOfInv
<1>2. PICK plan : plan = Plan(r, amount)
  OBVIOUS
<1>3. /\ plan \in [Orders -> Nat] /\ \E o \in Orders : plan[o] > 0
      /\ \A o \in Orders : plan[o] > 0 => order[o].rider = r
  BY <1>2, PlanOK DEF SubmitCash
<1>4. PICK h : h = [Idle EXCEPT !.pc = "remit", !.plan = plan, !.rider = r, !.amount = amount]
  OBVIOUS
<1>5. h \in Handlers /\ h.pc = "remit" /\ h.plan = plan /\ h.rider = r
  BY <1>3, <1>4, IdleOK DEF Handlers
<1>6. Begin(c, h)
  BY <1>2, <1>4 DEF SubmitCash
<1>7. Moves(c) /\ ctx'[c] = h /\ ctx[c].pc = "idle"
  BY <1>1, <1>5, <1>6, BeginMoves
<1>8. RemitsLeft'
  <2>1. UNCHANGED order
    BY DEF SubmitCash
  <2> QED BY <1>1, <1>3, <1>5, <1>7, <2>1 DEF RemitsLeft, Moves
<1>9. UNCHANGED <<otp, order, cashInHand, adminCash, txns, history, settlements, faults>>
  BY DEF SubmitCash, money, bounds
<1>10. CashLeaves
  <2>1. CashInHandIsPending'
    BY <1>9, TypesOfInv, CashKept
  <2> QED BY <1>1, <1>9, <2>1 DEF CashLeaves, TypeOK, HistoryRows
<1> QED BY <1>5, <1>7, <1>8, <1>10, CashStep

LEMMA MinIn ==
  ASSUME NEW S, S \subseteq Nat, S # {}
  PROVE  Min(S) \in S
  BY HasLeast DEF Min

LEMMA RemitNextInv ==
  ASSUME CashInv, NEW c \in Contexts, RemitNext(c)
  PROVE  CashInv'
<1>1. TypeOK /\ RemitsLeft
  BY TypesOfInv
<1>2. ctx[c].pc = "remit" /\ ctx[c] \in Handlers
  BY <1>1, CtxOK DEF RemitNext, At
<1>3. PICK left : left = {o \in Orders : ctx[c].plan[o] > 0}
  OBVIOUS
<1>4. left \subseteq Orders /\ left \subseteq Nat /\ left # {}
  BY <1>1, <1>2, <1>3, OrdersFinite DEF RemitsLeft
<1>5. PICK o \in Orders : o = Min(left) /\ o \in left
  BY <1>4, MinIn
<1>6. PICK n \in Nat : n = ctx[c].plan[o]
  BY <1>1, CtxOK
<1>10. ctx[c].rider = order[o].rider /\ order[o].rider \in Riders
  BY <1>1, <1>2, <1>3, <1>5, OrderRow DEF RemitsLeft
<1>7. UNCHANGED <<otp, txns, history, settlements, faults>>
  BY DEF RemitNext, bounds
<1>8. CASE n > Pending(o)
  <2>1. Done(c) /\ UNCHANGED <<order, cashInHand, adminCash>>
    BY <1>3, <1>5, <1>6, <1>8 DEF RemitNext
  <2>2. Moves(c) /\ ctx'[c].pc = "idle"
    BY <1>1, <2>1, DoneMoves
  <2> QED BY <1>1, <1>2, <1>7, <2>1, <2>2, QuietStep, OtpKept, TxnsOK, BoundsOK
<1>9. CASE ~(n > Pending(o))
  <2>1. PICK label \in {"record", "remit"} : label = IF left = {o} THEN "record" ELSE "remit"
    OBVIOUS
  <2>2. Reconcile(o, ctx[c].rider, n) /\ ctx' = [ctx EXCEPT ![c].plan[o] = 0, ![c].pc = label]
    BY <1>3, <1>5, <1>6, <1>9, <2>1 DEF RemitNext
  <2>3. CashLeaves
    BY <1>7, <1>10, <2>2, ReconcileLeaves
  <2>4. PICK plan : plan = [ctx[c].plan EXCEPT ![o] = 0]
    OBVIOUS
  <2>5. plan \in [Orders -> Nat] /\ \A p \in Orders \ {o} : plan[p] = ctx[c].plan[p]
    BY <1>1, <2>4, CtxOK
  <2>6. PICK h : h = [ctx[c] EXCEPT !.plan = plan, !.pc = label]
    OBVIOUS
  <2>7. h \in Handlers /\ h.pc = label /\ h.plan = plan /\ h.rider = ctx[c].rider
    BY <1>2, <2>5, <2>6 DEF Handlers
  <2>8. ctx' = [ctx EXCEPT ![c] = h]
    BY <1>1, <1>2, <2>2, <2>4, <2>6 DEF TypeOK, Handlers
  <2>9. Moves(c) /\ ctx'[c] = h
    BY <1>1, <2>7, <2>8 DEF TypeOK, Moves
  <2>10. label = "remit" => \E p \in Orders : h.plan[p] > 0
    <3>1. SUFFICES ASSUME label = "remit" PROVE \E p \in Orders : h.plan[p] > 0
      OBVIOUS
    <3>2. PICK p \in left : p # o
      BY <1>5, <2>1, <3>1
    <3> QED BY <1>3, <2>5, <2>7, <3>2
  <2>11. \A p \in Orders : order'[p].rider = order[p].rider
    BY <2>3 DEF CashLeaves
  <2>12. \A p \in Orders : h.plan[p] > 0 => order[p].rider = h.rider
    <3>1. \A p \in Orders : ctx[c].plan[p] > 0 => order[p].rider = ctx[c].rider
      BY <1>1, <1>2 DEF RemitsLeft
    <3>2. plan[o] = 0
      BY <1>1, <2>4, CtxOK
    <3> QED BY <2>5, <2>7, <3>1, <3>2
  <2>13. RemitsLeft'
    BY <1>1, <2>7, <2>9, <2>10, <2>11, <2>12 DEF RemitsLeft, Moves
  <2> QED BY <1>2, <2>1, <2>3, <2>7, <2>9, <2>13, CashStep
<1> QED BY <1>8, <1>9

-----------------------------------------------------------------------------
LEMMA StutterInv ==
  ASSUME CashInv, UNCHANGED vars
  PROVE  CashInv'
<1>1. UNCHANGED <<otp, order, cashInHand, adminCash, txns, history, ctx, settlements, faults>>
  BY DEF vars, bounds
<1>2. CashLeaves
  <2>1. TypeOK /\ CashInHandIsPending
    BY TypesOfInv
  <2>2. CashInHandIsPending'
    BY <1>1, <2>1, CashKept
  <2> QED BY <1>1, <2>1, <2>2 DEF CashLeaves, TypeOK, HistoryRows
<1> QED BY <1>1, <1>2, CashStepOutside

LEMMA StepInv == CashInv /\ [Next]_vars => CashInv'
<1>1. SUFFICES ASSUME CashInv, [Next]_vars PROVE CashInv'
  OBVIOUS
<1>2. ASSUME NEW c \in Contexts, Handler(c) PROVE CashInv'
  BY <1>1, <1>2, CreateCodeInv, SaveMissInv, ConsumeCodeInv, DeliverInv, SaveDeliveredInv,
     SettleDeliveredInv, CollectCashInv, WriteRecordsInv, RemitNextInv, RecordSubmissionInv,
     EnterSettlementInv DEF Handler
<1>3. ASSUME NEW c \in Contexts, CashFails(c) \/ Crash(c) PROVE CashInv'
  BY <1>1, <1>3, CashFailsInv, CrashInv
<1>4. ASSUME NEW c \in Contexts, NEW o \in Orders,
             RequestCode(c, o) \/ StatusDelivered(c, o) \/ EndpointDelivered(c, o)
      PROVE  CashInv'
  BY <1>1, <1>4, RequestCodeInv, StatusDeliveredInv, EndpointDeliveredInv
<1>5. ASSUME NEW c \in Contexts, NEW o \in Orders, NEW right \in BOOLEAN, VerifyCode(c, o, right)
      PROVE  CashInv'
  BY <1>1, <1>5, VerifyCodeInv
<1>6. ASSUME NEW o \in Orders, NEW amount \in Amounts, MarkCollected(o, amount) PROVE CashInv'
  <2>1. amount \in Nat BY CashAmountAssumption
  <2> QED BY <1>1, <1>6, <2>1, MarkCollectedInv
<1>7. ASSUME NEW c \in Contexts, NEW r \in Riders, NEW amount \in Amounts,
             CheckSettlement(c, r, amount)
      PROVE  CashInv'
  <2>1. amount \in Nat BY CashAmountAssumption
  <2> QED BY <1>1, <1>7, <2>1, CheckSettlementInv
<1>8. ASSUME NEW o \in Orders, NEW r \in Riders, NEW amount \in 1..Gross,
             ReconcileOrder(o, r, amount)
      PROVE  CashInv'
  <2>1. amount \in Nat BY CashAmountAssumption
  <2> QED BY <1>1, <1>8, <2>1, ReconcileOrderInv
<1>9. ASSUME NEW c \in Contexts, NEW r \in Riders, NEW amount \in 1..(NumOrders * Gross),
             SubmitCash(c, r, amount)
      PROVE  CashInv'
  <2>1. amount \in Nat
    BY <1>9 DEF SubmitCash
  <2> QED BY <1>1, <1>9, <2>1, SubmitCashInv
<1>10. CASE UNCHANGED vars
  BY <1>1, <1>10, StutterInv
<1> QED BY <1>1, <1>2, <1>3, <1>4, <1>5, <1>6, <1>7, <1>8, <1>9, <1>10 DEF Next

LEMMA AlwaysCashInv == Spec => []CashInv
  BY InitInv, StepInv, PTL DEF Spec

\* Every variable keeps its type in every execution: a code's number never passes
\* the codes that may be requested, nor its tries OrderOtp.maxAttempts.
THEOREM CashTypeCorrect == Spec => []TypeOK
<1>1. CashInv => TypeOK
  BY TypesOfInv
<1> QED BY <1>1, AlwaysCashInv, PTL

\* Every delivered order is settled once, or about to be, however many handlers
\* deliver it (settleDeliveredOrder).
THEOREM DeliveredSettledCorrect == Spec => []DeliveredOrderSettled
<1>1. CashInv => DeliveredOrderSettled
  BY TypesOfInv
<1> QED BY <1>1, AlwaysCashInv, PTL

\* The cash of an order is booked once and remitted at most once, into the admin's
\* wallet; every rider who was never mixed up with another by a reconciliation holds
\* what his orders owe, and all the riders together at least what all the orders owe,
\* for any number of orders and riders (handleCodOrderFinance, reconcileCodCash).
THEOREM CashInHandCorrect == Spec => []CashInHandIsPending
<1>1. CashInv => CashInHandIsPending
  BY TypesOfInv
<1> QED BY <1>1, AlwaysCashInv, PTL
=============================================================================
