------------------------ MODULE DelayMachine_proofs -------------------------
(***************************************************************************)
(* The pool of staked MOCs is sound for any owners, amounts and periods,   *)
(* and withdrawals that wait and are cancelled neither harm it nor leave   *)
(* the machine short.                                                      *)
(*                                                                         *)
(* The pool comes first.  The argument is the price of a token,            *)
(* Available / totalSupply: who stakes pays it at least, who withdraws is  *)
(* paid it at most, so rounding never lowers it; distributing and stopping *)
(* a period leave it alone, and vesting raises it.  Ratios are compared by *)
(* cross products and turned into the quotients of the code by             *)
(* QuotientGrows and QuotientPlus.                                         *)
(*                                                                         *)
(* The balances add up to the tokens there are (TokensAddUp), so an owner  *)
(* has no more than all, which the price of a mover needs, and the stakes, *)
(* each rounded down, do not exceed the MOCs that are available.           *)
(*                                                                         *)
(* A step of the machine is a move of the pool or leaves the pool alone,   *)
(* so the pool is sound here too, also for the MOCs that a cancellation    *)
(* stakes, which no bound on deposits covers.  The machine owes the sum of *)
(* the payments: a withdrawal adds to both sides what it takes from the    *)
(* pool, a payment takes its amount from both, and a cancellation stakes   *)
(* no more than its payment (StakesAtPrice), so the rest stay covered.     *)
(***************************************************************************)
EXTENDS DelayMachine, Arithmetic_proofs

-----------------------------------------------------------------------------
(***************************************************************************)
(* Conversions.  A pool is a pair of A MOCs available and T tokens.        *)
(***************************************************************************)

\* What tokens are worth when a token's price does not fall.
LEMMA WorthGrows ==
  ASSUME NEW b \in Nat, NEW A \in Nat, NEW T \in Nat \ {0},
         NEW A2 \in Nat, NEW T2 \in Nat \ {0}, A * T2 <= A2 * T
  PROVE  (b * A) \div T <= (b * A2) \div T2
<1>1. b * (A * T2) <= b * (A2 * T)
  <2>1. A * T2 \in Int /\ A2 * T \in Int
    OBVIOUS
  <2> QED
    BY <2>1, ProductGrows
<1>2. T2 * (b * A) = b * (A * T2) /\ T * (b * A2) = b * (A2 * T)
  BY ProductCommutes, ProductAssociates
<1>3. b * A \in Nat /\ b * A2 \in Nat
  OBVIOUS
<1> QED
  BY <1>1, <1>2, <1>3, QuotientGrows

\* Tokens bought at their price at least do not lower it.
LEMMA PriceAfterPurchase ==
  ASSUME NEW A \in Nat, NEW T \in Nat, NEW t \in Nat, NEW c \in Nat, t * A <= c * T
  PROVE  A * (T + t) <= (A + c) * T
<1>1. A * (T + t) = A * T + A * t
  BY Distributes
<1>2. (A + c) * T = A * T + c * T
  BY Distributes, ProductCommutes
<1>3. A * t = t * A
  BY ProductCommutes
<1>4. A * T \in Nat /\ t * A \in Nat /\ c * T \in Nat
  BY ProductNat
<1> QED
  BY <1>1, <1>2, <1>3, <1>4

\* Tokens sold at their price at most do not lower it.
LEMMA PriceAfterSale ==
  ASSUME NEW A \in Nat, NEW T \in Nat, NEW t \in Nat, NEW q \in Nat, q * T <= t * A
  PROVE  A * (T - t) <= (A - q) * T
<1>1. A * (T - t) = A * T - A * t
  BY Distributes
<1>2. (A - q) * T = A * T - q * T
  <2>1. (A - q) * T = T * (A - q)
    BY ProductCommutes
  <2> QED
    BY <2>1, Distributes, ProductCommutes
<1>3. A * t = t * A
  BY ProductCommutes
<1>4. A * T \in Nat /\ t * A \in Nat /\ q * T \in Nat
  BY ProductNat
<1> QED
  BY <1>1, <1>2, <1>3, <1>4

\* A buyer's stake grows by the MOCs paid at most.
LEMMA BuyerNeverGains ==
  ASSUME NEW A \in Nat, NEW T \in Nat \ {0}, NEW b \in 0..T, NEW t \in Nat, NEW c \in Nat,
         t * A <= c * T
  PROVE  ((b + t) * (A + c)) \div (T + t) <= ((b * A) \div T) + c
<1> DEFINE d == T - b
<1>1. d \in Nat /\ T = b + d
  OBVIOUS
<1> HIDE DEF d
<1>2. (t * A) * d <= (c * T) * d
  <2>1. t * A \in Int /\ c * T \in Int
    OBVIOUS
  <2> QED
    BY <1>1, <2>1, ProductGrows, ProductCommutes
<1>3. T * ((b + t) * (A + c)) = T * (b * A) + T * (b * c) + T * (t * A) + T * (t * c)
  <2>1. (b + t) * (A + c) = b * A + b * c + t * A + t * c
    OBVIOUS
  <2>2. b * A \in Nat /\ b * c \in Nat /\ t * A \in Nat /\ t * c \in Nat
    OBVIOUS
  <2> QED
    BY <2>1, <2>2, Distributes
<1>4. (T + t) * (b * A + T * c) = T * (b * A) + T * (T * c) + t * (b * A) + t * (T * c)
  <2>1. b * A \in Nat /\ T * c \in Nat
    OBVIOUS
  <2> QED
    BY <2>1, Distributes
<1>5. T * (b * c) + T * (t * A) <= T * (T * c) + t * (b * A)
  <2>1. T * (T * c) = T * (b * c) + (c * T) * d
    <3>1. T * c = b * c + d * c
      BY <1>1
    <3>2. b * c \in Nat /\ d * c \in Nat
      BY <1>1
    <3>3. T * (T * c) = T * (b * c) + T * (d * c)
      BY <3>1, <3>2, Distributes
    <3>4. T * (d * c) = (c * T) * d
      BY <1>1, ProductCommutes, ProductAssociates
    <3> QED
      BY <3>3, <3>4
  <2>2. T * (t * A) = t * (b * A) + (t * A) * d
    <3>1. t * A \in Nat
      OBVIOUS
    <3>2. (t * A) * T = (t * A) * b + (t * A) * d
      BY <1>1, <3>1, Distributes
    <3>3. (t * A) * b = t * (b * A)
      BY ProductCommutes, ProductAssociates
    <3> QED
      BY <3>1, <3>2, <3>3, ProductCommutes
  <2>3. T * (b * c) \in Nat /\ t * (b * A) \in Nat /\ (c * T) * d \in Nat /\ (t * A) * d \in Nat
    BY <1>1
  <2> QED
    BY <1>2, <2>1, <2>2, <2>3
<1>6. T * (t * c) = t * (T * c)
  BY ProductCommutes, ProductAssociates
<1>7. T * ((b + t) * (A + c)) <= (T + t) * (b * A + T * c)
  BY <1>3, <1>4, <1>5, <1>6
<1>8. (b + t) * (A + c) \in Nat /\ b * A \in Nat /\ b * A + T * c \in Nat /\ T + t \in Nat \ {0}
  OBVIOUS
<1>9. ((b + t) * (A + c)) \div (T + t) <= (b * A + T * c) \div T
  BY <1>7, <1>8, QuotientGrows
<1> QED
  BY <1>8, <1>9, QuotientPlus

\* A seller's stake falls by the MOCs received at least.
LEMMA SellerNeverGains ==
  ASSUME NEW A \in Nat, NEW T \in Nat \ {0}, NEW b \in 0..T, NEW t \in 0..b, t < T,
         NEW q \in 0..A, q * T <= t * A
  PROVE  (((b - t) * (A - q)) \div (T - t)) + q <= (b * A) \div T
<1> DEFINE d == T - b
           e == b - t
           n == T - t
           B == A - q
<1>1. /\ d \in Nat /\ e \in Nat /\ n \in Nat \ {0} /\ B \in Nat
      /\ T = n + t /\ b = e + t /\ A = B + q /\ n = e + d
  OBVIOUS
<1> HIDE DEF d, e, n, B
<1>2. (q * T) * d <= (t * A) * d
  <2>1. t * A \in Int /\ q * T \in Int
    OBVIOUS
  <2> QED
    BY <1>1, <2>1, ProductGrows, ProductCommutes
<1>3. q * T = q * n + q * t /\ t * A = t * B + t * q
  BY <1>1, Distributes
<1>4. q * t = t * q
  BY ProductCommutes
<1>5. q * n \in Nat /\ q * t \in Nat /\ t * B \in Nat /\ e * B \in Nat /\ e * q \in Nat
  BY <1>1
<1>6. (q * n) * d <= (t * B) * d
  <2>1. (q * n) * d + (q * t) * d <= (t * B) * d + (q * t) * d
    <3>1. (q * n + q * t) * d = (q * n) * d + (q * t) * d
      BY <1>1, <1>5, Distributes, ProductCommutes
    <3>2. (t * B + q * t) * d = (t * B) * d + (q * t) * d
      BY <1>1, <1>5, Distributes, ProductCommutes
    <3> QED
      BY <1>2, <1>3, <1>4, <3>1, <3>2
  <2>2. (q * n) * d \in Nat /\ (q * t) * d \in Nat /\ (t * B) * d \in Nat
    BY <1>1, <1>5, ProductNat
  <2> QED
    BY <2>1, <2>2
<1>7. T * (e * B + n * q) = n * (e * B) + t * (e * B) + n * (n * q) + t * (n * q)
  <2>1. n * q \in Nat
    BY <1>1
  <2>2. (n + t) * (e * B + n * q) = n * (e * B) + t * (e * B) + n * (n * q) + t * (n * q)
    BY <1>1, <1>5, <2>1
  <2> QED
    BY <1>1, <2>2
<1>8. n * (b * A) = n * (e * B) + n * (e * q) + n * (t * B) + n * (t * q)
  <2>1. b * A = e * B + e * q + t * B + t * q
    BY <1>1
  <2> QED
    BY <1>1, <1>4, <1>5, <2>1, Distributes
<1>9. n * (n * q) = n * (e * q) + (q * n) * d
  <2>1. n * q = e * q + d * q
    BY <1>1
  <2>2. d * q \in Nat
    BY <1>1
  <2>3. n * (n * q) = n * (e * q) + n * (d * q)
    BY <1>1, <1>5, <2>1, <2>2, Distributes
  <2>4. n * (d * q) = (q * n) * d
    BY <1>1, ProductCommutes, ProductAssociates
  <2> QED
    BY <2>3, <2>4
<1>10. n * (t * B) = t * (e * B) + (t * B) * d
  <2>1. (t * B) * n = (t * B) * e + (t * B) * d
    BY <1>1, <1>5, Distributes
  <2>2. (t * B) * e = t * (e * B)
    BY <1>1, ProductCommutes, ProductAssociates
  <2>3. n * (t * B) = (t * B) * n
    BY <1>1, <1>5, ProductCommutes
  <2> QED
    BY <2>1, <2>2, <2>3
<1>11. t * (n * q) = n * (t * q)
  BY <1>1, ProductCommutes, ProductAssociates
<1>12. /\ n * (e * B) \in Nat /\ t * (e * B) \in Nat /\ n * (e * q) \in Nat
       /\ n * (t * q) \in Nat /\ (q * n) * d \in Nat /\ (t * B) * d \in Nat
  BY <1>1, <1>4, <1>5, ProductNat
<1>13. T * (e * B + n * q) <= n * (b * A)
  BY <1>6, <1>7, <1>8, <1>9, <1>10, <1>11, <1>12
<1>14. e * B + n * q \in Nat /\ b * A \in Nat
  BY <1>1
<1>15. (e * B + n * q) \div n <= (b * A) \div T
  BY <1>1, <1>13, <1>14, QuotientGrows
<1>16. (e * B + n * q) \div n = ((e * B) \div n) + q
  <2>1. e * B \in Nat /\ n \in Nat \ {0} /\ q \in Nat
    BY <1>1
  <2> QED
    BY <2>1, QuotientPlus, Zenon
<1> QED
  BY <1>15, <1>16 DEF e, B, n

\* A seller's stake falls by the MOCs received and one more at most.
LEMMA SellerLosesOneMore ==
  ASSUME NEW A \in Nat, NEW T \in Nat \ {0}, NEW b \in 0..T, NEW t \in 0..b, t < T
  PROVE  LET q == (t * A) \div T
         IN  ((b * A) \div T) - q - 1 <= ((b - t) * (A - q)) \div (T - t)
<1> DEFINE q == (t * A) \div T
           x == (b * A) \div T
<1>1. t * A \in Nat /\ b * A \in Nat
  OBVIOUS
<1>2. q \in Nat /\ T * q <= t * A /\ t * A < T * (q + 1)
  BY <1>1, Quotient
<1>3. x \in Nat /\ T * x <= b * A
  BY <1>1, Quotient
<1> HIDE DEF q, x
<1>4. q <= A
  <2>1. A * t <= A * T
    BY ProductGrows
  <2>2. T * q <= T * A
    BY <1>1, <1>2, <2>1, ProductCommutes
  <2> QED
    BY <1>2, <2>2, ProductCancels
<1>5. T * (x - q - 1) <= (b - t) * A
  <2>1. T * (x - (q + 1)) = T * x - T * (q + 1)
    BY <1>2, <1>3, Distributes
  <2>2. (b - t) * A = b * A - t * A
    OBVIOUS
  <2>3. x - (q + 1) = x - q - 1
    BY <1>2, <1>3
  <2>4. T * x \in Nat /\ T * (q + 1) \in Nat
    BY <1>2, <1>3
  <2> QED
    BY <1>1, <1>2, <1>3, <2>1, <2>2, <2>3, <2>4
<1>6. x - q - 1 <= ((b - t) * A) \div T
  <2>1. (b - t) * A \in Nat
    OBVIOUS
  <2> QED
    BY <1>2, <1>3, <1>5, <2>1, QuotientLargest
<1>7. ((b - t) * A) \div T <= ((b - t) * (A - q)) \div (T - t)
  <2>1. A * (T - t) <= (A - q) * T
    BY <1>2, PriceAfterSale, ProductCommutes
  <2> QED
    BY <1>2, <1>4, <2>1, WorthGrows
<1>8. ((b - t) * A) \div T \in Nat /\ ((b - t) * (A - q)) \div (T - t) \in Nat
  <2>1. (b - t) * A \in Nat /\ (b - t) * (A - q) \in Nat /\ T - t \in Nat \ {0}
    BY <1>2, <1>4
  <2> QED
    BY <2>1, Quotient
<1>9. x - q - 1 <= ((b - t) * (A - q)) \div (T - t)
  BY <1>2, <1>3, <1>6, <1>7, <1>8
<1> QED
  BY <1>9 DEF x, q

-----------------------------------------------------------------------------
(***************************************************************************)
(* The inductive invariant.                                                *)
(***************************************************************************)

\* Earnings vest from a block that came to one that is later.
VestingTimes ==
    /\ period # 0
    /\ startEarnings <= now
    /\ earnings > 0 => startEarnings < endEarnings

NothingWithoutSupporters == totalSupply = 0 => mocBalance = 0 /\ earnings = 0

PoolInv ==
    /\ PoolTypeOK
    /\ TokensAddUp
    /\ VestingTimes
    /\ NothingWithoutSupporters
    /\ Solvent
    /\ TokenWorthAMoc

-----------------------------------------------------------------------------
(***************************************************************************)
(* Tokens.                                                                 *)
(***************************************************************************)

\* The tokens of two owners are tokens of the pool.
LEMMA HoldersWithinSupply ==
  ASSUME PoolTypeOK, TokensAddUp, NEW o \in Owners
  PROVE  /\ tokenBalances[o] <= totalSupply
         /\ \A p \in Owners \ {o} : tokenBalances[o] + tokenBalances[p] <= totalSupply
<1>1. DOMAIN tokenBalances = Owners /\ \A p \in Owners : tokenBalances[p] \in Nat
  BY DEF PoolTypeOK
<1>2. totalSupply = SumFunctionOnSet(tokenBalances, Owners)
  BY <1>1 DEF TokensAddUp, SumFunction
<1> QED
  BY <1>1, <1>2, OwnersAssumption, SummandsWithin

WithinSupply == \A o \in Owners : tokenBalances[o] <= totalSupply

LEMMA EachWithinSupply == PoolTypeOK /\ TokensAddUp => WithinSupply
BY HoldersWithinSupply DEF WithinSupply

\* Tokens are minted and burnt for one owner.
LEMMA OneBalanceChanges ==
  ASSUME PoolTypeOK, TokensAddUp, NEW o \in Owners, PoolTypeOK',
         \A p \in Owners \ {o} : tokenBalances'[p] = tokenBalances[p],
         totalSupply' = totalSupply + tokenBalances'[o] - tokenBalances[o]
  PROVE  TokensAddUp'
<1> DEFINE f == tokenBalances
           g == tokenBalances'
<1>1. /\ DOMAIN f = Owners /\ \A p \in Owners : f[p] \in Int
      /\ DOMAIN g = Owners /\ \A p \in Owners : g[p] \in Int
  BY DEF PoolTypeOK
<1>2. \A p \in Owners \ {o} : g[p] = f[p]
  OBVIOUS
<1>3. totalSupply = SumFunctionOnSet(f, Owners) /\ totalSupply \in Int
  BY <1>1 DEF TokensAddUp, SumFunction, PoolTypeOK
<1>4. totalSupply' = totalSupply + g[o] - f[o]
  OBVIOUS
<1> HIDE DEF f, g
<1>5. SumFunctionOnSet(g, Owners) = SumFunctionOnSet(f, Owners) - f[o] + g[o]
  BY <1>1, <1>2, OwnersAssumption, SumChangeOne
<1>6. SumFunctionOnSet(g, Owners) = totalSupply'
  BY <1>1, <1>3, <1>4, <1>5
<1> QED
  BY <1>1, <1>6 DEF TokensAddUp, SumFunction, g

-----------------------------------------------------------------------------
(***************************************************************************)
(* The views.                                                              *)
(***************************************************************************)

\* A part of what vests, vests.
LEMMA VestedPart ==
  ASSUME NEW e \in Nat, NEW n \in Nat \ {0}, NEW k \in 0..n
  PROVE  (e * k) \div n \in 0..e
<1>1. e * k \in Nat /\ e * k <= e * n
  BY ProductGrows, ProductNat
<1>2. (e * k) \div n \in Nat /\ n * ((e * k) \div n) <= e * k
  BY <1>1, Quotient
<1> DEFINE q == (e * k) \div n
<1> HIDE DEF q
<1>3. n * q <= n * e
  BY <1>1, <1>2, ProductCommutes DEF q
<1>4. q \in Nat /\ q <= e
  BY <1>2, <1>3, ProductCancels DEF q
<1> QED
  BY <1>4 DEF q

VestedWithin == EarningsAt(now) \in 0..earnings

LEMMA VestedBound == PoolTypeOK /\ VestingTimes => VestedWithin
<1> SUFFICES ASSUME PoolTypeOK, VestingTimes PROVE VestedWithin
  OBVIOUS
<1>1. EarningsAt(now) \in 0..earnings
  <2>1. CASE earnings = 0 \/ now > endEarnings
    BY <2>1 DEF EarningsAt, PoolTypeOK
  <2>2. CASE ~(earnings = 0 \/ now > endEarnings)
    <3>1. /\ endEarnings - startEarnings \in Nat \ {0}
          /\ now - startEarnings \in 0..(endEarnings - startEarnings)
          /\ earnings \in Nat
      BY <2>2 DEF VestingTimes, PoolTypeOK
    <3>2. (earnings * (now - startEarnings)) \div (endEarnings - startEarnings) \in 0..earnings
      BY <3>1, VestedPart
    <3> QED
      BY <2>2, <3>2 DEF EarningsAt
  <2> QED
    BY <2>1, <2>2
<1> QED
  BY <1>1 DEF VestedWithin

LEMMA EarningsBound ==
  ASSUME PoolTypeOK, VestingTimes
  PROVE  EarningsAt(now) \in 0..earnings /\ LockedAt(now) \in 0..earnings
BY VestedBound DEF VestedWithin, LockedAt, PoolTypeOK

LEMMA EarningsBoundNext ==
  ASSUME PoolTypeOK', VestingTimes'
  PROVE  EarningsAt(now)' \in 0..earnings'
<1>1. VestedWithin'
  BY VestedBound, PTL
<1> QED
  BY <1>1 DEF VestedWithin

\* With supporters, conversions are quotients; with none, nothing is worth anything.
ConversionsAreExact ==
    /\ Available \in Nat /\ totalSupply \in Nat /\ totalSupply <= Available
    /\ totalSupply = 0 => Available = 0
    /\ Available <= mocBalance
    /\ \A t \in Nat :
         TokenToMoc(t) = IF totalSupply = 0 THEN 0 ELSE (t * Available) \div totalSupply
    /\ \A o \in Owners :
         /\ tokenBalances[o] \in Nat
         /\ MocBalanceOf(o) = IF totalSupply = 0
                              THEN 0
                              ELSE (tokenBalances[o] * Available) \div totalSupply

LEMMA Conversions == PoolInv => ConversionsAreExact
<1> SUFFICES ASSUME PoolInv PROVE ConversionsAreExact
  OBVIOUS
<1>1. LockedAt(now) \in Nat /\ mocBalance \in Nat /\ LockedAt(now) <= mocBalance
  BY EarningsBound DEF PoolInv, PoolTypeOK, Solvent
<1>2. Available \in Nat /\ Available <= mocBalance
  BY <1>1 DEF Available
<1>3. /\ totalSupply \in Nat /\ totalSupply <= Available
      /\ totalSupply = 0 => Available = 0
  BY <1>2 DEF PoolInv, PoolTypeOK, TokenWorthAMoc
<1>4. \A t \in Nat :
        TokenToMoc(t) = IF totalSupply = 0 THEN 0 ELSE (t * Available) \div totalSupply
  BY <1>2, <1>3 DEF TokenToMoc
<1>5. \A o \in Owners : tokenBalances[o] \in Nat
  BY DEF PoolInv, PoolTypeOK
<1>6. \A o \in Owners :
        MocBalanceOf(o) = IF totalSupply = 0
                          THEN 0
                          ELSE (tokenBalances[o] * Available) \div totalSupply
  BY <1>4, <1>5 DEF MocBalanceOf
<1> QED
  BY <1>2, <1>3, <1>4, <1>5, <1>6 DEF ConversionsAreExact

LEMMA ConversionsNext ==
  ASSUME PoolInv'
  PROVE  ConversionsAreExact'
BY Conversions, PTL

LEMMA StakeIsNat ==
  ASSUME PoolInv, NEW o \in Owners
  PROVE  MocBalanceOf(o) \in Nat
<1>1. ConversionsAreExact
  BY Conversions
<1>2. tokenBalances[o] * Available \in Nat
  BY <1>1, ProductNat DEF ConversionsAreExact
<1>3. CASE totalSupply = 0
  BY <1>1, <1>3 DEF ConversionsAreExact
<1>4. CASE totalSupply # 0
  <2>1. (tokenBalances[o] * Available) \div totalSupply \in Nat
    BY <1>1, <1>2, <1>4, Quotient DEF ConversionsAreExact
  <2> QED
    BY <1>1, <1>4, <2>1 DEF ConversionsAreExact
<1> QED
  BY <1>3, <1>4

StakesAreNat == \A o \in Owners : MocBalanceOf(o) \in Nat

LEMMA StakesNat == PoolInv => StakesAreNat
BY StakeIsNat DEF StakesAreNat

-----------------------------------------------------------------------------
(***************************************************************************)
(* Stakes.                                                                 *)
(***************************************************************************)

\* mocs buy tokens at their price at least, and an empty pool sells them at par.
AtPrice(tokens, mocs) ==
    IF totalSupply = 0 THEN tokens = mocs ELSE tokens * Available <= mocs * totalSupply

LEMMA StakesAtPrice ==
  ASSUME PoolInv, NEW mocs \in Nat
  PROVE  /\ MocToToken(mocs) \in Nat
         /\ AtPrice(MocToToken(mocs), mocs)
         /\ MocToToken(mocs) > 0 => /\ Charged(mocs) \in 0..mocs
                                    /\ AtPrice(MocToToken(mocs), Charged(mocs))
<1>1. ConversionsAreExact
  BY Conversions
<1>2. CASE totalSupply = 0
  <2>1. Available = 0 /\ MocToToken(mocs) = mocs
    BY <1>1, <1>2 DEF ConversionsAreExact, MocToToken
  <2>2. Charged(mocs) = mocs
    BY <2>1 DEF Charged, TokenToMocUP
  <2> QED
    BY <1>2, <2>1, <2>2 DEF AtPrice
<1>3. CASE totalSupply # 0
  <2> DEFINE A == Available
             T == totalSupply
             t == MocToToken(mocs)
             w == t * A + T - 1
  <2>1. A \in Nat \ {0} /\ T \in Nat \ {0}
    BY <1>1, <1>3 DEF ConversionsAreExact
  <2>2. t = (mocs * T) \div A
    BY <2>1 DEF MocToToken
  <2> HIDE DEF A, T, t
  <2>3. mocs * T \in Nat
    BY <2>1
  <2>4. t \in Nat /\ A * t <= mocs * T
    BY <2>1, <2>2, <2>3, Quotient
  <2>5. A * t = t * A /\ t * A \in Nat /\ mocs * T = T * mocs
    BY <2>1, <2>4, ProductCommutes
  <2>6. w \in Nat
    BY <2>1, <2>5
  <2>7. w \div T \in Nat /\ T * (w \div T) <= w /\ w < T * ((w \div T) + 1)
    BY <2>1, <2>6, Quotient
  <2> DEFINE c == w \div T
  <2> HIDE DEF c
  <2>8. c \in Nat /\ T * c <= w /\ w < T * (c + 1)
    BY <2>7 DEF c
  <2>9. T * (c + 1) = T * c + T /\ c * T = T * c /\ T * c \in Nat
    BY <2>1, <2>8
  <2>10. t * A <= c * T
    BY <2>1, <2>5, <2>8, <2>9
  <2>11. c <= mocs
    <3>1. T * mocs + T = T * (mocs + 1)
      BY <2>1
    <3>2. CASE c >= mocs + 1
      <4>1. T * (mocs + 1) <= T * c
        BY <2>1, <2>8, <3>2, ProductGrows
      <4> QED
        BY <2>1, <2>3, <2>4, <2>5, <2>8, <3>1, <4>1
    <3> QED
      BY <2>8, <3>2
  <2>12. TokenToMocUP(t) = c
    BY <2>1 DEF TokenToMocUP, c, A, T
  <2>13. ASSUME t > 0
         PROVE  Charged(mocs) = c
    <3>1. t * A >= 1
      BY <2>1, <2>4, <2>13
    <3>2. ASSUME c = 0
          PROVE  FALSE
      <4>1. c * T = 0
        BY <2>1, <3>2
      <4> QED
        BY <2>5, <2>10, <3>1, <4>1
    <3> QED
      BY <2>12, <3>2 DEF Charged, t
  <2>14. t * A <= mocs * T
    BY <2>4, <2>5
  <2> QED
    BY <1>3, <2>4, <2>8, <2>10, <2>11, <2>13, <2>14 DEF AtPrice, t, A, T
<1> QED
  BY <1>2, <1>3

LEMMA StakeKeepsInv ==
  ASSUME PoolInv, NEW o \in Owners, NEW tokens \in Nat, NEW mocs \in Nat,
         AtPrice(tokens, mocs), StakeInternal(o, tokens, mocs)
  PROVE  PoolInv' /\ Available' = Available + mocs
<1>1. ConversionsAreExact
  BY Conversions
<1>2. PoolTypeOK'
  BY DEF PoolInv, PoolTypeOK, StakeInternal, vesting
<1>3. TokensAddUp'
  <2>1. /\ tokenBalances'[o] = tokenBalances[o] + tokens
        /\ \A p \in Owners \ {o} : tokenBalances'[p] = tokenBalances[p]
        /\ totalSupply' = totalSupply + tokens
        /\ tokenBalances[o] \in Nat /\ totalSupply \in Nat
    BY DEF PoolInv, PoolTypeOK, StakeInternal
  <2> QED
    BY <1>2, <2>1, OneBalanceChanges DEF PoolInv
<1>4. VestingTimes'
  BY DEF PoolInv, VestingTimes, StakeInternal, vesting
<1>5. LockedAt(now)' = LockedAt(now) /\ LockedAt(now) \in Nat
  <2>1. LockedAt(now) \in Nat
    BY EarningsBound DEF PoolInv, PoolTypeOK
  <2> QED
    BY <2>1 DEF LockedAt, EarningsAt, StakeInternal, vesting
<1>6. Available' = Available + mocs
  BY <1>5 DEF Available, StakeInternal, PoolInv, PoolTypeOK
<1>7. Solvent'
  BY <1>5 DEF PoolInv, PoolTypeOK, Solvent, StakeInternal
<1>8. totalSupply' = totalSupply + tokens
  BY DEF StakeInternal
<1>9. tokens <= mocs
  <2>1. CASE totalSupply = 0
    BY <2>1 DEF AtPrice
  <2>2. CASE totalSupply # 0
    <3> DEFINE A == Available
               T == totalSupply
    <3>1. A \in Nat /\ T \in Nat \ {0} /\ T <= A /\ tokens * A <= mocs * T
      BY <1>1, <2>2 DEF ConversionsAreExact, AtPrice
    <3> HIDE DEF A, T
    <3>2. tokens * T <= tokens * A
      BY <3>1, ProductGrows
    <3>3. T * tokens <= T * mocs
      BY <3>1, <3>2, ProductCommutes
    <3> QED
      BY <3>1, <3>3, ProductCancels
  <2> QED
    BY <2>1, <2>2
<1>10. NothingWithoutSupporters'
  <2>1. ASSUME totalSupply' = 0
        PROVE  totalSupply = 0 /\ mocs = 0
    <3>1. totalSupply = 0
      BY <1>1, <1>8, <2>1 DEF ConversionsAreExact
    <3> QED
      BY <1>8, <2>1, <3>1 DEF AtPrice
  <2> QED
    BY <2>1 DEF NothingWithoutSupporters, PoolInv, StakeInternal, vesting
<1>11. TokenWorthAMoc'
  <2>1. totalSupply' <= Available'
    BY <1>1, <1>6, <1>8, <1>9 DEF ConversionsAreExact
  <2>2. ASSUME totalSupply' = 0
        PROVE  Available' = 0
    <3>1. totalSupply = 0
      BY <1>1, <1>8, <2>2 DEF ConversionsAreExact
    <3>2. Available = 0 /\ mocs = 0
      BY <1>1, <1>8, <2>2, <3>1 DEF ConversionsAreExact, AtPrice
    <3> QED
      BY <1>6, <3>2
  <2> QED
    BY <1>1, <1>6, <1>8, <2>1, <2>2 DEF ConversionsAreExact, TokenWorthAMoc
<1> QED
  BY <1>2, <1>3, <1>4, <1>6, <1>7, <1>10, <1>11 DEF PoolInv

\* What tokens are worth, and no more than what is available.
LEMMA WorthOfTokens ==
  ASSUME PoolInv, NEW t \in 0..totalSupply
  PROVE  /\ TokenToMoc(t) \in 0..Available
         /\ TokenToMoc(t) * totalSupply <= t * Available
         /\ t = totalSupply => TokenToMoc(t) = Available
<1>1. ConversionsAreExact
  BY Conversions
<1>2. CASE totalSupply = 0
  BY <1>1, <1>2 DEF ConversionsAreExact
<1>3. CASE totalSupply # 0
  <2> DEFINE A == Available
             T == totalSupply
             q == TokenToMoc(t)
  <2>1. A \in Nat /\ T \in Nat \ {0} /\ t \in 0..T /\ q = (t * A) \div T
    BY <1>1, <1>3 DEF ConversionsAreExact
  <2> HIDE DEF A, T, q
  <2>2. t * A \in Nat
    BY <2>1
  <2>3. q \in Nat /\ T * q <= t * A
    BY <2>1, <2>2, Quotient
  <2>4. A * t <= A * T
    BY <2>1, ProductGrows
  <2>5. T * q <= T * A
    BY <2>1, <2>2, <2>3, <2>4, ProductCommutes
  <2>6. q <= A
    BY <2>1, <2>3, <2>5, ProductCancels
  <2>7. q * T <= t * A
    BY <2>1, <2>3, ProductCommutes
  <2>8. ASSUME t = T
        PROVE  q = A
    <3>1. T * A <= t * A
      BY <2>8, <2>2
    <3>2. A <= q
      BY <2>1, <2>2, <3>1, QuotientLargest
    <3> QED
      BY <2>1, <2>3, <2>6, <3>2
  <2> QED
    BY <2>3, <2>6, <2>7, <2>8 DEF q, A, T
<1> QED
  BY <1>2, <1>3

\* The last supporter takes all that is available.
LEMMA WithdrawKeepsInv ==
  ASSUME PoolInv, NEW o \in Owners, NEW t \in 0..tokenBalances[o], Withdraw(o, t)
  PROVE  /\ PoolInv'
         /\ t \in 0..totalSupply
         /\ totalSupply' = totalSupply - t
         /\ Available' = Available - TokenToMoc(t)
<1> DEFINE q == TokenToMoc(t)
<1>1. ConversionsAreExact
  BY Conversions
<1>2. tokenBalances[o] \in Nat /\ tokenBalances[o] <= totalSupply
  BY <1>1, HoldersWithinSupply DEF PoolInv, ConversionsAreExact
<1>3. t \in 0..totalSupply
  BY <1>1, <1>2 DEF ConversionsAreExact
<1>4. /\ q \in 0..Available
      /\ q * totalSupply <= t * Available
      /\ t = totalSupply => q = Available
  BY <1>3, WorthOfTokens
<1>5. /\ tokenBalances' = [tokenBalances EXCEPT ![o] = @ - t]
      /\ totalSupply' = totalSupply - t
      /\ balance' = balance - q
      /\ mocBalance' = IF totalSupply' = 0 THEN 0 ELSE mocBalance - q
      /\ earnings' = IF totalSupply' = 0 THEN 0 ELSE earnings
      /\ UNCHANGED <<startEarnings, endEarnings, period, lockedMocs, now>>
  BY DEF Withdraw
<1> HIDE DEF q
<1>6. Available \in Nat /\ Available <= mocBalance /\ mocBalance <= balance /\ totalSupply \in Nat
  BY <1>1 DEF ConversionsAreExact, PoolInv, Solvent
<1>7. totalSupply' \in Nat /\ (totalSupply' = 0 <=> t = totalSupply)
  BY <1>3, <1>5, <1>6
<1>8. mocBalance' \in Nat /\ balance' \in Nat /\ mocBalance' <= balance'
  BY <1>4, <1>5, <1>6 DEF PoolInv, PoolTypeOK
<1>9. PoolTypeOK'
  <2>1. tokenBalances' \in [Owners -> Nat]
    BY <1>2, <1>5 DEF PoolInv, PoolTypeOK
  <2> QED
    BY <1>5, <1>7, <1>8, <2>1 DEF PoolInv, PoolTypeOK
<1>10. TokensAddUp'
  <2>1. /\ tokenBalances'[o] = tokenBalances[o] - t
        /\ \A p \in Owners \ {o} : tokenBalances'[p] = tokenBalances[p]
        /\ tokenBalances[o] \in Nat /\ totalSupply \in Nat /\ t \in Nat
        /\ totalSupply' = totalSupply - t
    BY <1>2, <1>3, <1>5 DEF PoolInv, PoolTypeOK
  <2> QED
    BY <1>9, <2>1, OneBalanceChanges DEF PoolInv
<1>11. VestingTimes'
  BY <1>5 DEF PoolInv, VestingTimes
<1>12. NothingWithoutSupporters'
  BY <1>5 DEF NothingWithoutSupporters
<1>13. CASE totalSupply' = 0
  <2>1. LockedAt(now)' = 0
    BY <1>5, <1>13 DEF LockedAt, EarningsAt
  <2>2. Available' = 0 /\ mocBalance' = 0
    BY <1>5, <1>13, <2>1 DEF Available
  <2>3. q = Available
    BY <1>4, <1>7, <1>13
  <2>4. Available' = Available - q
    BY <1>6, <2>2, <2>3
  <2>5. Solvent' /\ TokenWorthAMoc'
    BY <1>8, <1>13, <2>1, <2>2 DEF Solvent, TokenWorthAMoc
  <2> QED
    BY <1>3, <1>5, <1>9, <1>10, <1>11, <1>12, <2>4, <2>5 DEF PoolInv, q
<1>14. CASE totalSupply' # 0
  <2>1. LockedAt(now)' = LockedAt(now) /\ LockedAt(now) \in Nat
    <3>1. LockedAt(now) \in Nat
      BY EarningsBound DEF PoolInv, PoolTypeOK
    <3> QED
      BY <1>5, <1>14, <3>1 DEF LockedAt, EarningsAt
  <2>2. Available' = Available - q /\ mocBalance' = mocBalance - q
    BY <1>4, <1>5, <1>6, <1>14, <2>1 DEF Available, PoolInv, PoolTypeOK
  <2>3. Solvent'
    <3>1. LockedAt(now) <= mocBalance - q
      BY <1>4, <1>6, <2>1 DEF Available, PoolInv, PoolTypeOK
    <3> QED
      BY <1>8, <2>1, <2>2, <3>1 DEF Solvent
  <2>4. totalSupply' <= Available'
    <3> DEFINE A == Available
               T == totalSupply
    <3>1. /\ A \in Nat /\ T \in Nat \ {0} /\ T <= A /\ q \in 0..A /\ t \in 0..T
          /\ q * T <= t * A
      BY <1>1, <1>3, <1>4, <1>5, <1>14 DEF ConversionsAreExact
    <3> HIDE DEF A, T
    <3>2. A * (T - t) <= (A - q) * T
      BY <3>1, PriceAfterSale
    <3>3. (T - t) * T <= (T - t) * A
      BY <3>1, ProductGrows
    <3>4. T * (T - t) <= T * (A - q)
      <4>1. T - t \in Nat /\ A - q \in Nat
        BY <3>1
      <4>2. (T - t) * T \in Nat /\ (T - t) * A \in Nat /\ (A - q) * T \in Nat
        BY <3>1, <4>1, ProductNat
      <4>3. (T - t) * A = A * (T - t) /\ (T - t) * T = T * (T - t) /\ (A - q) * T = T * (A - q)
        BY <3>1, <4>1, ProductCommutes
      <4> QED
        BY <3>2, <3>3, <4>2, <4>3
    <3>5. T - t <= A - q
      <4>1. T - t \in Int /\ A - q \in Int
        BY <3>1
      <4> QED
        BY <3>1, <3>4, <4>1, ProductCancels
    <3> QED
      BY <1>5, <2>2, <3>5 DEF A, T
  <2>5. TokenWorthAMoc'
    BY <1>4, <1>6, <1>7, <1>14, <2>2, <2>4 DEF TokenWorthAMoc
  <2> QED
    BY <1>3, <1>5, <1>9, <1>10, <1>11, <1>12, <2>2, <2>3, <2>5 DEF PoolInv, q
<1> QED
  BY <1>13, <1>14

-----------------------------------------------------------------------------
(***************************************************************************)
(* Earnings, locks and blocks.                                             *)
(***************************************************************************)

\* Nothing of what the other steps do touches the tokens.
LEMMA SharesStay ==
  ASSUME PoolInv, UNCHANGED shares
  PROVE  TokensAddUp'
BY DEF PoolInv, TokensAddUp, shares

LEMMA DistributeKeepsInv ==
  ASSUME PoolInv, Distribute
  PROVE  PoolInv' /\ Available' = Available
<1>1. ConversionsAreExact
  BY Conversions
<1>2. /\ mocBalance \in Nat /\ balance \in Nat /\ mocBalance <= balance
      /\ now \in Nat /\ period \in Nat \ {0} /\ earnings \in Nat
  BY DEF PoolInv, PoolTypeOK, Solvent, VestingTimes
<1>3. /\ earnings' = balance - mocBalance /\ earnings' \in Nat
      /\ startEarnings' = now /\ endEarnings' = now + period
      /\ mocBalance' = balance /\ now' = now /\ balance' = balance
      /\ UNCHANGED <<shares, period, lockedMocs>>
  BY <1>2 DEF Distribute
<1>4. Available = mocBalance
  BY <1>2 DEF Distribute, IsReadyToDistribute, Available, LockedAt, EarningsAt
<1>5. EarningsAt(now)' = 0
  <2>1. CASE earnings' = 0
    BY <2>1 DEF EarningsAt
  <2>2. CASE earnings' # 0
    <3>1. EarningsAt(now)' = (earnings' * (now - now)) \div ((now + period) - now)
      BY <1>2, <1>3, <2>2 DEF EarningsAt
    <3>2. earnings' * (now - now) = 0 /\ (now + period) - now = period
      BY <1>2, <1>3
    <3>3. 0 \div period \in 0..0
      BY <1>2, VestedPart
    <3> QED
      BY <3>1, <3>2, <3>3
  <2> QED
    BY <2>1, <2>2
<1>6. LockedAt(now)' = balance - mocBalance
  BY <1>2, <1>3, <1>5 DEF LockedAt
<1>7. Available' = Available
  BY <1>2, <1>3, <1>4, <1>6 DEF Available
<1>8. PoolTypeOK'
  BY <1>2, <1>3 DEF PoolInv, PoolTypeOK, shares
<1>9. VestingTimes'
  BY <1>2, <1>3 DEF VestingTimes
<1>10. NothingWithoutSupporters'
  BY <1>1, <1>3 DEF Distribute, IsReadyToDistribute, NothingWithoutSupporters, shares,
                   ConversionsAreExact
<1>11. Solvent'
  BY <1>2, <1>3, <1>6 DEF Solvent
<1>12. TokenWorthAMoc'
  BY <1>3, <1>7 DEF PoolInv, TokenWorthAMoc, shares
<1> QED
  BY <1>3, <1>7, <1>8, <1>9, <1>10, <1>11, <1>12, SharesStay DEF PoolInv

LEMMA StopPeriodKeepsInv ==
  ASSUME PoolInv, StopPeriod
  PROVE  PoolInv' /\ Available' = Available
<1>1. Available \in Nat /\ Available <= mocBalance
  BY Conversions DEF ConversionsAreExact
<1>2. /\ mocBalance' = Available /\ earnings' = 0 /\ endEarnings' = now
      /\ UNCHANGED <<balance, shares, startEarnings, period, lockedMocs, now>>
  BY DEF StopPeriod, Available
<1>3. LockedAt(now)' = 0
  BY <1>2 DEF LockedAt, EarningsAt
<1>4. Available' = Available
  BY <1>1, <1>2, <1>3 DEF Available
<1>5. PoolTypeOK'
  BY <1>1, <1>2 DEF PoolInv, PoolTypeOK, shares
<1>6. VestingTimes'
  BY <1>2 DEF PoolInv, VestingTimes
<1>7. NothingWithoutSupporters'
  BY <1>2 DEF PoolInv, TokenWorthAMoc, NothingWithoutSupporters, shares
<1>8. Solvent'
  BY <1>1, <1>2, <1>3 DEF PoolInv, PoolTypeOK, Solvent
<1>9. TokenWorthAMoc'
  BY <1>2, <1>4 DEF PoolInv, TokenWorthAMoc, shares
<1> QED
  BY <1>2, <1>4, <1>5, <1>6, <1>7, <1>8, <1>9, SharesStay DEF PoolInv

\* What has vested stays vested.
LEMMA NextBlockKeepsInv ==
  ASSUME PoolInv, NextBlock
  PROVE  PoolInv' /\ Available <= Available'
<1>1. ConversionsAreExact
  BY Conversions
<1>2. /\ now' = now + 1
      /\ UNCHANGED <<mocBalance, balance, shares, vesting, period, lockedMocs>>
  BY DEF NextBlock
<1>3. PoolTypeOK'
  BY <1>2 DEF PoolInv, PoolTypeOK, shares, vesting
<1>4. VestingTimes'
  BY <1>2 DEF PoolInv, PoolTypeOK, VestingTimes, vesting
<1>5. NothingWithoutSupporters'
  BY <1>2 DEF PoolInv, NothingWithoutSupporters, shares, vesting
<1>6. EarningsAt(now) \in 0..earnings /\ EarningsAt(now)' \in 0..earnings
  <2>1. EarningsAt(now) \in 0..earnings
    BY EarningsBound DEF PoolInv
  <2>2. EarningsAt(now)' \in 0..earnings'
    BY <1>3, <1>4, EarningsBoundNext
  <2> QED
    BY <1>2, <2>1, <2>2 DEF vesting
<1>7. earnings \in Nat
  BY DEF PoolInv, PoolTypeOK
<1>8. EarningsAt(now) <= EarningsAt(now)'
  <2>1. CASE earnings' = 0 \/ now' > endEarnings'
    <3>1. EarningsAt(now)' = earnings
      BY <1>2, <2>1 DEF EarningsAt, vesting
    <3> QED
      BY <1>6, <1>7, <3>1
  <2>2. CASE ~(earnings' = 0 \/ now' > endEarnings')
    <3> DEFINE e == earnings
               k == now - startEarnings
               n == endEarnings - startEarnings
    <3>1. e \in Nat /\ k \in Nat /\ n \in Nat \ {0}
      BY <1>2, <2>2 DEF PoolInv, PoolTypeOK, VestingTimes, vesting
    <3>2. ~(earnings = 0 \/ now > endEarnings)
      BY <1>2, <2>2 DEF PoolInv, PoolTypeOK, vesting
    <3>3. EarningsAt(now) = (e * k) \div n
      BY <3>2 DEF EarningsAt
    <3>4. EarningsAt(now)' = (e * (k + 1)) \div n
      <4>1. (now + 1) - startEarnings = k + 1
        BY DEF PoolInv, PoolTypeOK
      <4>2. EarningsAt(now)' = (earnings * ((now + 1) - startEarnings)) \div (endEarnings - startEarnings)
        BY <1>2, <2>2 DEF EarningsAt, vesting
      <4> QED
        BY <4>1, <4>2
    <3> HIDE DEF e, k, n
    <3>5. n * (e * k) <= n * (e * (k + 1))
      <4>1. e * k <= e * (k + 1)
        BY <3>1, ProductGrows
      <4>2. e * k \in Int /\ e * (k + 1) \in Int
        BY <3>1
      <4> QED
        BY <3>1, <4>1, <4>2, ProductGrows
    <3>6. e * k \in Nat /\ e * (k + 1) \in Nat
      BY <3>1, ProductNat
    <3>7. (e * k) \div n <= (e * (k + 1)) \div n
      BY <3>1, <3>5, <3>6, QuotientGrows
    <3> QED
      BY <3>3, <3>4, <3>7
  <2> QED
    BY <2>1, <2>2
<1>9. /\ LockedAt(now) \in Nat /\ LockedAt(now)' \in Nat
      /\ LockedAt(now)' <= LockedAt(now)
  BY <1>2, <1>6, <1>7, <1>8 DEF LockedAt, vesting
<1>10. Available <= Available'
  BY <1>2, <1>9 DEF Available, PoolInv, PoolTypeOK
<1>11. Solvent'
  BY <1>2, <1>9 DEF PoolInv, PoolTypeOK, Solvent
<1>12. TokenWorthAMoc'
  <2>1. ASSUME totalSupply' = 0
        PROVE  Available' = 0
    <3>1. mocBalance = 0 /\ earnings = 0
      BY <1>2, <2>1 DEF PoolInv, NothingWithoutSupporters, shares
    <3> QED
      BY <1>2, <3>1 DEF Available, LockedAt, EarningsAt, vesting
  <2>2. Available' \in Int
    BY <1>2, <1>9 DEF Available, PoolInv, PoolTypeOK
  <2> QED
    BY <1>1, <1>2, <1>10, <2>1, <2>2 DEF TokenWorthAMoc, shares, ConversionsAreExact
<1> QED
  BY <1>2, <1>3, <1>4, <1>5, <1>10, <1>11, <1>12, SharesStay DEF PoolInv

LEMMA PoolStepKeepsInv ==
  ASSUME PoolInv, PoolStep
  PROVE  PoolInv' /\ Available <= Available' /\ UNCHANGED shares
<1>1. Available \in Nat
  BY Conversions DEF ConversionsAreExact
<1>2. ASSUME NEW mocs \in 1..MaxMocs, ReceiveMocs(mocs)
      PROVE  PoolInv' /\ Available <= Available' /\ UNCHANGED shares
  <2>1. /\ balance' = balance + mocs
        /\ UNCHANGED <<mocBalance, shares, vesting, period, lockedMocs, now>>
    BY <1>2 DEF ReceiveMocs
  <2>2. PoolTypeOK'
    BY <2>1, SupportersBoundsAssumption DEF PoolInv, PoolTypeOK, shares, vesting
  <2>3. VestingTimes' /\ NothingWithoutSupporters'
    BY <2>1 DEF PoolInv, VestingTimes, NothingWithoutSupporters, shares, vesting
  <2>4. LockedAt(now)' = LockedAt(now) /\ Available' = Available
    BY <2>1 DEF Available, LockedAt, EarningsAt, vesting
  <2>5. Solvent'
    BY <2>1, <2>4, SupportersBoundsAssumption DEF PoolInv, PoolTypeOK, Solvent
  <2>6. TokenWorthAMoc'
    BY <2>1, <2>4 DEF PoolInv, TokenWorthAMoc, shares
  <2> QED
    BY <1>1, <2>1, <2>2, <2>3, <2>4, <2>5, <2>6, SharesStay DEF PoolInv
<1>3. CASE Distribute
  BY <1>1, <1>3, DistributeKeepsInv DEF Distribute
<1>4. ASSUME NEW p \in Periods, SetPeriod(p)
      PROVE  PoolInv' /\ Available <= Available' /\ UNCHANGED shares
  <2>1. /\ period' = p
        /\ UNCHANGED <<mocBalance, balance, shares, vesting, lockedMocs, now>>
    BY <1>4 DEF SetPeriod
  <2>2. PoolTypeOK'
    BY <2>1, PeriodsAssumption DEF PoolInv, PoolTypeOK, shares, vesting
  <2>3. VestingTimes' /\ NothingWithoutSupporters'
    BY <2>1, PeriodsAssumption
       DEF PoolInv, VestingTimes, NothingWithoutSupporters, shares, vesting
  <2>4. LockedAt(now)' = LockedAt(now) /\ Available' = Available
    BY <2>1 DEF Available, LockedAt, EarningsAt, vesting
  <2>5. Solvent' /\ TokenWorthAMoc'
    BY <2>1, <2>4 DEF PoolInv, Solvent, TokenWorthAMoc, shares
  <2> QED
    BY <1>1, <2>1, <2>2, <2>3, <2>4, <2>5, SharesStay DEF PoolInv
<1>5. CASE StopPeriod
  BY <1>1, <1>5, StopPeriodKeepsInv DEF StopPeriod
<1>6. CASE NextBlock
  BY <1>6, NextBlockKeepsInv DEF NextBlock
<1>7. ASSUME NEW o \in Owners, NEW until \in LockTimes, LockMocs(o, until)
      PROVE  PoolInv' /\ Available <= Available' /\ UNCHANGED shares
  <2>1. /\ lockedMocs' = [lockedMocs EXCEPT ![o] = [amount |-> MocBalanceOf(o), until |-> until]]
        /\ UNCHANGED <<mocBalance, balance, shares, vesting, period, now>>
    BY <1>7 DEF LockMocs
  <2>2. MocBalanceOf(o) \in Nat
    BY StakeIsNat
  <2>3. PoolTypeOK'
    BY <2>1, <2>2, LockTimesAssumption DEF PoolInv, PoolTypeOK, shares, vesting
  <2>4. VestingTimes' /\ NothingWithoutSupporters'
    BY <2>1 DEF PoolInv, VestingTimes, NothingWithoutSupporters, shares, vesting
  <2>5. LockedAt(now)' = LockedAt(now) /\ Available' = Available
    BY <2>1 DEF Available, LockedAt, EarningsAt, vesting
  <2>6. Solvent' /\ TokenWorthAMoc'
    BY <2>1, <2>5 DEF PoolInv, Solvent, TokenWorthAMoc, shares
  <2> QED
    BY <1>1, <2>1, <2>3, <2>4, <2>5, <2>6, SharesStay DEF PoolInv
<1> QED
  BY <1>2, <1>3, <1>4, <1>5, <1>6, <1>7 DEF PoolStep

-----------------------------------------------------------------------------
(***************************************************************************)
(* What a step does to the stakes.                                         *)
(***************************************************************************)

LEMMA WithinSupplyNext ==
  ASSUME PoolInv'
  PROVE  WithinSupply'
<1>1. PoolTypeOK' /\ TokensAddUp'
  BY DEF PoolInv
<1> QED
  BY <1>1, EachWithinSupply, PTL

\* While a token's price does not fall, who keeps tokens keeps the stake.
LEMMA StakesKept ==
  ASSUME PoolInv, PoolInv', NEW p \in Owners, tokenBalances[p] <= tokenBalances'[p],
         Available * totalSupply' <= Available' * totalSupply
  PROVE  MocBalanceOf(p) <= MocBalanceOf(p)'
<1>1. ConversionsAreExact /\ ConversionsAreExact'
  BY Conversions, ConversionsNext
<1>2. MocBalanceOf(p) \in Nat /\ MocBalanceOf(p)' \in Nat
  <2>1. StakesAreNat /\ StakesAreNat'
    BY StakesNat, PTL
  <2> QED
    BY <2>1 DEF StakesAreNat
<1>3. CASE totalSupply = 0
  BY <1>1, <1>2, <1>3 DEF ConversionsAreExact
<1>4. CASE totalSupply' = 0 /\ totalSupply # 0
  <2>1. tokenBalances[p] = 0
    <3>1. tokenBalances'[p] <= totalSupply'
      BY WithinSupplyNext DEF WithinSupply
    <3> QED
      BY <1>1, <1>4, <3>1 DEF ConversionsAreExact
  <2>2. MocBalanceOf(p) = (0 * Available) \div totalSupply
    BY <1>1, <1>4, <2>1 DEF ConversionsAreExact
  <2>3. 0 * Available = 0 /\ 0 \div totalSupply = 0
    <3>1. 0 \div totalSupply \in 0..0
      BY <1>1, <1>4, VestedPart DEF ConversionsAreExact
    <3> QED
      BY <1>1, <3>1 DEF ConversionsAreExact
  <2> QED
    BY <1>2, <2>2, <2>3
<1>5. CASE totalSupply' # 0 /\ totalSupply # 0
  <2> DEFINE A  == Available
             T  == totalSupply
             b  == tokenBalances[p]
             A2 == Available'
             T2 == totalSupply'
             b2 == tokenBalances'[p]
  <2>1. /\ A \in Nat /\ T \in Nat \ {0} /\ b \in Nat
        /\ A2 \in Nat /\ T2 \in Nat \ {0} /\ b2 \in Nat
        /\ b <= b2 /\ A * T2 <= A2 * T
    BY <1>1, <1>5 DEF ConversionsAreExact
  <2>2. MocBalanceOf(p) = (b * A) \div T /\ MocBalanceOf(p)' = (b2 * A2) \div T2
    BY <1>1, <1>5 DEF ConversionsAreExact
  <2> HIDE DEF A, T, b, A2, T2, b2
  <2>3. (b * A) \div T <= (b * A2) \div T2
    BY <2>1, WorthGrows
  <2>4. (b * A2) \div T2 <= (b2 * A2) \div T2
    <3>1. b * A2 <= b2 * A2
      BY <2>1, ProductGrows, ProductCommutes
    <3>2. b * A2 \in Nat /\ b2 * A2 \in Nat
      BY <2>1, ProductNat
    <3>3. T2 * (b * A2) <= T2 * (b2 * A2)
      BY <2>1, <3>1, <3>2, ProductGrows
    <3> QED
      BY <2>1, <3>2, <3>3, QuotientGrows
  <2>5. (b * A2) \div T2 \in Nat
    <3>1. b * A2 \in Nat
      BY <2>1, ProductNat
    <3> QED
      BY <2>1, <3>1, Quotient
  <2> QED
    BY <1>2, <2>2, <2>3, <2>4, <2>5
<1> QED
  BY <1>3, <1>4, <1>5

LEMMA StakeMoves ==
  ASSUME PoolInv, NEW o \in Owners, NEW tokens \in Nat, NEW mocs \in Nat,
         AtPrice(tokens, mocs), StakeInternal(o, tokens, mocs)
  PROVE  /\ \A p \in Owners : MocBalanceOf(p) <= MocBalanceOf(p)'
         /\ MocBalanceOf(o)' <= MocBalanceOf(o) + mocs
<1>1. PoolInv' /\ Available' = Available + mocs
  BY StakeKeepsInv
<1>2. ConversionsAreExact /\ ConversionsAreExact'
  BY <1>1, Conversions, ConversionsNext
<1>3. /\ tokenBalances' = [tokenBalances EXCEPT ![o] = @ + tokens]
      /\ totalSupply' = totalSupply + tokens
      /\ tokenBalances \in [Owners -> Nat]
  BY DEF StakeInternal, PoolInv, PoolTypeOK
<1>4. ASSUME NEW p \in Owners
      PROVE  MocBalanceOf(p) <= MocBalanceOf(p)'
  <2>1. tokenBalances[p] <= tokenBalances'[p]
    BY <1>3
  <2>2. Available * totalSupply' <= Available' * totalSupply
    <3>1. CASE totalSupply = 0
      <4>1. Available = 0
        BY <1>2, <3>1 DEF ConversionsAreExact
      <4>2. Available * totalSupply' = 0 /\ Available' * totalSupply = 0
        <5> DEFINE A2 == Available'
                   T2 == totalSupply'
        <5>1. A2 \in Nat /\ T2 \in Nat
          BY <1>2 DEF ConversionsAreExact
        <5> HIDE DEF A2, T2
        <5>2. 0 * T2 = 0 /\ A2 * 0 = 0
          BY <5>1
        <5> QED
          BY <3>1, <4>1, <5>2 DEF A2, T2
      <4> QED
        BY <4>2
    <3>2. CASE totalSupply # 0
      BY <1>1, <1>2, <1>3, <3>2, PriceAfterPurchase DEF AtPrice, ConversionsAreExact
    <3> QED
      BY <3>1, <3>2
  <2> QED
    BY <1>1, <2>1, <2>2, StakesKept
<1>5. MocBalanceOf(o)' <= MocBalanceOf(o) + mocs
  <2>1. CASE totalSupply = 0
    <3>1. tokenBalances[o] = 0 /\ tokens = mocs /\ Available = 0
      <4>1. tokenBalances[o] <= totalSupply
        BY HoldersWithinSupply DEF PoolInv
      <4> QED
        BY <1>2, <1>3, <2>1, <4>1 DEF AtPrice, ConversionsAreExact
    <3>2. tokenBalances'[o] = mocs /\ Available' = mocs /\ totalSupply' = mocs
      BY <1>1, <1>3, <2>1, <3>1
    <3>3. MocBalanceOf(o) = 0 /\ MocBalanceOf(o)' = IF mocs = 0 THEN 0 ELSE (mocs * mocs) \div mocs
      BY <1>2, <2>1, <3>2 DEF ConversionsAreExact
    <3>4. ASSUME mocs # 0
          PROVE  (mocs * mocs) \div mocs \in 0..mocs
      BY <3>4, VestedPart
    <3> QED
      BY <3>3, <3>4
  <2>2. CASE totalSupply # 0
    <3> DEFINE A == Available
               T == totalSupply
               b == tokenBalances[o]
    <3>1. b <= T
      BY HoldersWithinSupply DEF PoolInv
    <3>2. /\ A \in Nat /\ T \in Nat \ {0} /\ b \in 0..T
          /\ tokens * A <= mocs * T
      BY <1>2, <1>3, <2>2, <3>1 DEF AtPrice, ConversionsAreExact
    <3>3. MocBalanceOf(o) = (b * A) \div T
      BY <1>2, <2>2 DEF ConversionsAreExact
    <3>4. MocBalanceOf(o)' = ((b + tokens) * (A + mocs)) \div (T + tokens)
      <4>1. totalSupply' # 0 /\ tokenBalances'[o] = b + tokens
        BY <1>2, <1>3, <2>2 DEF ConversionsAreExact
      <4> QED
        BY <1>1, <1>2, <1>3, <4>1 DEF ConversionsAreExact
    <3> HIDE DEF A, T, b
    <3> QED
      BY <3>2, <3>3, <3>4, BuyerNeverGains
  <2> QED
    BY <2>1, <2>2
<1> QED
  BY <1>4, <1>5

LEMMA WithdrawMoves ==
  ASSUME PoolInv, NEW o \in Owners, NEW t \in 0..tokenBalances[o], Withdraw(o, t)
  PROVE  /\ \A p \in Owners \ {o} : MocBalanceOf(p) <= MocBalanceOf(p)'
         /\ MocBalanceOf(o)' + TokenToMoc(t) <= MocBalanceOf(o)
         /\ MocBalanceOf(o) - TokenToMoc(t) - 1 <= MocBalanceOf(o)'
<1> DEFINE q == TokenToMoc(t)
<1>1. /\ PoolInv' /\ t \in 0..totalSupply /\ totalSupply' = totalSupply - t
      /\ Available' = Available - q
  BY WithdrawKeepsInv
<1>2. ConversionsAreExact /\ ConversionsAreExact'
  BY <1>1, Conversions, ConversionsNext
<1>3. /\ q \in 0..Available
      /\ q * totalSupply <= t * Available
      /\ t = totalSupply => q = Available
  BY <1>1, WorthOfTokens
<1>4. /\ tokenBalances' = [tokenBalances EXCEPT ![o] = @ - t]
      /\ tokenBalances \in [Owners -> Nat]
  BY DEF Withdraw, PoolInv, PoolTypeOK
<1>5. totalSupply # 0 => q = (t * Available) \div totalSupply
  BY <1>1, <1>2 DEF ConversionsAreExact
<1> HIDE DEF q
<1>6. ASSUME NEW p \in Owners \ {o}
      PROVE  MocBalanceOf(p) <= MocBalanceOf(p)'
  <2>1. tokenBalances[p] <= tokenBalances'[p]
    BY <1>4
  <2>2. Available * totalSupply' <= Available' * totalSupply
    BY <1>1, <1>2, <1>3, PriceAfterSale DEF ConversionsAreExact
  <2> QED
    BY <1>1, <2>1, <2>2, StakesKept
<1>7. tokenBalances[o] <= totalSupply
  BY HoldersWithinSupply DEF PoolInv
<1>8. /\ MocBalanceOf(o)' + q <= MocBalanceOf(o)
      /\ MocBalanceOf(o) - q - 1 <= MocBalanceOf(o)'
  <2>1. CASE totalSupply = 0
    <3>1. t = 0 /\ totalSupply' = 0 /\ q = 0
      <4>1. q \in 0..0
        BY <1>2, <1>3, <2>1 DEF ConversionsAreExact
      <4>2. t \in 0..0
        BY <1>1, <2>1
      <4>3. t = 0 /\ q = 0
        BY <4>1, <4>2
      <4>4. totalSupply' = 0
        BY <1>1, <2>1, <4>3
      <4> QED
        BY <4>3, <4>4
    <3>2. MocBalanceOf(o) = 0 /\ MocBalanceOf(o)' = 0
      BY <1>2, <2>1, <3>1 DEF ConversionsAreExact
    <3> QED
      BY <3>1, <3>2
  <2>2. CASE totalSupply # 0 /\ t = totalSupply
    <3> DEFINE A == Available
               T == totalSupply
    <3>1. tokenBalances[o] = T /\ A \in Nat /\ T \in Nat \ {0}
      <4>1. A \in Nat /\ T \in Nat
        BY <1>2 DEF ConversionsAreExact
      <4>2. tokenBalances[o] \in Nat
        BY <1>4
      <4> QED
        BY <1>7, <2>2, <4>1, <4>2
    <3>2. MocBalanceOf(o) = (T * A) \div T
      BY <1>2, <2>2, <3>1 DEF ConversionsAreExact
    <3>3. q = (T * A) \div T
      BY <1>5, <2>2
    <3>4. MocBalanceOf(o)' = 0
      BY <1>1, <1>2, <2>2, <3>1 DEF ConversionsAreExact
    <3>5. q \in Nat
      BY <1>2, <1>3 DEF ConversionsAreExact
    <3> QED
      BY <3>2, <3>3, <3>4, <3>5
  <2>3. CASE totalSupply # 0 /\ t # totalSupply
    <3> DEFINE A == Available
               T == totalSupply
               b == tokenBalances[o]
    <3>1. /\ A \in Nat /\ T \in Nat \ {0} /\ b \in 0..T /\ t \in 0..b /\ t < T
          /\ q \in 0..A /\ q * T <= t * A
      BY <1>1, <1>2, <1>3, <1>4, <1>7, <2>3 DEF ConversionsAreExact
    <3>2. MocBalanceOf(o) = (b * A) \div T /\ q = (t * A) \div T
      BY <1>2, <1>5, <2>3 DEF ConversionsAreExact
    <3>3. MocBalanceOf(o)' = ((b - t) * (A - q)) \div (T - t)
      <4>1. totalSupply' # 0 /\ tokenBalances'[o] = b - t
        BY <1>1, <1>4, <2>3, <3>1
      <4> QED
        BY <1>1, <1>2, <4>1 DEF ConversionsAreExact
    <3> HIDE DEF A, T, b
    <3>4. (((b - t) * (A - q)) \div (T - t)) + q <= (b * A) \div T
      BY <3>1, SellerNeverGains
    <3>5. ((b * A) \div T) - q - 1 <= ((b - t) * (A - q)) \div (T - t)
      BY <3>1, <3>2, SellerLosesOneMore
    <3> QED
      BY <3>2, <3>3, <3>4, <3>5
  <2> QED
    BY <2>1, <2>2, <2>3
<1> QED
  BY <1>6, <1>8 DEF q

LEMMA PoolStepMoves ==
  ASSUME PoolInv, PoolStep
  PROVE  \A p \in Owners : MocBalanceOf(p) <= MocBalanceOf(p)'
<1>1. PoolInv' /\ Available <= Available' /\ UNCHANGED shares
  BY PoolStepKeepsInv
<1>2. ConversionsAreExact /\ ConversionsAreExact'
  BY <1>1, Conversions, ConversionsNext
<1> TAKE p \in Owners
<1>3. tokenBalances[p] <= tokenBalances'[p]
  BY <1>1, <1>2 DEF shares, ConversionsAreExact
<1>4. Available * totalSupply' <= Available' * totalSupply
  <2>1. totalSupply' = totalSupply
    BY <1>1 DEF shares
  <2>2. Available * totalSupply <= Available' * totalSupply
    <3> DEFINE A  == Available
               A2 == Available'
               T  == totalSupply
    <3>1. A \in Nat /\ A2 \in Nat /\ T \in Nat /\ A <= A2
      BY <1>1, <1>2 DEF ConversionsAreExact
    <3> HIDE DEF A, A2, T
    <3>2. A * T <= A2 * T
      BY <3>1, ProductGrows, ProductCommutes
    <3> QED
      BY <3>2 DEF A, A2, T
  <2> QED
    BY <2>1, <2>2
<1> QED
  BY <1>1, <1>3, <1>4, StakesKept

-----------------------------------------------------------------------------
(***************************************************************************)
(* The theorems.                                                           *)
(***************************************************************************)
LEMMA InitialPool == PoolInit => PoolInv
<1> SUFFICES ASSUME PoolInit PROVE PoolInv
  OBVIOUS
<1>1. /\ mocBalance = 0 /\ balance = 0 /\ totalSupply = 0 /\ earnings = 0
      /\ tokenBalances = [o \in Owners |-> 0]
      /\ startEarnings = 0 /\ endEarnings = 0 /\ now = 1
      /\ period \in Nat \ {0}
      /\ lockedMocs = [o \in Owners |-> [amount |-> 0, until |-> 0]]
  BY PeriodsAssumption DEF PoolInit
<1>2. PoolTypeOK
  BY <1>1 DEF PoolTypeOK
<1>3. TokensAddUp
  <2>1. DOMAIN tokenBalances = Owners /\ \A o \in Owners : tokenBalances[o] = 0
    BY <1>1
  <2>2. SumFunctionOnSet(tokenBalances, Owners) = 0
    BY <2>1, OwnersAssumption, SumZero
  <2> QED
    BY <1>1, <2>1, <2>2 DEF TokensAddUp, SumFunction
<1>4. VestingTimes /\ NothingWithoutSupporters
  BY <1>1 DEF VestingTimes, NothingWithoutSupporters
<1>5. LockedAt(now) = 0 /\ Available = 0
  BY <1>1 DEF Available, LockedAt, EarningsAt
<1> QED
  BY <1>1, <1>2, <1>3, <1>4, <1>5 DEF PoolInv, Solvent, TokenWorthAMoc

\* The tokens that both kinds of stake buy.
LEMMA PurchasesAtPrice ==
  ASSUME PoolInv, NEW o \in Owners, NEW mocs \in Nat, StakeAtFrom(o, mocs) \/ Deposit(o, mocs)
  PROVE  \E tokens, paid \in Nat : AtPrice(tokens, paid) /\ StakeInternal(o, tokens, paid)
<1>1. CASE StakeAtFrom(o, mocs)
  BY <1>1, StakesAtPrice DEF StakeAtFrom
<1>2. CASE Deposit(o, mocs)
  BY <1>2, StakesAtPrice DEF Deposit
<1> QED
  BY <1>1, <1>2

\* What any step does to the pool, with no bound on the MOCs that are staked.
PoolMove ==
    \/ PoolStep
    \/ \E o \in Owners, tokens, paid \in Nat :
          AtPrice(tokens, paid) /\ StakeInternal(o, tokens, paid)
    \/ \E o \in Owners : \E t \in 0..tokenBalances[o] : Withdraw(o, t)

LEMMA PoolNextMoves ==
  ASSUME PoolInv, PoolNext
  PROVE  PoolMove
<1>1. ASSUME NEW o \in Owners, NEW mocs \in 0..MaxStaked, StakeAtFrom(o, mocs) \/ Deposit(o, mocs)
      PROVE  \E tokens, paid \in Nat : AtPrice(tokens, paid) /\ StakeInternal(o, tokens, paid)
  <2>1. mocs \in Nat
    BY SupportersBoundsAssumption
  <2> QED
    BY <1>1, <2>1, PurchasesAtPrice
<1> QED
  BY <1>1 DEF PoolNext, PoolMove

LEMMA MovesKeepInv == PoolInv /\ [PoolMove]_poolVars => PoolInv'
<1> SUFFICES ASSUME PoolInv, [PoolMove]_poolVars PROVE PoolInv'
  OBVIOUS
<1>1. CASE PoolMove
  BY <1>1, PoolStepKeepsInv, StakeKeepsInv, WithdrawKeepsInv DEF PoolMove
<1>2. CASE UNCHANGED poolVars
  <2>1. UNCHANGED <<mocBalance, balance, tokenBalances, totalSupply, earnings, startEarnings,
                    endEarnings, period, lockedMocs, now>>
    BY <1>2 DEF poolVars, shares, vesting
  <2>2. PoolTypeOK' /\ VestingTimes' /\ NothingWithoutSupporters'
    BY <2>1 DEF PoolInv, PoolTypeOK, VestingTimes, NothingWithoutSupporters
  <2>3. TokensAddUp'
    BY <2>1, SharesStay DEF shares
  <2>4. LockedAt(now)' = LockedAt(now) /\ Available' = Available
    BY <2>1 DEF Available, LockedAt, EarningsAt
  <2>5. Solvent' /\ TokenWorthAMoc'
    BY <2>1, <2>4 DEF PoolInv, Solvent, TokenWorthAMoc
  <2> QED
    BY <2>2, <2>3, <2>5 DEF PoolInv
<1> QED
  BY <1>1, <1>2

\* Every call of the pool keeps PoolInv, which contains the properties below.
THEOREM PoolInvariant == PoolSpec => []PoolInv
<1>1. PoolInv /\ [PoolNext]_poolVars => PoolInv'
  BY PoolNextMoves, MovesKeepInv
<1> QED
  BY <1>1, InitialPool, PTL DEF PoolSpec

(***************************************************************************)
(* No quantity of the pool is ever below zero.                             *)
(***************************************************************************)
THEOREM PoolTypes == PoolSpec => []PoolTypeOK
<1>1. PoolInv => PoolTypeOK
  BY DEF PoolInv
<1> QED
  BY <1>1, PoolInvariant, PTL

(***************************************************************************)
(* No subtraction of SupportersLib underflows, for any amounts and periods *)
(* and any number of owners.                                               *)
(***************************************************************************)
THEOREM AlwaysSolvent == PoolSpec => []Solvent
<1>1. PoolInv => Solvent
  BY DEF PoolInv
<1> QED
  BY <1>1, PoolInvariant, PTL

(***************************************************************************)
(* No conversion of SupportersLib divides by zero.                         *)
(***************************************************************************)
THEOREM TokensAlwaysWorthAMoc == PoolSpec => []TokenWorthAMoc
<1>1. PoolInv => TokenWorthAMoc
  BY DEF PoolInv
<1> QED
  BY <1>1, PoolInvariant, PTL

\* Stakes are shares of what is available, each rounded down.
LEMMA StakesFit == PoolInv => SharesCovered
<1> SUFFICES ASSUME PoolInv PROVE SharesCovered
  OBVIOUS
<1> DEFINE A == Available
           T == totalSupply
           stakes == [o \in Owners |-> MocBalanceOf(o)]
<1>1. A \in Nat /\ T \in Nat /\ (T = 0 => A = 0)
  BY Conversions DEF ConversionsAreExact
<1>2. DOMAIN tokenBalances = Owners /\ \A o \in Owners : tokenBalances[o] \in Nat
  BY DEF PoolInv, PoolTypeOK
<1>3. T = SumFunctionOnSet(tokenBalances, Owners)
  BY <1>2 DEF PoolInv, TokensAddUp, SumFunction
<1>4. \A o \in Owners : MocBalanceOf(o) \in Nat
  BY StakesNat DEF StakesAreNat
<1>5. DOMAIN stakes = Owners /\ \A o \in Owners : stakes[o] = MocBalanceOf(o) /\ stakes[o] \in Int
  BY <1>4
<1>6. SumFunctionOnSet(stakes, Owners) <= A
  <2>1. CASE A = 0
    <3>1. \A o \in Owners : stakes[o] = 0
      BY <1>5, <2>1 DEF MocBalanceOf, TokenToMoc
    <3> HIDE DEF stakes
    <3>2. SumFunctionOnSet(stakes, Owners) = 0
      BY <3>1, OwnersAssumption, SumZero
    <3> QED
      BY <2>1, <3>2
  <2>2. CASE A # 0
    <3>1. T \in Nat \ {0}
      BY <1>1, <2>2
    <3>2. ASSUME NEW o \in Owners
          PROVE  stakes[o] * T <= tokenBalances[o] * A
      <4>1. stakes[o] = (tokenBalances[o] * A) \div T
        BY <1>5, <2>2 DEF MocBalanceOf, TokenToMoc
      <4> HIDE DEF A, T, stakes
      <4>2. tokenBalances[o] * A \in Nat
        BY <1>1, <1>2, ProductNat
      <4>3. T * stakes[o] <= tokenBalances[o] * A
        BY <3>1, <4>1, <4>2, Quotient
      <4> QED
        BY <1>1, <1>5, <4>3, ProductCommutes
    <3> HIDE DEF A, T, stakes
    <3>3. SumFunctionOnSet(stakes, Owners) * T <= SumFunctionOnSet(tokenBalances, Owners) * A
      BY <1>1, <1>2, <1>5, <3>2, OwnersAssumption, SumScaled
    <3>4. SumFunctionOnSet(stakes, Owners) \in Int
      BY <1>5, OwnersAssumption, SumInt
    <3>5. T * SumFunctionOnSet(stakes, Owners) <= T * A
      BY <1>1, <1>3, <3>3, <3>4, ProductCommutes
    <3> QED
      BY <1>1, <3>1, <3>4, <3>5, ProductCancels
  <2> QED
    BY <2>1, <2>2
<1>7. SumFunction(stakes) <= A
  BY <1>5, <1>6 DEF SumFunction
<1> QED
  BY <1>7 DEF SharesCovered, PoolInv

(***************************************************************************)
(* All the supporters can withdraw all they have, one after the other: the *)
(* tokens are those that the balances add up to, and what they are worth,  *)
(* each share rounded down by itself, is there.                            *)
(***************************************************************************)
THEOREM SharesAlwaysCovered == PoolSpec => []SharesCovered
BY StakesFit, PoolInvariant, PTL

\* What StakeFallsByOwnWithdrawal and MoverNeverGains say of one step.
StakesFallOwn ==
    \A o \in Owners :
        MocBalanceOf(o)' < MocBalanceOf(o) => tokenBalances'[o] < tokenBalances[o]

MoversGainNothing ==
    \A o \in Owners :
        tokenBalances'[o] # tokenBalances[o] =>
            MocBalanceOf(o)' - MocBalanceOf(o) <= balance' - balance

LEMMA MovesKeepStakes ==
  ASSUME PoolInv, PoolMove
  PROVE  StakesFallOwn
<1> USE DEF StakesFallOwn
<1>1. StakesAreNat /\ StakesAreNat'
  <2>1. StakesAreNat
    BY StakesNat
  <2>2. PoolInv'
    BY MovesKeepInv
  <2>3. StakesAreNat'
    BY <2>2, StakesNat, PTL
  <2> QED
    BY <2>1, <2>3
<1>2. ASSUME NEW o \in Owners, MocBalanceOf(o) <= MocBalanceOf(o)'
      PROVE  ~(MocBalanceOf(o)' < MocBalanceOf(o))
  <2> DEFINE x == MocBalanceOf(o)
             y == MocBalanceOf(o)'
  <2>1. x \in Nat /\ y \in Nat /\ x <= y
    BY <1>1, <1>2 DEF StakesAreNat
  <2> HIDE DEF x, y
  <2>2. ~(y < x)
    BY <2>1
  <2> QED
    BY <2>2 DEF x, y
<1>3. CASE PoolStep
  BY <1>2, <1>3, PoolStepMoves
<1>4. ASSUME NEW o \in Owners, NEW tokens \in Nat, NEW paid \in Nat,
             AtPrice(tokens, paid), StakeInternal(o, tokens, paid)
      PROVE  StakesFallOwn
  BY <1>2, <1>4, StakeMoves
<1>5. ASSUME NEW o \in Owners, NEW t \in 0..tokenBalances[o], Withdraw(o, t)
      PROVE  StakesFallOwn
  <2> TAKE p \in Owners
  <2>1. CASE p # o
    BY <1>2, <1>5, <2>1, WithdrawMoves
  <2>2. CASE p = o
    <3>1. CASE t = 0
      <4>1. TokenToMoc(0) = 0
        <5> DEFINE q == TokenToMoc(0)
        <5>1. ConversionsAreExact
          BY Conversions
        <5>2. totalSupply = 0 => q = 0
          BY <5>1 DEF ConversionsAreExact
        <5>3. totalSupply # 0 => q = (0 * Available) \div totalSupply
          BY <5>1 DEF ConversionsAreExact
        <5> HIDE DEF q
        <5>4. totalSupply # 0 => q \in 0..0
          <6> DEFINE A == Available
                     T == totalSupply
          <6>1. A \in Nat /\ T \in Nat
            BY <5>1 DEF ConversionsAreExact
          <6>2. T # 0 => q = (0 * A) \div T
            BY <5>3
          <6> HIDE DEF A, T
          <6>3. 0 * A = 0
            BY <6>1
          <6>4. T # 0 => 0 \div T \in 0..0
            BY <6>1, VestedPart
          <6> QED
            BY <6>2, <6>3, <6>4 DEF T
        <5> QED
          BY <5>2, <5>4 DEF q
      <4>2. UNCHANGED <<tokenBalances, totalSupply, balance, startEarnings, endEarnings, now>>
        BY <1>5, <3>1, <4>1 DEF Withdraw, PoolInv, PoolTypeOK
      <4>3. Available * totalSupply' <= Available' * totalSupply
        <5>1. Available' = Available - TokenToMoc(t) /\ Available \in Nat
          BY <1>5, WithdrawKeepsInv, Conversions DEF ConversionsAreExact
        <5>2. Available' = Available
          BY <3>1, <4>1, <5>1
        <5>3. totalSupply \in Nat /\ totalSupply' = totalSupply
          BY <4>2 DEF PoolInv, PoolTypeOK
        <5> DEFINE z == Available * totalSupply
        <5>4. z \in Nat
          BY <5>1, <5>3, ProductNat
        <5>5. Available * totalSupply' = z /\ Available' * totalSupply = z
          BY <5>2, <5>3
        <5> QED
          BY <5>4, <5>5
      <4>4. tokenBalances[p] <= tokenBalances'[p]
        BY <4>2 DEF PoolInv, PoolTypeOK
      <4>5. PoolInv'
        BY MovesKeepInv
      <4>6. MocBalanceOf(p) <= MocBalanceOf(p)'
        BY <4>3, <4>4, <4>5, StakesKept
      <4> QED
        BY <1>2, <4>6
    <3>2. CASE t # 0
      <4>1. tokenBalances' = [tokenBalances EXCEPT ![o] = @ - t]
        BY <1>5 DEF Withdraw
      <4> QED
        BY <2>2, <3>2, <4>1 DEF PoolInv, PoolTypeOK
    <3> QED
      BY <3>1, <3>2
  <2> QED
    BY <2>1, <2>2
<1> HIDE DEF StakesFallOwn
<1> QED
  BY <1>3, <1>4, <1>5 DEF PoolMove

LEMMA MovesAreFair ==
  ASSUME PoolInv, PoolMove
  PROVE  MoversGainNothing
<1> USE DEF MoversGainNothing
<1>1. StakesAreNat /\ StakesAreNat' /\ balance \in Nat
  <2>1. StakesAreNat
    BY StakesNat
  <2>2. PoolInv'
    BY MovesKeepInv
  <2>3. StakesAreNat'
    BY <2>2, StakesNat, PTL
  <2> QED
    BY <2>1, <2>3 DEF PoolInv, PoolTypeOK
<1>2. tokenBalances \in [Owners -> Nat]
  BY DEF PoolInv, PoolTypeOK
<1>3. CASE PoolStep
  BY <1>3, PoolStepKeepsInv DEF shares
<1>4. ASSUME NEW o \in Owners, NEW tokens \in Nat, NEW paid \in Nat,
             AtPrice(tokens, paid), StakeInternal(o, tokens, paid)
      PROVE  MoversGainNothing
  <2>1. /\ tokenBalances' = [tokenBalances EXCEPT ![o] = @ + tokens]
        /\ balance' = balance + paid
    BY <1>4 DEF StakeInternal
  <2>2. balance' - balance = paid
    BY <1>1, <2>1
  <2>3. MocBalanceOf(o)' <= MocBalanceOf(o) + paid
    BY <1>4, StakeMoves
  <2>4. MocBalanceOf(o)' - MocBalanceOf(o) <= balance' - balance
    <3> DEFINE x == MocBalanceOf(o)
               y == MocBalanceOf(o)'
    <3>1. x \in Nat /\ y \in Nat /\ y <= x + paid
      BY <1>1, <2>3 DEF StakesAreNat
    <3> HIDE DEF x, y
    <3>2. y - x <= paid
      BY <3>1
    <3> QED
      BY <2>2, <3>2 DEF x, y
  <2> QED
    BY <1>2, <2>1, <2>4
<1>5. ASSUME NEW o \in Owners, NEW t \in 0..tokenBalances[o], Withdraw(o, t)
      PROVE  MoversGainNothing
  <2>1. /\ tokenBalances' = [tokenBalances EXCEPT ![o] = @ - t]
        /\ balance' = balance - TokenToMoc(t)
    BY <1>5 DEF Withdraw
  <2>2. TokenToMoc(t) \in Nat
    BY <1>5, WithdrawKeepsInv, WorthOfTokens
  <2>3. balance' - balance = -TokenToMoc(t)
    BY <1>1, <2>1, <2>2
  <2>4. MocBalanceOf(o)' + TokenToMoc(t) <= MocBalanceOf(o)
    BY <1>5, WithdrawMoves
  <2>5. MocBalanceOf(o)' - MocBalanceOf(o) <= balance' - balance
    <3> DEFINE x == MocBalanceOf(o)
               y == MocBalanceOf(o)'
               q == TokenToMoc(t)
    <3>1. x \in Nat /\ y \in Nat /\ q \in Nat /\ y + q <= x
      BY <1>1, <2>2, <2>4 DEF StakesAreNat
    <3>2. balance' - balance = -q
      BY <2>3
    <3> HIDE DEF x, y, q
    <3>3. y - x <= -q
      BY <3>1
    <3> QED
      BY <3>2, <3>3 DEF x, y
  <2> QED
    BY <1>2, <2>1, <2>5
<1> HIDE DEF MoversGainNothing
<1> QED
  BY <1>3, <1>4, <1>5 DEF PoolMove

(***************************************************************************)
(* Nobody loses stake but by a withdrawal of one's own, however others'    *)
(* stakes and withdrawals are rounded and earnings vested and stopped.     *)
(***************************************************************************)
THEOREM StakeNeverTaken == PoolSpec => StakeFallsByOwnWithdrawal
<1>1. PoolInv /\ [PoolNext]_poolVars => [StakesFallOwn]_poolVars
  BY PoolNextMoves, MovesKeepStakes
<1> QED
  BY <1>1, PoolInvariant, PTL DEF PoolSpec, StakeFallsByOwnWithdrawal, StakesFallOwn

(***************************************************************************)
(* Depositing and withdrawing, whatever is rounded, earns nobody a MOC.    *)
(***************************************************************************)
THEOREM NobodyGainsByMoving == PoolSpec => MoverNeverGains
<1>1. PoolInv /\ [PoolNext]_poolVars => [MoversGainNothing]_poolVars
  BY PoolNextMoves, MovesAreFair
<1> QED
  BY <1>1, PoolInvariant, PTL DEF PoolSpec, MoverNeverGains, MoversGainNothing

-----------------------------------------------------------------------------
\* Where stake does not fall and the lock does not move, the lock holds.
LEMMA LockKept ==
  ASSUME PoolInv, PoolInv', NEW p \in Owners, lockedMocs'[p] = lockedMocs[p],
         now' \in {now, now + 1}, MocBalanceOf(p) <= MocBalanceOf(p)',
         LockedAmount(p) <= MocBalanceOf(p) + 1
  PROVE  LockedAmount(p)' <= MocBalanceOf(p)' + 1
<1> DEFINE x == MocBalanceOf(p)
           y == MocBalanceOf(p)'
           l == LockedAmount(p)
           m == LockedAmount(p)'
<1>1. x \in Nat /\ y \in Nat
  <2>1. StakesAreNat /\ StakesAreNat'
    BY StakesNat, PTL
  <2> QED
    BY <2>1 DEF StakesAreNat
<1>2. lockedMocs[p].amount \in Nat /\ lockedMocs[p].until \in Nat /\ now \in Nat
  BY DEF PoolInv, PoolTypeOK
<1>3. m \in {0, l} /\ l \in Nat
  BY <1>2 DEF LockedAmount
<1>4. x <= y /\ l <= x + 1
  OBVIOUS
<1> HIDE DEF x, y, l, m
<1>5. m <= y + 1
  BY <1>1, <1>3, <1>4
<1> QED
  BY <1>5 DEF m, y

LEMMA LocksHold ==
  ASSUME PoolInv, LockHoldsButForRounding, PoolMove
  PROVE  LockHoldsButForRounding'
<1>1. PoolInv'
  BY MovesKeepInv
<1>2. StakesAreNat /\ StakesAreNat'
  BY <1>1, StakesNat, PTL
<1>3. ASSUME NEW o \in Owners, NEW until \in LockTimes, LockMocs(o, until)
      PROVE  LockHoldsButForRounding'
  <2> SUFFICES ASSUME NEW p \in Owners
               PROVE  LockedAmount(p)' <= MocBalanceOf(p)' + 1
    BY DEF LockHoldsButForRounding
  <2>1. /\ lockedMocs' = [lockedMocs EXCEPT ![o] = [amount |-> MocBalanceOf(o), until |-> until]]
        /\ UNCHANGED <<mocBalance, balance, shares, vesting, period, now>>
    BY <1>3 DEF LockMocs
  <2>2. MocBalanceOf(p)' = MocBalanceOf(p)
    BY <2>1 DEF MocBalanceOf, TokenToMoc, Available, LockedAt, EarningsAt, shares, vesting
  <2>3. CASE p = o
    <3> DEFINE x == MocBalanceOf(p)
    <3>1. x \in Nat
      BY <1>2 DEF StakesAreNat
    <3>2. lockedMocs'[p] = [amount |-> x, until |-> until]
      BY <2>1, <2>3 DEF PoolInv, PoolTypeOK
    <3>3. LockedAmount(p)' \in {0, x}
      BY <3>2 DEF LockedAmount
    <3> HIDE DEF x
    <3>4. LockedAmount(p)' <= x + 1
      BY <3>1, <3>3
    <3> QED
      BY <2>2, <3>4 DEF x
  <2>4. CASE p # o
    <3>1. lockedMocs'[p] = lockedMocs[p]
      BY <2>1, <2>4 DEF PoolInv, PoolTypeOK
    <3>2. LockedAmount(p)' = LockedAmount(p)
      BY <2>1, <3>1 DEF LockedAmount
    <3> QED
      BY <2>2, <3>2 DEF LockHoldsButForRounding
  <2> QED
    BY <2>3, <2>4
<1>4. CASE PoolStep
  <2>1. \/ UNCHANGED lockedMocs /\ now' \in {now, now + 1}
        \/ \E o \in Owners, until \in LockTimes : LockMocs(o, until)
    BY <1>4 DEF PoolStep, ReceiveMocs, Distribute, SetPeriod, StopPeriod, NextBlock
  <2>2. CASE UNCHANGED lockedMocs /\ now' \in {now, now + 1}
    <3> SUFFICES ASSUME NEW p \in Owners
                 PROVE  LockedAmount(p)' <= MocBalanceOf(p)' + 1
      BY DEF LockHoldsButForRounding
    <3>1. MocBalanceOf(p) <= MocBalanceOf(p)' /\ LockedAmount(p) <= MocBalanceOf(p) + 1
      BY <1>4, PoolStepMoves DEF LockHoldsButForRounding
    <3> QED
      BY <1>1, <2>2, <3>1, LockKept
  <2> QED
    BY <1>3, <2>1, <2>2
<1>5. ASSUME NEW o \in Owners, NEW tokens \in Nat, NEW paid \in Nat,
             AtPrice(tokens, paid), StakeInternal(o, tokens, paid)
      PROVE  LockHoldsButForRounding'
  <2> SUFFICES ASSUME NEW p \in Owners
               PROVE  LockedAmount(p)' <= MocBalanceOf(p)' + 1
    BY DEF LockHoldsButForRounding
  <2>1. UNCHANGED <<lockedMocs, now>>
    BY <1>5 DEF StakeInternal
  <2>2. MocBalanceOf(p) <= MocBalanceOf(p)' /\ LockedAmount(p) <= MocBalanceOf(p) + 1
    BY <1>5, StakeMoves DEF LockHoldsButForRounding
  <2> QED
    BY <1>1, <2>1, <2>2, LockKept
<1>6. ASSUME NEW o \in Owners, NEW t \in 0..tokenBalances[o], Withdraw(o, t)
      PROVE  LockHoldsButForRounding'
  <2> SUFFICES ASSUME NEW p \in Owners
               PROVE  LockedAmount(p)' <= MocBalanceOf(p)' + 1
    BY DEF LockHoldsButForRounding
  <2>1. UNCHANGED <<lockedMocs, now>>
    BY <1>6 DEF Withdraw
  <2>2. CASE p # o
    <3>1. MocBalanceOf(p) <= MocBalanceOf(p)' /\ LockedAmount(p) <= MocBalanceOf(p) + 1
      BY <1>6, <2>2, WithdrawMoves DEF LockHoldsButForRounding
    <3> QED
      BY <1>1, <2>1, <3>1, LockKept
  <2>3. CASE p = o
    <3> DEFINE x == MocBalanceOf(p)
               y == MocBalanceOf(p)'
               q == TokenToMoc(t)
               l == LockedAmount(p)
    <3>1. x \in Nat /\ y \in Nat
      BY <1>2 DEF StakesAreNat
    <3>2. q \in Nat
      BY <1>6, WithdrawKeepsInv, WorthOfTokens
    <3>3. l \in Nat
      BY DEF LockedAmount, PoolInv, PoolTypeOK
    <3>4. q <= x - l
      BY <1>6, <2>3 DEF Withdraw, StakeAvailable, Surplus
    <3>5. x - q - 1 <= y
      BY <1>6, <2>3, WithdrawMoves
    <3>6. LockedAmount(p)' = l
      BY <2>1 DEF LockedAmount
    <3> HIDE DEF x, y, q, l
    <3>7. l <= y + 1
      BY <3>1, <3>2, <3>3, <3>4, <3>5
    <3> QED
      BY <3>6, <3>7 DEF y
  <2> QED
    BY <2>2, <2>3
<1> QED
  BY <1>4, <1>5, <1>6 DEF PoolMove

LEMMA InitialLocks == PoolInit => LockHoldsButForRounding
<1> SUFFICES ASSUME PoolInit, NEW o \in Owners
             PROVE  LockedAmount(o) <= MocBalanceOf(o) + 1
  BY DEF LockHoldsButForRounding
<1>1. MocBalanceOf(o) \in Nat
  BY InitialPool, StakeIsNat
<1>2. LockedAmount(o) = 0
  BY DEF PoolInit, LockedAmount
<1> QED
  BY <1>1, <1>2

LEMMA MovesKeepLocks ==
  PoolInv /\ LockHoldsButForRounding /\ [PoolMove]_poolVars => LockHoldsButForRounding'
<1>1. ASSUME LockHoldsButForRounding, UNCHANGED poolVars
      PROVE  LockHoldsButForRounding'
  BY <1>1 DEF LockHoldsButForRounding, LockedAmount, MocBalanceOf, TokenToMoc, Available,
              LockedAt, EarningsAt, poolVars, shares, vesting
<1> QED
  BY <1>1, LocksHold

(***************************************************************************)
(* A lock is worth what it was when the voting machine took it, or one MOC *)
(* less: the code rounds the withdrawal and the rest, and no series of     *)
(* withdrawals takes a second MOC.                                         *)
(***************************************************************************)
THEOREM LocksHoldButForRounding == PoolSpec => []LockHoldsButForRounding
<1>1. PoolInit => LockHoldsButForRounding
  BY InitialLocks
<1>2. PoolInv /\ LockHoldsButForRounding /\ [PoolNext]_poolVars => LockHoldsButForRounding'
  BY PoolNextMoves, MovesKeepLocks
<1> QED
  BY <1>1, <1>2, PoolInvariant, PTL DEF PoolSpec

-----------------------------------------------------------------------------
(***************************************************************************)
(* The machine.                                                            *)
(***************************************************************************)
LEMMA MachineMovesPool ==
  ASSUME PoolInv, MachineTypeOK, [Next]_<<poolVars, machineVars>>
  PROVE  [PoolMove]_poolVars
<1>1. CASE UNCHANGED <<poolVars, machineVars>>
  BY <1>1
<1>2. CASE PoolStep /\ UNCHANGED machineVars
  BY <1>2 DEF PoolMove
<1>3. ASSUME NEW o \in Owners, NEW mocs \in 1..MaxStaked, Deposit(o, mocs)
      PROVE  PoolMove
  <2>1. mocs \in Nat
    BY SupportersBoundsAssumption
  <2> QED
    BY <1>3, <2>1, PurchasesAtPrice DEF PoolMove
<1>4. ASSUME NEW o \in Owners, NEW t \in 0..tokenBalances[o], WithdrawTokens(o, t)
      PROVE  PoolMove
  BY <1>4 DEF PoolMove, WithdrawTokens
<1>5. ASSUME NEW id \in Pending, Cancel(id)
      PROVE  PoolMove \/ UNCHANGED poolVars
  <2> DEFINE amount == payments[id].amount
  <2>1. amount \in Nat /\ payments[id].owner \in Owners
    BY DEF MachineTypeOK
  <2>2. CASE MocToToken(amount) > 0
    <3>1. StakeInternal(payments[id].owner, MocToToken(amount), Charged(amount))
      BY <1>5, <2>2 DEF Cancel
    <3>2. /\ MocToToken(amount) \in Nat /\ Charged(amount) \in Nat
          /\ AtPrice(MocToToken(amount), Charged(amount))
      BY <2>1, <2>2, StakesAtPrice
    <3> QED
      BY <2>1, <3>1, <3>2 DEF PoolMove
  <2>3. CASE ~(MocToToken(amount) > 0)
    BY <1>5, <2>3 DEF Cancel
  <2> QED
    BY <2>2, <2>3
<1>6. ASSUME NEW id \in Pending, Pay(id)
      PROVE  UNCHANGED poolVars
  BY <1>6 DEF Pay
<1> QED
  BY <1>1, <1>2, <1>3, <1>4, <1>5, <1>6 DEF Next

-----------------------------------------------------------------------------
(***************************************************************************)
(* The payments that wait.                                                 *)
(***************************************************************************)
MachineInv == PoolInv /\ MachineTypeOK /\ PaymentsCovered

LEMMA AmountsTyped ==
  ASSUME MachineTypeOK
  PROVE  /\ IsFiniteSet(Pending) /\ DOMAIN Amounts = Pending
         /\ \A id \in Pending : Amounts[id] = payments[id].amount /\ Amounts[id] \in Nat
<1>1. IsFiniteSet(1..lastId)
  BY FS_Interval DEF MachineTypeOK
<1> QED
  BY <1>1, FS_Subset DEF MachineTypeOK, Amounts

\* A payment is gone from every sum it was in.
LEMMA AmountsWithout ==
  ASSUME MachineTypeOK, NEW id \in Pending, payments' = Without(id)
  PROVE  /\ Pending' = Pending \ {id}
         /\ \A i \in Pending' : payments'[i] = payments[i]
         /\ \A D \in SUBSET Pending :
               SumFunctionOnSet(Amounts', D \ {id}) =
                   IF id \in D
                   THEN SumFunctionOnSet(Amounts, D) - payments[id].amount
                   ELSE SumFunctionOnSet(Amounts, D)
<1> DEFINE f == Amounts
           g == Amounts'
<1>1. /\ Pending' = Pending \ {id}
      /\ \A i \in Pending' : payments'[i] = payments[i]
  BY DEF Without, Restrict, Pending
<1>2. /\ IsFiniteSet(Pending)
      /\ \A i \in Pending : f[i] = payments[i].amount /\ f[i] \in Nat
  BY AmountsTyped
<1>3. \A i \in Pending \ {id} : g[i] = f[i]
  BY <1>1, <1>2 DEF Amounts
<1> HIDE DEF f, g
<1>4. ASSUME NEW D \in SUBSET Pending
      PROVE  SumFunctionOnSet(g, D \ {id}) =
                 IF id \in D
                 THEN SumFunctionOnSet(f, D) - payments[id].amount
                 ELSE SumFunctionOnSet(f, D)
  <2> DEFINE R == Pending \ {id}
  <2>1. IsFiniteSet(R) /\ D \ {id} \in SUBSET R
    BY <1>2, FS_Subset
  <2>2. (\A i \in R : f[i] \in Int) /\ (\A i \in R : f[i] = g[i])
    BY <1>2, <1>3
  <2> HIDE DEF R
  <2>3. SumFunctionOnSet(f, D \ {id}) = SumFunctionOnSet(g, D \ {id})
    BY <2>1, <2>2, SumEqual
  <2>4. CASE id \in D
    <3>1. \A i \in Pending : f[i] \in Int
      BY <1>2
    <3>2. SumFunctionOnSet(f, D) = f[id] + SumFunctionOnSet(f, D \ {id})
      BY <1>2, <2>4, <3>1, SumRemove
    <3>3. SumFunctionOnSet(f, D \ {id}) \in Int /\ f[id] \in Int /\ f[id] = payments[id].amount
      BY <1>2, <3>1, SumInt
    <3> QED
      BY <2>3, <2>4, <3>2, <3>3
  <2>5. CASE id \notin D
    <3>1. D \ {id} = D
      BY <2>5
    <3> QED
      BY <2>3, <2>5, <3>1
  <2> QED
    BY <2>4, <2>5
<1> QED
  BY <1>1, <1>4 DEF f, g

\* A payment that is made is added to the others.
LEMMA AmountsWith ==
  ASSUME MachineTypeOK, NEW o \in Owners, NEW mocs \in Nat, NEW wait \in Nat,
         Delay(o, mocs, wait)
  PROVE  LET id == lastId + 1
         IN  /\ id \notin Pending /\ Pending' = Pending \cup {id}
             /\ \A i \in Pending : payments'[i] = payments[i]
             /\ payments'[id] = [owner |-> o, amount |-> mocs, expiration |-> now + wait]
             /\ \A D \in SUBSET Pending :
                   /\ SumFunctionOnSet(Amounts', D) = SumFunctionOnSet(Amounts, D)
                   /\ SumFunctionOnSet(Amounts', D \cup {id}) = SumFunctionOnSet(Amounts, D) + mocs
<1> DEFINE id == lastId + 1
           f == Amounts
           g == Amounts'
<1>1. payments' = [i \in Pending \cup {id} |->
                     IF i \in Pending
                     THEN payments[i]
                     ELSE [owner |-> o, amount |-> mocs, expiration |-> now + wait]]
  BY DEF Delay
<1>2. lastId \in Nat /\ Pending \subseteq 1..lastId
  BY DEF MachineTypeOK
<1>3. id \notin Pending
  BY <1>2
<1>4. /\ Pending' = Pending \cup {id}
      /\ \A i \in Pending : payments'[i] = payments[i]
      /\ payments'[id] = [owner |-> o, amount |-> mocs, expiration |-> now + wait]
  BY <1>1, <1>3 DEF Pending
<1>5. /\ IsFiniteSet(Pending)
      /\ \A i \in Pending : f[i] = payments[i].amount /\ f[i] \in Nat
  BY AmountsTyped
<1>6. g[id] = mocs /\ \A i \in Pending : g[i] = f[i]
  BY <1>4, <1>5 DEF Amounts
<1> HIDE DEF f, g, id
<1>7. ASSUME NEW D \in SUBSET Pending
      PROVE  /\ SumFunctionOnSet(g, D) = SumFunctionOnSet(f, D)
             /\ SumFunctionOnSet(g, D \cup {id}) = SumFunctionOnSet(f, D) + mocs
  <2>1. \A i \in Pending : f[i] \in Int
    BY <1>5
  <2>2. SumFunctionOnSet(f, D) = SumFunctionOnSet(g, D)
    BY <1>5, <1>6, <2>1, SumEqual
  <2>3. SumFunctionOnSet(f, D) \in Int
    BY <1>5, <2>1, SumInt
  <2> DEFINE E == D \cup {id}
  <2>4. IsFiniteSet(E) /\ id \in E /\ E \in SUBSET E
    BY <1>5, FS_Subset, FS_AddElement
  <2>5. \A i \in E : g[i] \in Int
    BY <1>5, <1>6
  <2>6. E \ {id} = D
    BY <1>3
  <2> HIDE DEF E
  <2>7. SumFunctionOnSet(g, E) = g[id] + SumFunctionOnSet(g, E \ {id})
    BY <2>4, <2>5, SumRemove
  <2> QED
    BY <1>6, <2>2, <2>3, <2>6, <2>7 DEF E
<1> QED
  BY <1>3, <1>4, <1>7 DEF f, g, id

PendingSummed == PendingMocs = SumFunctionOnSet(Amounts, Pending)

LEMMA PendingIsSum == MachineTypeOK => PendingSummed
BY AmountsTyped DEF PendingSummed, PendingMocs, SumFunction

LEMMA PendingIsSumNext ==
  ASSUME MachineTypeOK'
  PROVE  PendingMocs' = SumFunctionOnSet(Amounts', Pending')
<1>1. PendingSummed'
  BY PendingIsSum, PTL
<1> QED
  BY <1>1 DEF PendingSummed

\* A payment is made or cancelled for no more than its amount.
LEMMA PaymentGone ==
  ASSUME MachineInv, NEW id \in Pending, NEW taken \in 0..payments[id].amount,
         payments' = Without(id), held' = held - taken, lastId' = lastId, PoolTypeOK'
  PROVE  MachineTypeOK' /\ PaymentsCovered'
<1> DEFINE n == payments[id].amount
           others == SumFunctionOnSet(Amounts, Pending \ {id})
<1>1. MachineTypeOK /\ held \in Nat /\ n \in Nat /\ taken \in Nat /\ taken <= n
  BY DEF MachineInv, MachineTypeOK
<1>2. /\ Pending' = Pending \ {id}
      /\ \A i \in Pending' : payments'[i] = payments[i]
      /\ SumFunctionOnSet(Amounts', Pending \ {id}) = SumFunctionOnSet(Amounts, Pending) - n
  BY <1>1, AmountsWithout
<1>3. SumFunctionOnSet(Amounts, Pending) <= held
  BY <1>1, PendingIsSum DEF MachineInv, PaymentsCovered, PendingSummed
<1>4. SumFunctionOnSet(Amounts, Pending) \in Int /\ n <= SumFunctionOnSet(Amounts, Pending)
  BY <1>1, AmountsTyped, SumNat, SummandsWithin
<1> HIDE DEF n
<1>5. held' \in Nat /\ SumFunctionOnSet(Amounts', Pending') <= held'
  BY <1>1, <1>2, <1>3, <1>4
<1>6. MachineTypeOK'
  BY <1>1, <1>2, <1>5 DEF MachineTypeOK
<1> QED
  BY <1>5, <1>6, PendingIsSumNext DEF PaymentsCovered

\* A withdrawal adds the MOCs it takes from the pool.
LEMMA PaymentAdded ==
  ASSUME MachineInv, NEW o \in Owners, NEW mocs \in Nat, NEW wait \in Nat,
         Delay(o, mocs, wait), PoolTypeOK'
  PROVE  MachineTypeOK' /\ PaymentsCovered'
<1> DEFINE id == lastId + 1
<1>1. MachineTypeOK /\ held \in Nat /\ lastId \in Nat /\ now \in Nat /\ id \in Nat
  BY DEF MachineInv, MachineTypeOK, PoolTypeOK
<1>2. /\ Pending' = Pending \cup {id}
      /\ \A i \in Pending : payments'[i] = payments[i]
      /\ payments'[id] = [owner |-> o, amount |-> mocs, expiration |-> now + wait]
      /\ SumFunctionOnSet(Amounts', Pending \cup {id}) = SumFunctionOnSet(Amounts, Pending) + mocs
  BY <1>1, AmountsWith
<1>3. lastId' = id /\ held' = held + mocs
  BY DEF Delay
<1>4. SumFunctionOnSet(Amounts, Pending) <= held
  BY <1>1, PendingIsSum DEF MachineInv, PaymentsCovered, PendingSummed
<1>5. SumFunctionOnSet(Amounts, Pending) \in Nat
  BY <1>1, AmountsTyped, SumNat
<1>6. MachineTypeOK'
  BY <1>1, <1>2, <1>3 DEF MachineTypeOK
<1>7. SumFunctionOnSet(Amounts', Pending') <= held'
  BY <1>1, <1>2, <1>3, <1>4, <1>5
<1> QED
  BY <1>6, <1>7, PendingIsSumNext DEF PaymentsCovered

-----------------------------------------------------------------------------
LEMMA InitialMachine == Init => MachineInv
<1> SUFFICES ASSUME Init PROVE MachineInv
  OBVIOUS
<1>1. PoolInv
  BY InitialPool DEF Init
<1>2. Pending = {}
  BY DEF Init, Pending
<1>3. MachineTypeOK
  BY <1>1, <1>2 DEF Init, MachineTypeOK, PoolInv
<1>4. PendingMocs = 0
  BY <1>2, <1>3, PendingIsSum, SumEmpty DEF PendingSummed
<1> QED
  BY <1>1, <1>3, <1>4 DEF Init, MachineInv, PaymentsCovered

LEMMA MachineKeepsInv == MachineInv /\ [Next]_<<poolVars, machineVars>> => MachineInv'
<1> SUFFICES ASSUME MachineInv, [Next]_<<poolVars, machineVars>> PROVE MachineInv'
  OBVIOUS
<1>1. PoolInv'
  BY MachineMovesPool, MovesKeepInv DEF MachineInv
<1>2. PoolTypeOK'
  BY <1>1 DEF PoolInv
<1>3. ASSUME UNCHANGED machineVars
      PROVE  MachineTypeOK' /\ PaymentsCovered'
  BY <1>2, <1>3 DEF MachineInv, MachineTypeOK, PaymentsCovered, PendingMocs, Amounts, Pending, machineVars
<1>4. ASSUME NEW o \in Owners, NEW t \in 0..tokenBalances[o], WithdrawTokens(o, t)
      PROVE  MachineTypeOK' /\ PaymentsCovered'
  <2>1. TokenToMoc(t) \in Nat
    BY <1>4, WithdrawKeepsInv, WorthOfTokens, Conversions
       DEF WithdrawTokens, MachineInv, ConversionsAreExact
  <2>2. PICK locked \in 0..(roundLockPeriodSecs + 1) :
          Delay(o, TokenToMoc(t), locked + withdrawLockTime)
    BY <1>4 DEF WithdrawTokens
  <2>3. locked + withdrawLockTime \in Nat
    BY DelayAssumption
  <2> QED
    BY <1>2, <2>1, <2>2, <2>3, PaymentAdded
<1>5. ASSUME NEW id \in Pending, Cancel(id)
      PROVE  MachineTypeOK' /\ PaymentsCovered'
  <2> DEFINE amount == payments[id].amount
  <2>1. amount \in Nat /\ held \in Nat
    BY DEF MachineInv, MachineTypeOK
  <2>2. payments' = Without(id) /\ lastId' = lastId
    BY <1>5 DEF Cancel
  <2>3. CASE MocToToken(amount) > 0
    <3>1. held' = held - Charged(amount)
      BY <1>5, <2>3 DEF Cancel
    <3>2. Charged(amount) \in 0..amount
      BY <2>1, <2>3, StakesAtPrice DEF MachineInv
    <3> QED
      BY <1>2, <2>2, <3>1, <3>2, PaymentGone
  <2>4. CASE ~(MocToToken(amount) > 0)
    <3>1. held' = held - 0
      BY <1>5, <2>1, <2>4 DEF Cancel
    <3>2. 0 \in 0..amount
      BY <2>1
    <3> QED
      BY <1>2, <2>2, <3>1, <3>2, PaymentGone
  <2> QED
    BY <2>3, <2>4
<1>6. ASSUME NEW id \in Pending, Pay(id)
      PROVE  MachineTypeOK' /\ PaymentsCovered'
  <2>1. payments[id].amount \in 0..payments[id].amount
    BY DEF MachineInv, MachineTypeOK
  <2>2. payments' = Without(id) /\ lastId' = lastId /\ held' = held - payments[id].amount
    BY <1>6 DEF Pay
  <2> QED
    BY <1>2, <2>1, <2>2, PaymentGone
<1> QED
  BY <1>1, <1>3, <1>4, <1>5, <1>6 DEF Next, MachineInv

\* Every call of the machine keeps MachineInv: the payments that wait add up to
\* what it holds, and the pool behind it is sound.
THEOREM MachineInvariant == Spec => []MachineInv
BY InitialMachine, MachineKeepsInv, PTL DEF Spec

(***************************************************************************)
(* The machine never lacks the MOCs of a payment: the transfers of cancel  *)
(* and withdraw leave it a balance that is not below zero.                 *)
(***************************************************************************)
THEOREM MachineTypes == Spec => []MachineTypeOK
<1>1. MachineInv => MachineTypeOK
  BY DEF MachineInv
<1> QED
  BY <1>1, MachineInvariant, PTL

(***************************************************************************)
(* The machine has the MOCs of all the payments that wait together,        *)
(* whatever was paid and cancelled before, so no transfer of a payment and *)
(* no cancellation fails for want of MOCs.                                 *)
(***************************************************************************)
THEOREM PaymentsAlwaysCovered == Spec => []PaymentsCovered
<1>1. MachineInv => PaymentsCovered
  BY DEF MachineInv
<1> QED
  BY <1>1, MachineInvariant, PTL

(***************************************************************************)
(* Withdrawals and cancellations keep the pool solvent and a token worth a *)
(* MOC.                                                                    *)
(***************************************************************************)
THEOREM PoolSoundBehindMachine == Spec => [](Solvent /\ TokenWorthAMoc)
<1>1. MachineInv => Solvent /\ TokenWorthAMoc
  BY DEF MachineInv, PoolInv
<1> QED
  BY <1>1, MachineInvariant, PTL

(***************************************************************************)
(* A lock of the voting machine survives any series of withdrawals,        *)
(* payments and cancellations, but for one MOC.                            *)
(***************************************************************************)
THEOREM LocksHoldBehindMachine == Spec => []LockHoldsButForRounding
<1>1. Init => LockHoldsButForRounding
  BY InitialLocks DEF Init
<1>2. MachineInv /\ LockHoldsButForRounding /\ [Next]_<<poolVars, machineVars>>
        => LockHoldsButForRounding'
  BY MachineMovesPool, MovesKeepLocks DEF MachineInv
<1> QED
  BY <1>1, <1>2, MachineInvariant, PTL DEF Spec

(***************************************************************************)
(* Nobody loses stake but by a withdrawal of one's own, whoever cancels    *)
(* and is paid meanwhile.                                                  *)
(***************************************************************************)
THEOREM StakeNeverTakenBehindMachine == Spec => StakeFallsByOwnWithdrawal
<1>1. MachineInv /\ [Next]_<<poolVars, machineVars>> => [StakesFallOwn]_poolVars
  BY MachineMovesPool, MovesKeepStakes DEF MachineInv
<1> QED
  BY <1>1, MachineInvariant, PTL DEF Spec, StakeFallsByOwnWithdrawal, StakesFallOwn

-----------------------------------------------------------------------------
(***************************************************************************)
(* Wealth.  A withdrawal turns stake into a payment of as many MOCs; a     *)
(* cancellation turns a payment into stake worth no more.                  *)
(***************************************************************************)
ChurningGainsNothing ==
    \A o \in Owners :
        (tokenBalances'[o] # tokenBalances[o] /\ held' # held) => Wealth(o)' <= Wealth(o)

LEMMA WealthTyped ==
  ASSUME MachineInv, MachineInv', NEW o \in Owners
  PROVE  /\ MocBalanceOf(o) \in Nat /\ MocBalanceOf(o)' \in Nat
         /\ SumFunctionOnSet(Amounts, PaymentsOf(o)) \in Int
         /\ PaymentsOf(o) \in SUBSET Pending
<1>1. MocBalanceOf(o) \in Nat
  BY StakesNat DEF StakesAreNat, MachineInv
<1>2. StakesAreNat'
  <2>1. PoolInv'
    BY DEF MachineInv
  <2> QED
    BY <2>1, StakesNat, PTL
<1>3. MocBalanceOf(o)' \in Nat
  BY <1>2 DEF StakesAreNat
<1>4. PaymentsOf(o) \in SUBSET Pending
  BY DEF PaymentsOf
<1>5. SumFunctionOnSet(Amounts, PaymentsOf(o)) \in Int
  <2>1. IsFiniteSet(Pending) /\ \A id \in Pending : Amounts[id] \in Int
    BY AmountsTyped DEF MachineInv
  <2> QED
    BY <1>4, <2>1, SumInt
<1> QED
  BY <1>1, <1>3, <1>4, <1>5

LEMMA WithdrawalGainsNothing ==
  ASSUME MachineInv, MachineInv', NEW o \in Owners, NEW t \in 0..tokenBalances[o],
         WithdrawTokens(o, t)
  PROVE  ChurningGainsNothing
<1> SUFFICES ASSUME NEW p \in Owners, tokenBalances'[p] # tokenBalances[p]
             PROVE  Wealth(p)' <= Wealth(p)
  BY DEF ChurningGainsNothing
<1>1. Withdraw(o, t)
  BY DEF WithdrawTokens
<1>2. p = o
  BY <1>1 DEF Withdraw, MachineInv, PoolInv, PoolTypeOK
<1> DEFINE q == TokenToMoc(t)
           id == lastId + 1
           S == SumFunctionOnSet(Amounts, PaymentsOf(p))
<1>3. PICK locked \in 0..(roundLockPeriodSecs + 1) : Delay(o, q, locked + withdrawLockTime)
  BY DEF WithdrawTokens
<1>4. q \in Nat /\ locked + withdrawLockTime \in Nat
  <2>1. q \in Nat
    BY <1>1, WithdrawKeepsInv, WorthOfTokens, Conversions DEF MachineInv, ConversionsAreExact
  <2> QED
    BY <2>1, DelayAssumption
<1>5. MocBalanceOf(p)' + q <= MocBalanceOf(p)
  BY <1>1, <1>2, WithdrawMoves DEF MachineInv
<1>6. MachineTypeOK
  BY DEF MachineInv
<1>7. /\ MocBalanceOf(p) \in Nat /\ MocBalanceOf(p)' \in Nat /\ S \in Int
      /\ PaymentsOf(p) \in SUBSET Pending
  BY WealthTyped
<1> HIDE DEF q
<1>8. /\ id \notin Pending /\ Pending' = Pending \cup {id}
      /\ \A i \in Pending : payments'[i] = payments[i]
      /\ payments'[id].owner = o
      /\ SumFunctionOnSet(Amounts', PaymentsOf(p) \cup {id}) = S + q
  <2> DEFINE wait == locked + withdrawLockTime
             D == PaymentsOf(p)
  <2>1. wait \in Nat /\ Delay(o, q, wait)
    BY <1>3, <1>4
  <2> HIDE DEF wait
  <2>2. /\ id \notin Pending /\ Pending' = Pending \cup {id}
        /\ \A i \in Pending : payments'[i] = payments[i]
        /\ payments'[id] = [owner |-> o, amount |-> q, expiration |-> now + wait]
    BY <1>4, <1>6, <2>1, AmountsWith
  <2>3. \A C \in SUBSET Pending :
           SumFunctionOnSet(Amounts', C \cup {id}) = SumFunctionOnSet(Amounts, C) + q
    BY <1>4, <1>6, <2>1, AmountsWith
  <2>4. SumFunctionOnSet(Amounts', D \cup {id}) = S + q
    BY <1>7, <2>3
  <2> QED
    BY <2>2, <2>4
<1>9. PaymentsOf(p)' = PaymentsOf(p) \cup {id}
  BY <1>2, <1>8 DEF PaymentsOf
<1>10. SumFunctionOnSet(Amounts', PaymentsOf(p)') = S + q
  BY <1>8, <1>9
<1>11. Wealth(p)' = MocBalanceOf(p)' + (S + q)
  BY <1>10 DEF Wealth
<1>12. Wealth(p) = MocBalanceOf(p) + S
  BY DEF Wealth
<1> HIDE DEF S
<1> QED
  BY <1>4, <1>5, <1>7, <1>11, <1>12

LEMMA CancellationGainsNothing ==
  ASSUME MachineInv, MachineInv', NEW id \in Pending, Cancel(id)
  PROVE  ChurningGainsNothing
<1> DEFINE n == payments[id].amount
           o == payments[id].owner
<1>1. MachineTypeOK /\ n \in Nat /\ o \in Owners
  BY DEF MachineInv, MachineTypeOK
<1> SUFFICES ASSUME NEW p \in Owners, tokenBalances'[p] # tokenBalances[p]
             PROVE  Wealth(p)' <= Wealth(p)
  BY DEF ChurningGainsNothing
<1>2. MocToToken(n) > 0 /\ StakeInternal(o, MocToToken(n), Charged(n))
  BY DEF Cancel, poolVars, shares
<1>3. p = o
  BY <1>2 DEF StakeInternal, MachineInv, PoolInv, PoolTypeOK
<1>4. /\ MocToToken(n) \in Nat /\ Charged(n) \in 0..n
      /\ AtPrice(MocToToken(n), Charged(n))
  BY <1>1, <1>2, StakesAtPrice DEF MachineInv
<1>5. MocBalanceOf(p)' <= MocBalanceOf(p) + Charged(n)
  BY <1>1, <1>2, <1>3, <1>4, StakeMoves DEF MachineInv
<1> DEFINE S == SumFunctionOnSet(Amounts, PaymentsOf(p))
<1>6. /\ MocBalanceOf(p) \in Nat /\ MocBalanceOf(p)' \in Nat /\ S \in Int
      /\ PaymentsOf(p) \in SUBSET Pending
  BY WealthTyped
<1>7. id \in PaymentsOf(p)
  BY <1>3 DEF PaymentsOf
<1>8. payments' = Without(id)
  BY DEF Cancel
<1>9. /\ Pending' = Pending \ {id}
      /\ \A i \in Pending' : payments'[i] = payments[i]
      /\ SumFunctionOnSet(Amounts', PaymentsOf(p) \ {id}) = S - n
  BY <1>1, <1>6, <1>7, <1>8, AmountsWithout
<1>10. PaymentsOf(p)' = PaymentsOf(p) \ {id}
  BY <1>9 DEF PaymentsOf
<1>11. Wealth(p)' = MocBalanceOf(p)' + (S - n)
  BY <1>9, <1>10 DEF Wealth
<1>12. Wealth(p) = MocBalanceOf(p) + S
  BY DEF Wealth
<1>13. Charged(n) \in Int /\ Charged(n) <= n
  BY <1>1, <1>4
<1> HIDE DEF S, n
<1> QED
  BY <1>1, <1>5, <1>6, <1>11, <1>12, <1>13

LEMMA MachineIsFair ==
  ASSUME MachineInv, MachineInv', [Next]_<<poolVars, machineVars>>
  PROVE  [ChurningGainsNothing]_<<poolVars, machineVars>>
<1> SUFFICES ASSUME Next PROVE ChurningGainsNothing
  OBVIOUS
<1>1. CASE UNCHANGED machineVars
  BY <1>1 DEF machineVars, ChurningGainsNothing
<1>2. ASSUME NEW o \in Owners, NEW t \in 0..tokenBalances[o], WithdrawTokens(o, t)
      PROVE  ChurningGainsNothing
  BY <1>2, WithdrawalGainsNothing
<1>3. ASSUME NEW id \in Pending, Cancel(id)
      PROVE  ChurningGainsNothing
  BY <1>3, CancellationGainsNothing
<1>4. ASSUME NEW id \in Pending, Pay(id)
      PROVE  ChurningGainsNothing
  BY <1>4 DEF Pay, poolVars, shares, ChurningGainsNothing
<1> QED
  BY <1>1, <1>2, <1>3, <1>4 DEF Next

(***************************************************************************)
(* Nobody gains by withdrawing and cancelling: what an owner has in the    *)
(* pool and in payments together does not grow by either.                  *)
(***************************************************************************)
THEOREM NobodyGainsByChurning == Spec => ChurningNeverGains
<1>1. MachineInv /\ MachineInv' /\ [Next]_<<poolVars, machineVars>>
        => [ChurningGainsNothing]_<<poolVars, machineVars>>
  BY MachineIsFair
<1> QED
  BY <1>1, MachineInvariant, PTL DEF Spec, ChurningNeverGains, ChurningGainsNothing
=============================================================================
