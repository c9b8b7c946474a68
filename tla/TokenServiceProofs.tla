------------------------- MODULE TokenServiceProofs -------------------------
(***************************************************************************)
(* What the wallet operations preserve: under the guard each of them       *)
(* checks, no balance becomes negative.  And how a sum of tokens over a    *)
(* finite set changes with one of its terms.                               *)
(***************************************************************************)
EXTENDS TokenService, FiniteSetTheorems, TLAPS

\* Locking tokens for a booking.
LEMMA LockTokensType ==
    ASSUME NEW Users, NEW w \in [Users -> Wallet], NEW u, NEW amount \in Nat,
           CanLock(w, u, amount)
    PROVE  LockTokens(w, u, amount) \in [Users -> Wallet]
<1>. DEFINE row == [balance |-> w[u].balance - amount,
                    locked_balance |-> w[u].locked_balance + amount]
<1>1. u \in Users => row \in Wallet
  BY DEF CanLock, Wallet
<1>2. LockTokens(w, u, amount) = [w EXCEPT ![u] = row]
  BY DEF LockTokens
<1>. HIDE DEF row
<1>. QED  BY <1>1, <1>2

\* Returning locked tokens to their owner.
LEMMA UnlockTokensType ==
    ASSUME NEW Users, NEW w \in [Users -> Wallet], NEW u, NEW amount \in Nat,
           CanTakeLocked(w, u, amount)
    PROVE  UnlockTokens(w, u, amount) \in [Users -> Wallet]
<1>. DEFINE row == [balance |-> w[u].balance + amount,
                    locked_balance |-> w[u].locked_balance - amount]
<1>1. u \in Users => row \in Wallet
  BY DEF CanTakeLocked, Wallet
<1>2. UnlockTokens(w, u, amount) = [w EXCEPT ![u] = row]
  BY DEF UnlockTokens
<1>. HIDE DEF row
<1>. QED  BY <1>1, <1>2

\* Spending locked tokens into another wallet, or into the same one.
LEMMA TransferLockedTokensType ==
    ASSUME NEW Users, NEW w \in [Users -> Wallet], NEW from, NEW to,
           NEW amount \in Nat, CanTakeLocked(w, from, amount)
    PROVE  TransferLockedTokens(w, from, to, amount) \in [Users -> Wallet]
<1>. DEFINE taken == [balance |-> w[from].balance,
                      locked_balance |-> w[from].locked_balance - amount]
            spent == [w EXCEPT ![from] = taken]
            given == [balance |-> spent[to].balance + amount,
                      locked_balance |-> spent[to].locked_balance]
<1>1. from \in Users => taken \in Wallet
  BY DEF CanTakeLocked, Wallet
<1>2. spent \in [Users -> Wallet]
  <2>. HIDE DEF taken
  <2>. QED  BY <1>1
<1>3. TransferLockedTokens(w, from, to, amount) = [spent EXCEPT ![to] = given]
  BY DEF TransferLockedTokens
<1>. HIDE DEF spent
<1>4. to \in Users => given \in Wallet
  BY <1>2 DEF Wallet
<1>. HIDE DEF given
<1>. QED  BY <1>2, <1>3, <1>4

-----------------------------------------------------------------------------
(* Sums of tokens *)

\* Induction over the subsets of a finite set, for a set of subsets rather
\* than a predicate: what holds of T when it holds of all smaller subsets
\* holds of every subset.
LEMMA SubsetInduction ==
    ASSUME NEW S, IsFiniteSet(S), NEW Good \in SUBSET (SUBSET S),
           \A T \in SUBSET S : (\A U \in SUBSET T : U # T => U \in Good) => T \in Good
    PROVE  \A T \in SUBSET S : T \in Good
<1>. SUFFICES ASSUME (SUBSET S) \ Good # {} PROVE FALSE
  OBVIOUS
<1>. DEFINE R == StrictSubsetOrdering(S)
<1>1. IsWellFoundedOn(R, SUBSET S)
  <2>1. IsWellFoundedOn(R, FiniteSubsetsOf(S))
    BY FS_StrictSubsetOrderingWellFounded
  <2>2. FiniteSubsetsOf(S) = SUBSET S
    BY FS_FiniteSubsetsOfFinite
  <2>. QED  BY <2>1, <2>2
<1>2. PICK T \in (SUBSET S) \ Good : \A U \in (SUBSET S) \ Good : <<U, T>> \notin R
  <2>. DEFINE Bad == (SUBSET S) \ Good
  <2>1. Bad \subseteq SUBSET S /\ Bad # {}
    OBVIOUS
  <2>. HIDE DEF R, Bad
  <2>2. \E x \in Bad : \A y \in Bad : ~ (<<y, x>> \in R)
    BY <1>1, <2>1, WFMin
  <2>. QED  BY <2>2 DEF Bad
<1>3. \A U \in SUBSET T : U # T => U \in Good
  BY <1>2 DEF StrictSubsetOrdering
<1>. QED  BY <1>2, <1>3

\* The function that the library's folds recur with.
Pick(s) == CHOOSE x \in s : TRUE
Totals(g, f, S) ==
    g = [s \in SUBSET S |-> IF s = {} THEN 0 ELSE f[Pick(s)] + g[s \ {Pick(s)}]]

LEMMA PickIn == ASSUME NEW s, s # {} PROVE Pick(s) \in s
BY DEF Pick

LEMMA TotalsAgree ==
    ASSUME NEW S, IsFiniteSet(S), NEW T \in SUBSET S, NEW f, NEW g, NEW h,
           Totals(g, f, S), Totals(h, f, T)
    PROVE  \A U \in SUBSET T : g[U] = h[U]
<1>. DEFINE Good == {U \in SUBSET T : g[U] = h[U]}
<1>1. IsFiniteSet(T)
  BY FS_Subset
<1>2. ASSUME NEW U \in SUBSET T, \A V \in SUBSET U : V # U => V \in Good
      PROVE  U \in Good
  <2>1. /\ g[U] = IF U = {} THEN 0 ELSE f[Pick(U)] + g[U \ {Pick(U)}]
        /\ h[U] = IF U = {} THEN 0 ELSE f[Pick(U)] + h[U \ {Pick(U)}]
    BY DEF Totals
  <2>2. U # {} => g[U \ {Pick(U)}] = h[U \ {Pick(U)}]
    BY <1>2, PickIn
  <2>. QED  BY <2>1, <2>2
<1>3. Good \in SUBSET (SUBSET T)
  OBVIOUS
<1>4. \A U \in SUBSET T : U \in Good
  <2>. HIDE DEF Good
  <2>. QED  BY <1>1, <1>2, <1>3, SubsetInduction
<1>. QED  BY <1>4

LEMMA TotalsExist ==
    ASSUME NEW S, IsFiniteSet(S), NEW f
    PROVE  \E g : Totals(g, f, S)
<1>. DEFINE Good == {T \in SUBSET S : \E g : Totals(g, f, T)}
<1>1. ASSUME NEW T \in SUBSET S, \A U \in SUBSET T : U # T => U \in Good
      PROVE  T \in Good
  <2>. DEFINE h(U) == (CHOOSE g : Totals(g, f, U))[U]
              g == [s \in SUBSET T |-> IF s = {} THEN 0 ELSE f[Pick(s)] + h(s \ {Pick(s)})]
  <2>1. ASSUME NEW U \in SUBSET T, U # T
        PROVE  g[U] = h(U)
    <3>. DEFINE k == CHOOSE k : Totals(k, f, U)
    <3>1. Totals(k, f, U)
      BY <1>1, <2>1
    <3>2. k[U] = IF U = {} THEN 0 ELSE f[Pick(U)] + k[U \ {Pick(U)}]
      <4>. HIDE DEF k
      <4>. QED  BY <3>1 DEF Totals
    <3>3. ASSUME U # {} PROVE k[U \ {Pick(U)}] = h(U \ {Pick(U)})
      <4>. DEFINE V == U \ {Pick(U)}
                  l == CHOOSE l : Totals(l, f, V)
      <4>1. V \in SUBSET U /\ V \in SUBSET T /\ V # T
        BY <3>3, PickIn
      <4>2. Totals(l, f, V)
        BY <1>1, <4>1
      <4>3. IsFiniteSet(U)
        BY FS_Subset
      <4>4. k[V] = l[V]
        <5>. HIDE DEF k, l, V
        <5>. QED  BY <3>1, <4>1, <4>2, <4>3, TotalsAgree
      <4>. QED  BY <4>4
    <3>4. h(U) = k[U]
      OBVIOUS
    <3>5. g[U] = IF U = {} THEN 0 ELSE f[Pick(U)] + h(U \ {Pick(U)})
      OBVIOUS
    <3>. HIDE DEF g, h, k
    <3>. QED  BY <3>2, <3>3, <3>4, <3>5
  <2>2. ASSUME NEW s \in SUBSET T, s # {}
        PROVE  g[s \ {Pick(s)}] = h(s \ {Pick(s)})
    <3>. HIDE DEF g, h
    <3>. QED  BY <2>1, <2>2, PickIn
  <2>3. g = [s \in SUBSET T |-> IF s = {} THEN 0 ELSE f[Pick(s)] + g[s \ {Pick(s)}]]
    <3>1. g = [s \in SUBSET T |-> IF s = {} THEN 0 ELSE f[Pick(s)] + h(s \ {Pick(s)})]
      OBVIOUS
    <3>. HIDE DEF g, h
    <3>. QED  BY <2>2, <3>1
  <2>4. Totals(g, f, T)
    <3>. HIDE DEF g
    <3>. QED  BY <2>3 DEF Totals
  <2>. QED  BY <2>4
<1>2. Good \in SUBSET (SUBSET S)
  OBVIOUS
<1>3. \A T \in SUBSET S : T \in Good
  <2>. HIDE DEF Good
  <2>. QED  BY <1>1, <1>2, SubsetInduction
<1>. QED  BY <1>3

LEMMA SumIsTotal ==
    ASSUME NEW S, IsFiniteSet(S), NEW f
    PROVE  \E g : Totals(g, f, S) /\ SumFunctionOnSet(f, S) = g[S]
<1>. DEFINE g == CHOOSE g : Totals(g, f, S)
<1>1. Totals(g, f, S)
  BY TotalsExist
<1>2. SumFunctionOnSet(f, S) = g[S]
  BY DEF SumFunctionOnSet, FoldFunctionOnSet, MapThenFoldSet, Totals, Pick
<1>. QED  BY <1>1, <1>2

LEMMA SumEmpty == \A f : SumFunctionOnSet(f, {}) = 0
<1>. SUFFICES ASSUME NEW f PROVE SumFunctionOnSet(f, {}) = 0
  OBVIOUS
<1>1. IsFiniteSet({})
  BY FS_EmptySet
<1>2. PICK g : Totals(g, f, {}) /\ SumFunctionOnSet(f, {}) = g[{}]
  BY <1>1, SumIsTotal
<1>. QED  BY <1>2 DEF Totals

LEMMA SumPicks ==
    ASSUME NEW S, IsFiniteSet(S), S # {}, NEW f
    PROVE  SumFunctionOnSet(f, S) = f[Pick(S)] + SumFunctionOnSet(f, S \ {Pick(S)})
<1>. DEFINE T == S \ {Pick(S)}
<1>1. T \in SUBSET S /\ IsFiniteSet(T)
  BY FS_Subset
<1>2. PICK g : Totals(g, f, S) /\ SumFunctionOnSet(f, S) = g[S]
  BY SumIsTotal
<1>3. PICK h : Totals(h, f, T) /\ SumFunctionOnSet(f, T) = h[T]
  <2>. HIDE DEF T
  <2>. QED  BY <1>1, SumIsTotal
<1>4. g[T] = h[T]
  <2>. HIDE DEF T
  <2>. QED  BY <1>1, <1>2, <1>3, TotalsAgree
<1>5. g[S] = f[Pick(S)] + g[T]
  BY <1>2 DEF Totals
<1>. QED  BY <1>2, <1>3, <1>4, <1>5

\* The order of the terms does not matter.
LEMMA SumRemove ==
    ASSUME NEW S, IsFiniteSet(S), NEW f, \A x \in S : f[x] \in Int
    PROVE  /\ SumFunctionOnSet(f, S) \in Int
           /\ \A x \in S : SumFunctionOnSet(f, S) = f[x] + SumFunctionOnSet(f, S \ {x})
<1>. DEFINE Sum(T) == SumFunctionOnSet(f, T)
            Good == {T \in SUBSET S : /\ Sum(T) \in Int
                                      /\ \A x \in T : Sum(T) = f[x] + Sum(T \ {x})}
<1>1. ASSUME NEW T \in SUBSET S, \A U \in SUBSET T : U # T => U \in Good
      PROVE  T \in Good
  <2>1. CASE T = {}
    BY <2>1, SumEmpty
  <2>2. CASE T # {}
    <3>. DEFINE y == Pick(T)
    <3>1. y \in T /\ IsFiniteSet(T)
      BY <2>2, PickIn, FS_Subset
    <3>2. Sum(T) = f[y] + Sum(T \ {y})
      BY <2>2, <3>1, SumPicks
    <3>. HIDE DEF y, Sum
    <3>3. \A x \in T : /\ Sum(T \ {x}) \in Int
                       /\ \A z \in T \ {x} : Sum(T \ {x}) = f[z] + Sum((T \ {x}) \ {z})
      <4>. SUFFICES ASSUME NEW x \in T PROVE T \ {x} \in Good
        OBVIOUS
      <4>. QED  BY <1>1
    <3>4. ASSUME NEW x \in T PROVE Sum(T) = f[x] + Sum(T \ {x})
      <4>1. CASE x = y
        BY <3>2, <4>1
      <4>2. CASE x # y
        <5>1. Sum(T \ {y}) = f[x] + Sum((T \ {y}) \ {x})
          BY <3>1, <3>3, <4>2
        <5>2. Sum(T \ {x}) = f[y] + Sum((T \ {x}) \ {y})
          BY <3>1, <3>3, <4>2
        <5>3. Sum((T \ {y}) \ {x}) = Sum((T \ {x}) \ {y})
          <6>1. (T \ {y}) \ {x} = (T \ {x}) \ {y}
            OBVIOUS
          <6>. QED  BY <6>1, Zenon
        <5>4. Sum((T \ {x}) \ {y}) \in Int
          <6>. DEFINE U == (T \ {x}) \ {y}
          <6>1. U \in SUBSET T /\ U # T
            OBVIOUS
          <6>2. U \in Good
            <7>. HIDE DEF U, Good
            <7>. QED  BY <1>1, <6>1
          <6>. QED  BY <6>2
        <5>5. f[x] \in Int /\ f[y] \in Int
          BY <3>1
        <5>. QED  BY <3>2, <5>1, <5>2, <5>3, <5>4, <5>5
      <4>. QED  BY <4>1, <4>2
    <3>5. Sum(T) \in Int
      BY <3>1, <3>2, <3>3
    <3>. QED  BY <3>4, <3>5
  <2>. QED  BY <2>1, <2>2
<1>2. Good \in SUBSET (SUBSET S)
  OBVIOUS
<1>3. \A T \in SUBSET S : T \in Good
  <2>. HIDE DEF Good
  <2>. QED  BY <1>1, <1>2, SubsetInduction
<1>4. S \in Good
  <2>. HIDE DEF Good
  <2>. QED  BY <1>3
<1>. QED  BY <1>4

LEMMA SumAgrees ==
    ASSUME NEW S, IsFiniteSet(S), NEW f, NEW g, \A x \in S : f[x] = g[x]
    PROVE  SumFunctionOnSet(f, S) = SumFunctionOnSet(g, S)
<1>. DEFINE Good == {T \in SUBSET S : SumFunctionOnSet(f, T) = SumFunctionOnSet(g, T)}
<1>1. ASSUME NEW T \in SUBSET S, \A U \in SUBSET T : U # T => U \in Good
      PROVE  T \in Good
  <2>1. CASE T = {}
    BY <2>1, SumEmpty
  <2>2. CASE T # {}
    <3>1. Pick(T) \in T /\ IsFiniteSet(T)
      BY <2>2, PickIn, FS_Subset
    <3>2. T \ {Pick(T)} \in Good /\ f[Pick(T)] = g[Pick(T)]
      BY <1>1, <3>1
    <3>. QED  BY <2>2, <3>1, <3>2, SumPicks
  <2>. QED  BY <2>1, <2>2
<1>2. Good \in SUBSET (SUBSET S)
  OBVIOUS
<1>3. S \in Good
  <2>. HIDE DEF Good
  <2>. QED  BY <1>1, <1>2, SubsetInduction
<1>. QED  BY <1>3

\* One term changes.
LEMMA SumUpdate ==
    ASSUME NEW S, IsFiniteSet(S), NEW f, NEW g, NEW x \in S,
           \A y \in S : f[y] \in Int /\ g[y] \in Int,
           \A y \in S \ {x} : g[y] = f[y]
    PROVE  SumFunctionOnSet(g, S) = SumFunctionOnSet(f, S) + g[x] - f[x]
<1>1. IsFiniteSet(S \ {x})
  BY FS_Subset
<1>2. SumFunctionOnSet(f, S \ {x}) = SumFunctionOnSet(g, S \ {x})
  BY <1>1, SumAgrees
<1>3. /\ SumFunctionOnSet(f, S) = f[x] + SumFunctionOnSet(f, S \ {x})
      /\ SumFunctionOnSet(g, S) = g[x] + SumFunctionOnSet(g, S \ {x})
  BY SumRemove
<1>4. SumFunctionOnSet(f, S \ {x}) \in Int
  BY <1>1, SumRemove
<1>. QED  BY <1>2, <1>3, <1>4

LEMMA SumOfZeros ==
    ASSUME NEW S, IsFiniteSet(S), NEW f, \A x \in S : f[x] = 0
    PROVE  SumFunctionOnSet(f, S) = 0
<1>. DEFINE Good == {T \in SUBSET S : SumFunctionOnSet(f, T) = 0}
<1>1. ASSUME NEW T \in SUBSET S, \A U \in SUBSET T : U # T => U \in Good
      PROVE  T \in Good
  <2>1. CASE T = {}
    BY <2>1, SumEmpty
  <2>2. CASE T # {}
    <3>1. Pick(T) \in T /\ IsFiniteSet(T)
      BY <2>2, PickIn, FS_Subset
    <3>2. T \ {Pick(T)} \in Good /\ f[Pick(T)] = 0
      BY <1>1, <3>1
    <3>. QED  BY <2>2, <3>1, <3>2, SumPicks
  <2>. QED  BY <2>1, <2>2
<1>2. Good \in SUBSET (SUBSET S)
  OBVIOUS
<1>3. S \in Good
  <2>. HIDE DEF Good
  <2>. QED  BY <1>1, <1>2, SubsetInduction
<1>. QED  BY <1>3

=============================================================================
