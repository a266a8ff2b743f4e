------------------------ MODULE BettingPayoutProofs ------------------------
(***************************************************************************)
(* Facts about calculateBettingPayouts for every round of bets: the rule   *)
(* divides with remainder, the remainders add up to the tokens left over   *)
(* times the winning pool, and the order of the drafts leaves no tie, so   *)
(* exactly as many winners are rounded up as there are tokens left over.   *)
(***************************************************************************)
EXTENDS BettingPayout, FiniteSetTheorems, TLAPS

-----------------------------------------------------------------------------
(* Facts about sums over finite sets, and about the ranks of their members. *)

\* The units of a function with natural values on a finite set are finite.
LEMMA UnitsFinite ==
    ASSUME NEW S, IsFiniteSet(S), NEW f, \A x \in S : f[x] \in Nat
    PROVE  IsFiniteSet(Units(f, S))
<1> DEFINE row(x) == {x} \X (1 .. f[x])
           g == [x \in S |-> row(x)]
           T == {row(x) : x \in S}
<1>1. \A x \in S : IsFiniteSet(row(x))
  <2>1. TAKE x \in S
  <2>2. IsFiniteSet({x})
    BY FS_Singleton
  <2>3. IsFiniteSet(1 .. f[x])
    BY FS_Interval
  <2> QED
    BY <2>2, <2>3, FS_Product
<1>2. g \in Surjection(S, T)
  BY DEF Surjection
<1>3. IsFiniteSet(T)
  BY <1>2, FS_Surjection
<1>4. \A R \in T : IsFiniteSet(R)
  BY <1>1
<1> HIDE DEF T
<1>5. IsFiniteSet(UNION T)
  BY <1>3, <1>4, FS_UNION
<1> QED
  BY <1>5 DEF Units, T

\* Such a sum is a natural number, and it is positive if one of its terms is.
LEMMA TokenSumType ==
    ASSUME NEW S, IsFiniteSet(S), NEW f, \A x \in S : f[x] \in Nat
    PROVE  /\ TokenSum(f, S) \in Nat
           /\ \A x \in S : f[x] > 0 => TokenSum(f, S) > 0
<1>1. IsFiniteSet(Units(f, S))
  BY UnitsFinite
<1>2. TokenSum(f, S) \in Nat
  BY <1>1, FS_CardinalityType DEF TokenSum
<1>3. ASSUME NEW x \in S, f[x] > 0
      PROVE  TokenSum(f, S) > 0
  <2>1. <<x, 1>> \in {x} \X (1 .. f[x])
    BY <1>3
  <2>2. <<x, 1>> \in Units(f, S)
    BY <2>1 DEF Units
  <2>3. TokenSum(f, S) # 0
    BY <1>1, <2>2, FS_EmptySet DEF TokenSum
  <2> QED
    BY <1>2, <2>3
<1> QED
  BY <1>2, <1>3

\* Induction over the subsets of a finite set, in words the provers can use:
\* what holds of {} and is kept by adding an element holds of the set.
LEMMA SubsetInduction ==
    ASSUME NEW S, IsFiniteSet(S), NEW Q, {} \in Q,
           \A T \in (SUBSET S) \cap Q : \A x \in S \ T : T \cup {x} \in Q
    PROVE  S \in Q
<1> DEFINE Bad == (SUBSET S) \ Q
           Less == StrictSubsetOrdering(S)
<1> SUFFICES ASSUME S \notin Q PROVE FALSE
  OBVIOUS
<1>1. IsWellFoundedOn(Less, SUBSET S)
  <2>1. FiniteSubsetsOf(S) = SUBSET S
    BY FS_FiniteSubsetsOfFinite
  <2>2. IsWellFoundedOn(StrictSubsetOrdering(S), FiniteSubsetsOf(S))
    BY FS_StrictSubsetOrderingWellFounded
  <2> QED
    BY <2>1, <2>2
<1>2. Bad \subseteq SUBSET S /\ Bad # {}
  BY DEF Bad
<1> HIDE DEF Bad, Less
<1>3. PICK T \in Bad : \A U \in Bad : ~(<<U, T>> \in Less)
  BY <1>1, <1>2, WFMin
<1>4. T \subseteq S /\ T \notin Q
  BY DEF Bad
<1>5. PICK x \in T : TRUE
  BY <1>4
<1> DEFINE U == T \ {x}
<1>6. <<U, T>> \in Less
  BY <1>4 DEF Less, StrictSubsetOrdering
<1>7. U \in Q /\ U \subseteq S /\ x \in S \ U /\ U \cup {x} = T
  BY <1>3, <1>4, <1>6 DEF Bad
<1> QED
  BY <1>4, <1>7

\* The sum over the empty set, and the sum of functions that agree.
LEMMA SumEmpty == \A f : TokenSum(f, {}) = 0
BY FS_EmptySet DEF TokenSum, Units

LEMMA SumSame ==
    ASSUME NEW S, NEW f, NEW g, \A x \in S : f[x] = g[x]
    PROVE  TokenSum(f, S) = TokenSum(g, S)
<1>1. Units(f, S) = Units(g, S)
  BY DEF Units
<1> QED
  BY <1>1 DEF TokenSum

LEMMA SumAdd ==
    ASSUME NEW S, IsFiniteSet(S), NEW x, x \notin S,
           NEW f, \A y \in S \cup {x} : f[y] \in Nat
    PROVE  TokenSum(f, S \cup {x}) = TokenSum(f, S) + f[x]
<1> DEFINE row == {x} \X (1 .. f[x])
<1>1. IsFiniteSet(Units(f, S))
  BY UnitsFinite
<1>2. IsFiniteSet(row) /\ Cardinality(row) = f[x]
  <2>1. IsFiniteSet({x}) /\ Cardinality({x}) = 1
    BY FS_Singleton
  <2>2. f[x] \in Nat /\ IsFiniteSet(1 .. f[x]) /\ Cardinality(1 .. f[x]) = f[x]
    BY FS_Interval
  <2>3. /\ IsFiniteSet(row)
        /\ Cardinality(row) = Cardinality({x}) * Cardinality(1 .. f[x])
    BY <2>1, <2>2, FS_Product
  <2> HIDE DEF row
  <2> QED
    BY <2>1, <2>2, <2>3
<1>3. Units(f, S \cup {x}) = Units(f, S) \cup row
  BY DEF Units
<1>4. Units(f, S) \cap row = {}
  BY DEF Units
<1>5. Cardinality(Units(f, S)) \in Nat
  BY <1>1, FS_CardinalityType
<1> HIDE DEF row
<1>6. Cardinality(Units(f, S) \cup row)
        = Cardinality(Units(f, S)) + Cardinality(row) - Cardinality({})
  BY <1>1, <1>2, <1>4, FS_Union
<1>7. f[x] \in Nat /\ Cardinality({}) = 0
  BY FS_EmptySet
<1>8. Cardinality(Units(f, S) \cup row) = Cardinality(Units(f, S)) + f[x]
  BY <1>2, <1>5, <1>6, <1>7
<1> QED
  BY <1>3, <1>8 DEF TokenSum

\* The sum changes by as much as one of its terms.
LEMMA SumChange ==
    ASSUME NEW S, IsFiniteSet(S), NEW x \in S,
           NEW f, \A y \in S : f[y] \in Nat, NEW g, g[x] \in Nat,
           \A y \in S \ {x} : g[y] = f[y]
    PROVE  TokenSum(g, S) = TokenSum(f, S) + g[x] - f[x]
<1> DEFINE T == S \ {x}
<1>1. IsFiniteSet(T) /\ x \notin T /\ T \cup {x} = S
  BY FS_RemoveElement
<1>2. TokenSum(f, T) = TokenSum(g, T)
  BY SumSame
<1>3. (\A y \in T \cup {x} : f[y] \in Nat) /\ (\A y \in T \cup {x} : g[y] \in Nat)
  OBVIOUS
<1>4. TokenSum(f, T) \in Nat
  BY <1>1, TokenSumType
<1> HIDE DEF T
<1>5. f[x] \in Nat /\ TokenSum(f, T \cup {x}) = TokenSum(f, T) + f[x]
  BY <1>1, <1>3, SumAdd
<1>6. TokenSum(g, T \cup {x}) = TokenSum(g, T) + g[x]
  BY <1>1, <1>3, SumAdd
<1> QED
  BY <1>1, <1>2, <1>3, <1>4, <1>5, <1>6

LEMMA SumConst ==
    ASSUME NEW S, IsFiniteSet(S), NEW n \in Nat
    PROVE  TokenSum([x \in S |-> n], S) = Cardinality(S) * n
<1>1. Units([x \in S |-> n], S) = S \X (1 .. n)
  BY DEF Units
<1>2. IsFiniteSet(1 .. n) /\ Cardinality(1 .. n) = n
  BY FS_Interval
<1> QED
  BY <1>1, <1>2, FS_Product DEF TokenSum

\* Sums are monotone, additive and linear.
LEMMA SumPlus ==
    ASSUME NEW S, IsFiniteSet(S), NEW f, NEW g, NEW h,
           \A x \in S : f[x] \in Nat /\ g[x] \in Nat /\ h[x] = f[x] + g[x]
    PROVE  TokenSum(h, S) = TokenSum(f, S) + TokenSum(g, S)
<1> DEFINE Q == {T \in SUBSET S : TokenSum(h, T) = TokenSum(f, T) + TokenSum(g, T)}
<1>1. {} \in Q
  BY SumEmpty
<1>2. ASSUME NEW T \in SUBSET S, T \in Q, NEW x \in S \ T
      PROVE  T \cup {x} \in Q
  <2>1. IsFiniteSet(T)
    BY FS_Subset
  <2>2. \A y \in T \cup {x} : f[y] \in Nat /\ g[y] \in Nat /\ h[y] \in Nat
                               /\ h[y] = f[y] + g[y]
    OBVIOUS
  <2>3. TokenSum(f, T) \in Nat /\ TokenSum(g, T) \in Nat
    BY <2>1, TokenSumType
  <2>4. TokenSum(f, T \cup {x}) = TokenSum(f, T) + f[x]
    BY <2>1, <2>2, SumAdd
  <2>5. TokenSum(g, T \cup {x}) = TokenSum(g, T) + g[x]
    BY <2>1, <2>2, SumAdd
  <2>6. TokenSum(h, T \cup {x}) = TokenSum(h, T) + h[x]
    BY <2>1, <2>2, SumAdd
  <2>7. TokenSum(h, T) = TokenSum(f, T) + TokenSum(g, T)
    BY <1>2
  <2> QED
    BY <2>2, <2>3, <2>4, <2>5, <2>6, <2>7
<1> HIDE DEF Q
<1>3. S \in Q
  BY <1>1, <1>2, SubsetInduction
<1> QED
  BY <1>3 DEF Q

LEMMA SumScale ==
    ASSUME NEW S, IsFiniteSet(S), NEW k \in Nat, NEW f, NEW h,
           \A x \in S : f[x] \in Nat /\ h[x] = k * f[x]
    PROVE  TokenSum(h, S) = k * TokenSum(f, S)
<1> DEFINE Q == {T \in SUBSET S : TokenSum(h, T) = k * TokenSum(f, T)}
<1>1. {} \in Q
  BY SumEmpty
<1>2. ASSUME NEW T \in SUBSET S, T \in Q, NEW x \in S \ T
      PROVE  T \cup {x} \in Q
  <2>1. IsFiniteSet(T)
    BY FS_Subset
  <2>2. \A y \in T \cup {x} : f[y] \in Nat /\ h[y] \in Nat /\ h[y] = k * f[y]
    OBVIOUS
  <2>3. TokenSum(f, T) \in Nat
    BY <2>1, TokenSumType
  <2>4. TokenSum(f, T \cup {x}) = TokenSum(f, T) + f[x]
    BY <2>1, <2>2, SumAdd
  <2>5. TokenSum(h, T \cup {x}) = TokenSum(h, T) + h[x]
    BY <2>1, <2>2, SumAdd
  <2>6. TokenSum(h, T) = k * TokenSum(f, T)
    BY <1>2
  <2>7. k * (TokenSum(f, T) + f[x]) = k * TokenSum(f, T) + k * f[x]
    BY <2>2, <2>3
  <2> QED
    BY <2>2, <2>4, <2>5, <2>6, <2>7
<1> HIDE DEF Q
<1>3. S \in Q
  BY <1>1, <1>2, SubsetInduction
<1> QED
  BY <1>3 DEF Q

\* The sum of a bounded function, strictly below the bound if one term is.
LEMMA SumBelow ==
    ASSUME NEW S, IsFiniteSet(S), NEW f, NEW g,
           \A x \in S : f[x] \in Nat /\ g[x] \in Nat /\ f[x] <= g[x]
    PROVE  /\ TokenSum(f, S) <= TokenSum(g, S)
           /\ \A x \in S : f[x] < g[x] => TokenSum(f, S) < TokenSum(g, S)
<1> DEFINE d == [x \in S |-> g[x] - f[x]]
<1>1. \A x \in S : d[x] \in Nat /\ g[x] = f[x] + d[x] /\ (f[x] < g[x] => d[x] > 0)
  OBVIOUS
<1> HIDE DEF d
<1>2. TokenSum(g, S) = TokenSum(f, S) + TokenSum(d, S)
  BY <1>1, SumPlus
<1>3. TokenSum(f, S) \in Nat
  BY TokenSumType
<1>4. TokenSum(d, S) \in Nat /\ \A x \in S : d[x] > 0 => TokenSum(d, S) > 0
  BY <1>1, TokenSumType
<1> QED
  BY <1>1, <1>2, <1>3, <1>4

-----------------------------------------------------------------------------
(* Unions, marked members and ranks *)

LEMMA SumUnion ==
    ASSUME NEW S, IsFiniteSet(S), NEW T, IsFiniteSet(T), S \cap T = {},
           NEW f, \A x \in S \cup T : f[x] \in Nat
    PROVE  TokenSum(f, S \cup T) = TokenSum(f, S) + TokenSum(f, T)
<1>1. IsFiniteSet(Units(f, S)) /\ IsFiniteSet(Units(f, T))
  BY UnitsFinite
<1>2. Units(f, S \cup T) = Units(f, S) \cup Units(f, T)
  BY DEF Units
<1>3. Units(f, S) \cap Units(f, T) = {}
  BY DEF Units
<1>4. Cardinality(Units(f, S) \cap Units(f, T)) = 0
  BY <1>3, FS_EmptySet
<1>5. Cardinality(Units(f, S)) \in Nat /\ Cardinality(Units(f, T)) \in Nat
  BY <1>1, FS_CardinalityType
<1>6. Cardinality(Units(f, S) \cup Units(f, T))
        = Cardinality(Units(f, S)) + Cardinality(Units(f, T))
            - Cardinality(Units(f, S) \cap Units(f, T))
  BY <1>1, FS_Union
<1>7. Cardinality(Units(f, S) \cup Units(f, T))
        = Cardinality(Units(f, S)) + Cardinality(Units(f, T))
  BY <1>4, <1>5, <1>6
<1> QED
  BY <1>2, <1>7 DEF TokenSum

\* The members of W that k maps to a.
Group(W, k, a) == {i \in W : k[i] = a}

\* A sum over the members of W is that of its sums over the groups a in A.
LEMMA SumOfGroups ==
    ASSUME NEW A, IsFiniteSet(A), NEW W, IsFiniteSet(W),
           NEW k, \A i \in W : k[i] \in A,
           NEW f, \A i \in W : f[i] \in Nat,
           NEW h, \A a \in A : h[a] = TokenSum(f, Group(W, k, a))
    PROVE  TokenSum(h, A) = TokenSum(f, W)
<1> DEFINE of(B) == {i \in W : k[i] \in B}
           group(a) == Group(W, k, a)
           Q == {B \in SUBSET A : TokenSum(h, B) = TokenSum(f, of(B))}
<1>1. \A B : IsFiniteSet(of(B))
  BY FS_Subset
<1>2. \A a : IsFiniteSet(group(a)) /\ group(a) \subseteq W
  BY FS_Subset DEF Group
<1>3. \A a \in A : h[a] \in Nat
  BY <1>2, TokenSumType
<1>4. {} \in Q
  <2>1. of({}) = {}
    OBVIOUS
  <2> QED
    BY <2>1, SumEmpty
<1>5. ASSUME NEW B \in (SUBSET A) \cap Q, NEW a \in A \ B
      PROVE  B \cup {a} \in Q
  <2>1. IsFiniteSet(B) /\ \A b \in B \cup {a} : h[b] \in Nat
    BY <1>3, <1>5, FS_Subset
  <2>2. TokenSum(h, B \cup {a}) = TokenSum(h, B) + h[a]
    BY <2>1, SumAdd
  <2>3. of(B \cup {a}) = of(B) \cup group(a) /\ of(B) \cap group(a) = {}
    BY DEF Group
  <2>4. /\ IsFiniteSet(of(B)) /\ IsFiniteSet(group(a))
        /\ \A i \in of(B) \cup group(a) : f[i] \in Nat
    BY <1>1, <1>2
  <2>5. TokenSum(f, of(B)) + TokenSum(f, group(a))
          = TokenSum(f, of(B) \cup group(a))
    <3> HIDE DEF of, group
    <3> QED
      BY <2>3, <2>4, SumUnion
  <2>6. TokenSum(h, B) = TokenSum(f, of(B)) /\ h[a] = TokenSum(f, group(a))
    BY <1>5
  <2>7. TokenSum(h, B \cup {a}) = TokenSum(f, of(B \cup {a}))
    <3> HIDE DEF of, group
    <3> QED
      BY <2>2, <2>3, <2>5, <2>6
  <2> QED
    BY <2>7
<1>6. A \in Q
  <2> HIDE DEF Q
  <2> QED
    BY <1>4, <1>5, SubsetInduction
<1>7. of(A) = W
  OBVIOUS
<1> QED
  BY <1>6, <1>7

\* The sum that counts k for each member of A.
LEMMA SumMarked ==
    ASSUME NEW S, IsFiniteSet(S), NEW A \in SUBSET S, NEW k \in Nat, NEW f,
           \A x \in S : f[x] = IF x \in A THEN k ELSE 0
    PROVE  TokenSum(f, S) = Cardinality(A) * k
<1>1. IsFiniteSet(A)
  BY FS_Subset
<1>2. Units(f, S) = A \X (1 .. k)
  <2>1. \A x \in S \ A : {x} \X (1 .. f[x]) = {}
    OBVIOUS
  <2>2. \A x \in A : {x} \X (1 .. f[x]) = {x} \X (1 .. k)
    OBVIOUS
  <2> QED
    BY <2>1, <2>2 DEF Units
<1>3. IsFiniteSet(1 .. k) /\ Cardinality(1 .. k) = k
  BY FS_Interval
<1> QED
  BY <1>1, <1>2, <1>3, FS_Product DEF TokenSum

\* When n things have different ranks below n, exactly m of them rank below m.
LEMMA RanksBelow ==
    ASSUME NEW S, IsFiniteSet(S), NEW f,
           \A x \in S : f[x] \in 0 .. (Cardinality(S) - 1),
           \A x, y \in S : x # y => f[x] # f[y],
           NEW m \in 0 .. Cardinality(S)
    PROVE  Cardinality({x \in S : f[x] < m}) = m
<1> DEFINE n      == Cardinality(S)
           places == 0 .. (n - 1)
           g      == [x \in S |-> f[x]]
           first  == {x \in S : f[x] < m}
           h      == [x \in first |-> f[x]]
<1>1. n \in Nat /\ IsFiniteSet(places) /\ Cardinality(places) = n
  <2>1. n \in Nat
    BY FS_CardinalityType
  <2> HIDE DEF n
  <2>2. 0 \in Int /\ n - 1 \in Int
    BY <2>1
  <2>3. /\ IsFiniteSet(0 .. (n - 1))
        /\ Cardinality(0 .. (n - 1)) = IF 0 > n - 1 THEN 0 ELSE n - 1 - 0 + 1
    BY <2>2, FS_Interval
  <2> QED
    BY <2>1, <2>3
<1>2. g \in Injection(S, places)
  BY DEF Injection, IsInjective
<1>3. g \in Surjection(S, places)
  BY <1>1, <1>2, FS_Injection
<1>4. \A k \in places : \E x \in S : f[x] = k
  BY <1>3 DEF Surjection
<1>5. m \in Nat /\ m <= n
  BY <1>1
<1>6. h \in Bijection(first, 0 .. (m - 1))
  <2>1. h \in [first -> 0 .. (m - 1)]
    BY <1>1, <1>5
  <2>2. \A x, y \in first : h[x] = h[y] => x = y
    OBVIOUS
  <2>3. ASSUME NEW k \in 0 .. (m - 1) PROVE \E x \in first : h[x] = k
    <3>1. k \in places /\ k < m
      BY <1>1, <1>5
    <3> QED
      BY <1>4, <3>1
  <2> QED
    BY <2>1, <2>2, <2>3 DEF Bijection, Injection, IsInjective, Surjection
<1>7. IsFiniteSet(first)
  BY FS_Subset
<1>8. Cardinality(0 .. (m - 1)) = Cardinality(first)
  BY <1>6, <1>7, FS_Bijection DEF ExistsBijection
<1>9. Cardinality(0 .. (m - 1)) = m
  BY <1>5, FS_Interval
<1> QED
  BY <1>8, <1>9

\* R orders the members of S and leaves no tie.
StrictOrder(R, S) ==
    /\ \A x \in S : <<x, x>> \notin R
    /\ \A x, y \in S : x # y => <<x, y>> \in R \/ <<y, x>> \in R
    /\ \A x, y, z \in S : <<x, y>> \in R /\ <<y, z>> \in R => <<x, z>> \in R

\* How many members of S come before x.
RankIn(R, S, x) == Cardinality({y \in S : <<y, x>> \in R})

LEMMA OrderRanks ==
    ASSUME NEW S, IsFiniteSet(S), NEW R, StrictOrder(R, S)
    PROVE  /\ \A x \in S : /\ RankIn(R, S, x) \in 0 .. (Cardinality(S) - 1)
                           /\ RankIn(R, S, x) \in Nat
           /\ \A x, y \in S :
                 /\ <<x, y>> \in R <=> RankIn(R, S, x) < RankIn(R, S, y)
                 /\ x # y => RankIn(R, S, x) # RankIn(R, S, y)
<1> DEFINE first(x) == {y \in S : <<y, x>> \in R}
           rank(x)  == Cardinality(first(x))
           n        == Cardinality(S)
<1>1. n \in Nat
  BY FS_CardinalityType
<1>2. ASSUME NEW x \in S
      PROVE  IsFiniteSet(first(x)) /\ rank(x) \in Nat /\ rank(x) < n
  <2>1. first(x) \in SUBSET S /\ x \notin first(x)
    BY DEF StrictOrder
  <2>2. IsFiniteSet(first(x)) /\ rank(x) <= n /\ rank(x) # n
    BY <2>1, FS_Subset
  <2>3. rank(x) \in Nat
    BY <2>2, FS_CardinalityType
  <2> HIDE DEF rank, n
  <2> QED
    BY <1>1, <2>2, <2>3
<1>3. ASSUME NEW x \in S, NEW y \in S, <<x, y>> \in R
      PROVE  rank(x) < rank(y)
  <2>1. first(x) \in SUBSET first(y) /\ first(x) # first(y)
    <3>1. x \in first(y) /\ x \notin first(x)
      BY <1>3 DEF StrictOrder
    <3>2. \A z \in first(x) : z \in first(y)
      BY <1>3 DEF StrictOrder
    <3> QED
      BY <3>1, <3>2
  <2>2. rank(x) <= rank(y) /\ rank(x) # rank(y)
    BY <1>2, <2>1, FS_Subset
  <2>3. rank(x) \in Nat /\ rank(y) \in Nat
    BY <1>2
  <2> HIDE DEF rank
  <2> QED
    BY <2>2, <2>3
<1>4. \A x \in S : rank(x) = RankIn(R, S, x)
  BY DEF RankIn
<1> HIDE DEF first, rank, n
<1>5. ASSUME NEW x \in S, NEW y \in S, x # y
      PROVE  rank(x) # rank(y) /\ (rank(x) < rank(y) => <<x, y>> \in R)
  <2>1. <<x, y>> \in R \/ <<y, x>> \in R
    BY <1>5 DEF StrictOrder
  <2> QED
    BY <1>2, <1>3, <2>1
<1>6. \A x \in S : ~(rank(x) < rank(x))
  BY <1>2
<1>7. \A x \in S : rank(x) \in 0 .. (n - 1)
  BY <1>1, <1>2
<1> QED
  BY <1>2, <1>3, <1>4, <1>5, <1>6, <1>7 DEF n

\* The first m members of S: m of them, or all when S has no more than m.
LEMMA FirstMembers ==
    ASSUME NEW S, IsFiniteSet(S), NEW R, StrictOrder(R, S), NEW m \in Nat
    PROVE  LET first == {x \in S : RankIn(R, S, x) < m}
           IN  Cardinality(first)
                 = IF m <= Cardinality(S) THEN m ELSE Cardinality(S)
<1> DEFINE rank == [x \in S |-> RankIn(R, S, x)]
           n == Cardinality(S)
           first == {x \in S : RankIn(R, S, x) < m}
<1>1. n \in Nat
  BY FS_CardinalityType
<1>2. /\ \A x \in S : rank[x] \in 0 .. (n - 1)
      /\ \A x, y \in S : x # y => rank[x] # rank[y]
  BY OrderRanks
<1>3. first = {x \in S : rank[x] < m}
  OBVIOUS
<1>4. CASE m <= n
  <2>1. m \in 0 .. n
    BY <1>1, <1>4
  <2> HIDE DEF rank
  <2>2. Cardinality({x \in S : rank[x] < m}) = m
    BY <1>2, <2>1, RanksBelow
  <2> QED
    BY <1>3, <1>4, <2>2
<1>5. CASE ~(m <= n)
  <2> HIDE DEF rank, n, first
  <2>1. \A x \in S : rank[x] < m
    BY <1>1, <1>2, <1>5
  <2>2. first = S
    BY <1>3, <2>1
  <2> QED
    BY <1>5, <2>2 DEF n, first
<1> QED
  BY <1>4, <1>5

\* Some member comes before all others.
LEMMA LeastMember ==
    ASSUME NEW S, IsFiniteSet(S), S # {}, NEW R, StrictOrder(R, S)
    PROVE  \E x \in S : \A y \in S \ {x} : <<x, y>> \in R
<1> DEFINE first == {x \in S : RankIn(R, S, x) < 1}
<1>1. Cardinality(S) \in Nat /\ Cardinality(S) # 0
  BY FS_CardinalityType, FS_EmptySet
<1>2. 1 <= Cardinality(S)
  BY <1>1
<1>3. Cardinality(first) = 1
  BY <1>2, FirstMembers
<1>4. first # {}
  BY <1>3, FS_EmptySet
<1>5. PICK x \in S : RankIn(R, S, x) < 1
  BY <1>4
<1>6. \A y \in S : <<y, x>> \notin R
  BY <1>5, OrderRanks
<1> QED
  BY <1>6 DEF StrictOrder

-----------------------------------------------------------------------------
(* The payout rule *)

\* What a winner who staked something is paid is a natural number of tokens.
LEMMA PayoutType ==
    ASSUME NEW bets, NEW o, IsFiniteSet(DOMAIN bets),
           \A j \in DOMAIN bets : bets[j].tokenAmount \in Nat,
           NEW i \in Winners(bets, o), bets[i].tokenAmount > 0
    PROVE  calculateBettingPayouts(bets, o)[i] \in Nat
<1> DEFINE winners == Winners(bets, o)
           losers  == Losers(bets, o)
<1>1. /\ IsFiniteSet(winners) /\ winners \subseteq DOMAIN bets
      /\ IsFiniteSet(losers) /\ losers \subseteq DOMAIN bets
  BY FS_Subset DEF Winners, Losers
<1>2. WinningPool(bets, o) \in Nat \ {0}
  <2> DEFINE f == [j \in winners |-> bets[j].tokenAmount]
  <2>1. \A j \in winners : f[j] \in Nat
    BY <1>1
  <2>2. f[i] > 0
    OBVIOUS
  <2> HIDE DEF f
  <2>3. TokenSum(f, winners) \in Nat /\ TokenSum(f, winners) > 0
    BY <1>1, <2>1, <2>2, TokenSumType
  <2> QED
    BY <2>3 DEF WinningPool, sumTokenAmounts, f
<1>3. LosingPool(bets, o) \in Nat
  <2> DEFINE f == [j \in losers |-> bets[j].tokenAmount]
  <2>1. \A j \in losers : f[j] \in Nat
    BY <1>1
  <2> HIDE DEF f
  <2>2. TokenSum(f, losers) \in Nat
    BY <1>1, <2>1, TokenSumType
  <2> QED
    BY <2>2 DEF LosingPool, sumTokenAmounts, f
<1>4. bets[i].tokenAmount \in Nat
  BY <1>1
<1>5. Numerator(bets, o, i) \in Nat
  BY <1>3, <1>4 DEF Numerator
<1>6. Profit(bets, o, i) \in Nat
  BY <1>2, <1>5 DEF Profit
<1> QED
  BY <1>4, <1>6 DEF calculateBettingPayouts

\* Two rounds of bets that differ at most in what the rule does not look at.
SameBets(b, c) ==
    /\ DOMAIN b = DOMAIN c
    /\ \A i \in DOMAIN b :
          /\ b[i].selectedOption = c[i].selectedOption
          /\ b[i].tokenAmount = c[i].tokenAmount
          /\ b[i].createdAt = c[i].createdAt

\* They have the same winners and losers, and equal sums of stakes.
LEMMA SameSums ==
    ASSUME NEW b, NEW c, SameBets(b, c), NEW o
    PROVE  /\ Winners(b, o) = Winners(c, o) /\ Losers(b, o) = Losers(c, o)
           /\ Winners(b, o) \subseteq DOMAIN b /\ Losers(b, o) \subseteq DOMAIN b
           /\ \A S \in SUBSET DOMAIN b : sumTokenAmounts(b, S) = sumTokenAmounts(c, S)
<1>1. ASSUME NEW S \in SUBSET DOMAIN b
      PROVE  sumTokenAmounts(b, S) = sumTokenAmounts(c, S)
  <2>1. [i \in S |-> b[i].tokenAmount] = [i \in S |-> c[i].tokenAmount]
    BY <1>1 DEF SameBets
  <2> QED
    BY <2>1 DEF sumTokenAmounts
<1> QED
  BY <1>1 DEF SameBets, Winners, Losers

\* The rule pays the same for them.
LEMMA SamePayouts ==
    ASSUME NEW b, NEW c, SameBets(b, c), NEW o
    PROVE  calculateBettingPayouts(b, o) = calculateBettingPayouts(c, o)
<1>1. /\ Winners(b, o) = Winners(c, o) /\ Losers(b, o) = Losers(c, o)
      /\ Winners(b, o) \subseteq DOMAIN b /\ Losers(b, o) \subseteq DOMAIN b
  BY SameSums
<1>2. \A S \in SUBSET DOMAIN b : sumTokenAmounts(b, S) = sumTokenAmounts(c, S)
  BY SameSums
<1>3. /\ WinningPool(b, o) = WinningPool(c, o)
      /\ LosingPool(b, o) = LosingPool(c, o)
  BY <1>1, <1>2 DEF WinningPool, LosingPool
<1>4. \A i \in DOMAIN b : /\ Profit(b, o, i) = Profit(c, o, i)
                          /\ Remainder(b, o, i) = Remainder(c, o, i)
  BY <1>3 DEF SameBets, Profit, Remainder, Numerator
<1>5. \A i \in DOMAIN b : Rank(b, o, i) = Rank(c, o, i)
  <2> TAKE i \in DOMAIN b
  <2>1. \A j \in Winners(b, o) :
          comparePayoutDrafts(b, o, j, i) <=> comparePayoutDrafts(c, o, j, i)
    BY <1>1, <1>4 DEF SameBets, comparePayoutDrafts
  <2>2. {j \in Winners(b, o) : comparePayoutDrafts(b, o, j, i)}
          = {j \in Winners(c, o) : comparePayoutDrafts(c, o, j, i)}
    BY <1>1, <2>1
  <2> QED
    BY <2>2 DEF Rank
<1>6. Remaining(b, o) = Remaining(c, o)
  <2>1. [i \in Winners(b, o) |-> Profit(b, o, i)]
          = [i \in Winners(c, o) |-> Profit(c, o, i)]
    BY <1>1, <1>4
  <2> QED
    BY <1>1, <1>3, <2>1 DEF Remaining
<1>7. \A i \in Winners(b, o) :
        b[i].tokenAmount + Profit(b, o, i)
          + (IF Rank(b, o, i) < Remaining(b, o) THEN 1 ELSE 0)
        = c[i].tokenAmount + Profit(c, o, i)
          + (IF Rank(c, o, i) < Remaining(c, o) THEN 1 ELSE 0)
  BY <1>1, <1>4, <1>5, <1>6 DEF SameBets
<1> QED
  BY <1>1, <1>7 DEF calculateBettingPayouts

-----------------------------------------------------------------------------
(* calculateBettingPayouts *)

\* The participations of a betting event: finitely many, each with a stake.
Round(bets) ==
    /\ IsFiniteSet(DOMAIN bets) /\ DOMAIN bets \subseteq Nat
    /\ \A i \in DOMAIN bets : /\ bets[i].tokenAmount \in Nat \ {0}
                              /\ bets[i].createdAt \in Nat

LEMMA Division ==
    ASSUME NEW a \in Nat, NEW b \in Nat \ {0}
    PROVE  /\ a \div b \in Nat /\ a % b \in Nat /\ a % b < b
           /\ a = b * (a \div b) + (a % b)
OBVIOUS

LEMMA StakesType ==
    ASSUME NEW bets, Round(bets), NEW S \in SUBSET DOMAIN bets
    PROVE  /\ IsFiniteSet(S) /\ sumTokenAmounts(bets, S) \in Nat
           /\ S # {} => sumTokenAmounts(bets, S) > 0
<1> DEFINE f == [i \in S |-> bets[i].tokenAmount]
<1>1. IsFiniteSet(S)
  BY FS_Subset DEF Round
<1>2. \A i \in S : f[i] \in Nat /\ f[i] > 0
  BY DEF Round
<1> HIDE DEF f
<1>3. /\ TokenSum(f, S) \in Nat
      /\ \A i \in S : f[i] > 0 => TokenSum(f, S) > 0
  BY <1>1, <1>2, TokenSumType
<1> QED
  BY <1>1, <1>2, <1>3 DEF sumTokenAmounts, f

\* The shares of the winners, by division with remainder.
LEMMA Shares ==
    ASSUME NEW bets, Round(bets), NEW o, Winners(bets, o) # {}
    PROVE  /\ Winners(bets, o) \subseteq DOMAIN bets /\ IsFiniteSet(Winners(bets, o))
           /\ WinningPool(bets, o) \in Nat \ {0} /\ LosingPool(bets, o) \in Nat
           /\ \A i \in Winners(bets, o) :
                 /\ bets[i].tokenAmount \in Nat /\ Numerator(bets, o, i) \in Nat
                 /\ Profit(bets, o, i) \in Nat /\ Remainder(bets, o, i) \in Nat
                 /\ Remainder(bets, o, i) < WinningPool(bets, o)
                 /\ Numerator(bets, o, i)
                      = WinningPool(bets, o) * Profit(bets, o, i)
                          + Remainder(bets, o, i)
<1>1. /\ Winners(bets, o) \in SUBSET DOMAIN bets
      /\ Losers(bets, o) \in SUBSET DOMAIN bets
  BY DEF Winners, Losers
<1>2. /\ WinningPool(bets, o) \in Nat \ {0} /\ LosingPool(bets, o) \in Nat
      /\ IsFiniteSet(Winners(bets, o))
  BY <1>1, StakesType DEF WinningPool, LosingPool
<1>3. ASSUME NEW i \in Winners(bets, o)
      PROVE  bets[i].tokenAmount \in Nat /\ Numerator(bets, o, i) \in Nat
  <2>1. bets[i].tokenAmount \in Nat
    BY <1>1 DEF Round
  <2> QED
    BY <1>2, <2>1 DEF Numerator
<1> QED
  BY <1>1, <1>2, <1>3, Division DEF Profit, Remainder

\* What the rounding leaves over is the sum of the remainders, so there are
\* fewer tokens left over than winners.
LEMMA Leftover ==
    ASSUME NEW bets, Round(bets), NEW o, Winners(bets, o) # {}
    PROVE  LET winners == Winners(bets, o)
               profits == [i \in winners |-> Profit(bets, o, i)]
               remainders == [i \in winners |-> Remainder(bets, o, i)]
           IN  /\ Remaining(bets, o) \in 0 .. (Cardinality(winners) - 1)
               /\ Remaining(bets, o) \in Nat
               /\ TokenSum(profits, winners) \in Nat
               /\ LosingPool(bets, o)
                    = TokenSum(profits, winners) + Remaining(bets, o)
               /\ WinningPool(bets, o) * Remaining(bets, o)
                    = TokenSum(remainders, winners)
<1> DEFINE W == Winners(bets, o)
           w == WinningPool(bets, o)
           l == LosingPool(bets, o)
           stakes     == [i \in W |-> bets[i].tokenAmount]
           numerators == [i \in W |-> Numerator(bets, o, i)]
           profits    == [i \in W |-> Profit(bets, o, i)]
           parts      == [i \in W |-> w * Profit(bets, o, i)]
           remainders == [i \in W |-> Remainder(bets, o, i)]
           pools      == [i \in W |-> w]
<1>1. /\ IsFiniteSet(W) /\ W # {} /\ w \in Nat \ {0} /\ l \in Nat
      /\ \A i \in W :
            /\ stakes[i] \in Nat /\ numerators[i] \in Nat /\ profits[i] \in Nat
            /\ remainders[i] \in Nat /\ pools[i] \in Nat
            /\ remainders[i] < pools[i] /\ parts[i] \in Nat
            /\ numerators[i] = l * stakes[i]
            /\ numerators[i] = parts[i] + remainders[i]
            /\ parts[i] = w * profits[i]
  <2>1. \A i \in W : w * Profit(bets, o, i) \in Nat
    BY Shares
  <2> QED
    BY <2>1, Shares DEF Numerator
<1>2. TokenSum(stakes, W) = w
  BY DEF WinningPool, sumTokenAmounts
<1>3. Remaining(bets, o) = l - TokenSum(profits, W)
  BY DEF Remaining
<1>4. TokenSum(pools, W) = Cardinality(W) * w
  BY <1>1, SumConst
<1>5. Cardinality(W) \in Nat
  BY <1>1, FS_CardinalityType
<1> HIDE DEF W, w, l, stakes, numerators, profits, parts, remainders, pools
<1>6. TokenSum(numerators, W) = l * TokenSum(stakes, W)
  BY <1>1, SumScale
<1>7. TokenSum(parts, W) = w * TokenSum(profits, W)
  BY <1>1, SumScale
<1>8. TokenSum(numerators, W) = TokenSum(parts, W) + TokenSum(remainders, W)
  BY <1>1, SumPlus
<1>9. TokenSum(profits, W) \in Nat /\ TokenSum(remainders, W) \in Nat
  BY <1>1, TokenSumType
<1>10. TokenSum(remainders, W) < TokenSum(pools, W)
  <2>1. PICK i \in W : remainders[i] < pools[i]
    BY <1>1
  <2> QED
    BY <1>1, <2>1, SumBelow
<1>11. w * (l - TokenSum(profits, W)) = TokenSum(remainders, W)
  <2>1. l * w = w * TokenSum(profits, W) + TokenSum(remainders, W)
    BY <1>2, <1>6, <1>7, <1>8
  <2> QED
    BY <1>1, <1>9, <2>1
<1>12. l - TokenSum(profits, W) \in 0 .. (Cardinality(W) - 1)
  <2> DEFINE k == l - TokenSum(profits, W)
             n == Cardinality(W)
  <2>1. k \in Int /\ n \in Nat
    BY <1>1, <1>5, <1>9
  <2>2. w * k >= 0 /\ w * k < n * w
    BY <1>4, <1>9, <1>10, <1>11
  <2> HIDE DEF k, n
  <2>3. k >= 0
    BY <1>1, <2>1, <2>2
  <2>4. k < n
    BY <1>1, <2>1, <2>2
  <2> QED
    BY <2>1, <2>3, <2>4 DEF k, n
<1>13. l - TokenSum(profits, W) \in Nat
  BY <1>5, <1>12
<1> QED
  BY <1>1, <1>3, <1>9, <1>11, <1>12, <1>13 DEF W, w, l, profits, remainders

-----------------------------------------------------------------------------
(* The order of the drafts *)

\* comparePayoutDrafts orders the winners strictly and leaves no tie, so no two
\* have the same rank.
LEMMA Ranks ==
    ASSUME NEW bets, Round(bets), NEW o, Winners(bets, o) # {}
    PROVE  /\ \A i \in Winners(bets, o) :
                 /\ Rank(bets, o, i) \in 0 .. (Cardinality(Winners(bets, o)) - 1)
                 /\ Rank(bets, o, i) \in Nat
           /\ \A i, j \in Winners(bets, o) :
                 /\ comparePayoutDrafts(bets, o, i, j)
                      => Rank(bets, o, i) < Rank(bets, o, j)
                 /\ i # j => Rank(bets, o, i) # Rank(bets, o, j)
<1> DEFINE W == Winners(bets, o)
           R == {p \in W \X W : comparePayoutDrafts(bets, o, p[1], p[2])}
<1>1. /\ IsFiniteSet(W)
      /\ \A i \in W : /\ i \in Nat /\ bets[i].createdAt \in Nat
                      /\ Remainder(bets, o, i) \in Nat
  BY Shares DEF Round
<1>2. \A i, j \in W : <<i, j>> \in R <=> comparePayoutDrafts(bets, o, i, j)
  OBVIOUS
<1>3. StrictOrder(R, W)
  <2>1. /\ \A i \in W : ~comparePayoutDrafts(bets, o, i, i)
        /\ \A i, j \in W : i # j => \/ comparePayoutDrafts(bets, o, i, j)
                                     \/ comparePayoutDrafts(bets, o, j, i)
        /\ \A i, j, k \in W :
              (/\ comparePayoutDrafts(bets, o, i, j)
               /\ comparePayoutDrafts(bets, o, j, k))
                 => comparePayoutDrafts(bets, o, i, k)
    BY <1>1 DEF comparePayoutDrafts
  <2> HIDE DEF R, W
  <2> QED
    BY <1>2, <2>1 DEF StrictOrder
<1>4. \A i \in W : Rank(bets, o, i) = RankIn(R, W, i)
  <2> TAKE i \in W
  <2>1. {j \in W : comparePayoutDrafts(bets, o, j, i)} = {j \in W : <<j, i>> \in R}
    BY <1>2
  <2> QED
    BY <2>1 DEF Rank, RankIn
<1> HIDE DEF R
<1> QED
  BY <1>1, <1>2, <1>3, <1>4, OrderRanks

\* A winner ranked within the leftover tokens lost something to the rounding.
LEMMA RoundedUpHasRemainder ==
    ASSUME NEW bets, Round(bets), NEW o, NEW i \in Winners(bets, o),
           Rank(bets, o, i) < Remaining(bets, o)
    PROVE  Remainder(bets, o, i) > 0
<1> SUFFICES ASSUME Remainder(bets, o, i) = 0 PROVE FALSE
  BY Shares
<1> DEFINE W == Winners(bets, o)
           w == WinningPool(bets, o)
           n == Rank(bets, o, i)
           first == {j \in W : comparePayoutDrafts(bets, o, j, i)}
           remainders == [j \in W |-> Remainder(bets, o, j)]
           bound      == [j \in W |-> IF j \in first THEN w ELSE 0]
<1>1. /\ IsFiniteSet(W) /\ w \in Nat \ {0} /\ first \in SUBSET W
      /\ \A j \in W : Remainder(bets, o, j) \in Nat /\ Remainder(bets, o, j) < w
  BY Shares
<1>2. /\ n \in Nat /\ Remaining(bets, o) \in Nat /\ n < Remaining(bets, o)
      /\ w * Remaining(bets, o) = TokenSum(remainders, W)
  <2>1. Rank(bets, o, i) \in 0 .. (Cardinality(W) - 1)
    BY Ranks
  <2>2. /\ Remaining(bets, o) \in 0 .. (Cardinality(W) - 1)
        /\ w * Remaining(bets, o) = TokenSum(remainders, W)
    BY Leftover
  <2> QED
    BY <2>1, <2>2
<1>3. n = Cardinality(first)
  BY DEF Rank
<1>4. \A j \in W : remainders[j] \in Nat /\ bound[j] \in Nat /\ remainders[j] <= bound[j]
  <2>1. \A j \in W \ first : Remainder(bets, o, j) = 0
    BY <1>1 DEF comparePayoutDrafts
  <2> QED
    BY <1>1, <2>1
<1>5. TokenSum(bound, W) = Cardinality(first) * w
  BY <1>1, SumMarked
<1> HIDE DEF W, w, n, first, remainders, bound
<1>6. TokenSum(remainders, W) <= TokenSum(bound, W)
  BY <1>1, <1>4, SumBelow
<1>7. w * Remaining(bets, o) <= n * w
  BY <1>2, <1>3, <1>5, <1>6
<1> QED
  BY <1>1, <1>2, <1>7

\* As many winners are rounded up as there are tokens left over.
LEMMA RoundedUpCount ==
    ASSUME NEW bets, Round(bets), NEW o, Winners(bets, o) # {}
    PROVE  Cardinality({i \in Winners(bets, o) :
                           Rank(bets, o, i) < Remaining(bets, o)})
             = Remaining(bets, o)
<1> DEFINE W == Winners(bets, o)
           rank == [i \in W |-> Rank(bets, o, i)]
           m == Remaining(bets, o)
<1>1. IsFiniteSet(W) /\ Cardinality(W) \in Nat
  BY Shares, FS_CardinalityType
<1>2. /\ \A i \in W : rank[i] \in 0 .. (Cardinality(W) - 1)
      /\ \A i, j \in W : i # j => rank[i] # rank[j]
  BY Ranks
<1>3. m \in 0 .. Cardinality(W)
  <2>1. Remaining(bets, o) \in 0 .. (Cardinality(Winners(bets, o)) - 1)
    BY Leftover
  <2> DEFINE n == Cardinality(W)
  <2>2. n \in Nat /\ m \in 0 .. (n - 1)
    BY <1>1, <2>1
  <2> HIDE DEF m, n
  <2>3. m \in 0 .. n
    BY <2>2
  <2> QED
    BY <2>3 DEF n
<1>4. {i \in W : rank[i] < m} = {i \in W : Rank(bets, o, i) < m}
  OBVIOUS
<1> HIDE DEF W, rank, m
<1>5. Cardinality({i \in W : rank[i] < m}) = m
  BY <1>1, <1>2, <1>3, RanksBelow
<1> QED
  BY <1>4, <1>5 DEF W, m

-----------------------------------------------------------------------------
(* What the rule promises, for every round of bets *)

LEMMA PoolsAddUp ==
    ASSUME NEW bets, Round(bets), NEW o
    PROVE  sumTokenAmounts(bets, DOMAIN bets)
             = WinningPool(bets, o) + LosingPool(bets, o)
<1> DEFINE W == Winners(bets, o)
           L == Losers(bets, o)
           D == DOMAIN bets
           stakes == [i \in D |-> bets[i].tokenAmount]
<1>1. W \in SUBSET D /\ L \in SUBSET D /\ W \cap L = {} /\ W \cup L = D
  BY DEF Winners, Losers
<1>2. IsFiniteSet(W) /\ IsFiniteSet(L) /\ \A i \in D : stakes[i] \in Nat
  BY <1>1, StakesType DEF Round
<1>3. /\ \A i \in W : [j \in W |-> bets[j].tokenAmount][i] = stakes[i]
      /\ \A i \in L : [j \in L |-> bets[j].tokenAmount][i] = stakes[i]
  BY <1>1
<1>4. /\ WinningPool(bets, o) = TokenSum([j \in W |-> bets[j].tokenAmount], W)
      /\ LosingPool(bets, o) = TokenSum([j \in L |-> bets[j].tokenAmount], L)
      /\ sumTokenAmounts(bets, D) = TokenSum(stakes, D)
  BY DEF WinningPool, LosingPool, sumTokenAmounts
<1> HIDE DEF W, L, D, stakes
<1>5. /\ TokenSum([j \in W |-> bets[j].tokenAmount], W) = TokenSum(stakes, W)
      /\ TokenSum([j \in L |-> bets[j].tokenAmount], L) = TokenSum(stakes, L)
  BY <1>3, SumSame
<1>6. TokenSum(stakes, W \cup L) = TokenSum(stakes, W) + TokenSum(stakes, L)
  BY <1>1, <1>2, SumUnion
<1> QED
  BY <1>1, <1>4, <1>5, <1>6 DEF D

LEMMA PayoutsAddUp ==
    ASSUME NEW bets, Round(bets), NEW o, Winners(bets, o) # {}
    PROVE  TokenSum(calculateBettingPayouts(bets, o), Winners(bets, o))
             = sumTokenAmounts(bets, DOMAIN bets)
<1> DEFINE W == Winners(bets, o)
           m == Remaining(bets, o)
           up      == {i \in W : Rank(bets, o, i) < m}
           payouts == calculateBettingPayouts(bets, o)
           stakes  == [i \in W |-> bets[i].tokenAmount]
           profits == [i \in W |-> Profit(bets, o, i)]
           extra   == [i \in W |-> IF i \in up THEN 1 ELSE 0]
           won     == [i \in W |-> profits[i] + extra[i]]
<1>1. /\ IsFiniteSet(W) /\ up \in SUBSET W
      /\ \A i \in W :
            /\ stakes[i] \in Nat /\ profits[i] \in Nat /\ extra[i] \in Nat
            /\ won[i] \in Nat /\ won[i] = profits[i] + extra[i]
            /\ payouts[i] = stakes[i] + won[i]
  <2>1. IsFiniteSet(W) /\ \A i \in W : stakes[i] \in Nat /\ profits[i] \in Nat
    BY Shares
  <2>2. \A i \in W : payouts[i] = stakes[i] + profits[i] + extra[i]
    BY DEF calculateBettingPayouts
  <2>3. up \in SUBSET W /\ \A i \in W : extra[i] \in Nat
    OBVIOUS
  <2>4. \A i \in W : won[i] = profits[i] + extra[i]
    OBVIOUS
  <2> HIDE DEF W, up, payouts, stakes, profits, extra, won
  <2> QED
    BY <2>1, <2>2, <2>3, <2>4
<1>2. Cardinality(up) = m
  BY RoundedUpCount
<1>3. \A i \in W : extra[i] = IF i \in up THEN 1 ELSE 0
  OBVIOUS
<1>4. TokenSum(stakes, W) = WinningPool(bets, o)
  BY DEF WinningPool, sumTokenAmounts
<1>5. /\ LosingPool(bets, o) = TokenSum(profits, W) + m
      /\ m \in Nat /\ TokenSum(profits, W) \in Nat
  BY Leftover
<1>6. WinningPool(bets, o) \in Nat
  BY Shares
<1> HIDE DEF W, m, up, payouts, stakes, profits, extra, won
<1>7. TokenSum(extra, W) = m * 1
  BY <1>1, <1>2, <1>3, SumMarked
<1>8. TokenSum(won, W) = TokenSum(profits, W) + TokenSum(extra, W)
  BY <1>1, SumPlus
<1>9. TokenSum(payouts, W) = TokenSum(stakes, W) + TokenSum(won, W)
  BY <1>1, SumPlus
<1>10. TokenSum(payouts, W) = WinningPool(bets, o) + LosingPool(bets, o)
  BY <1>4, <1>5, <1>6, <1>7, <1>8, <1>9
<1> QED
  BY <1>10, PoolsAddUp DEF W, payouts

LEMMA PayoutWithinQuota ==
    ASSUME NEW bets, Round(bets), NEW o, NEW i \in Winners(bets, o)
    PROVE  LET profit == calculateBettingPayouts(bets, o)[i] - bets[i].tokenAmount
               pool   == WinningPool(bets, o)
           IN  /\ profit * pool <= Numerator(bets, o, i) + pool - 1
               /\ profit * pool >= Numerator(bets, o, i) - pool + 1
<1> DEFINE t == bets[i].tokenAmount
           w == WinningPool(bets, o)
           n == Numerator(bets, o, i)
           p == Profit(bets, o, i)
           q == Remainder(bets, o, i)
           up == Rank(bets, o, i) < Remaining(bets, o)
           profit == calculateBettingPayouts(bets, o)[i] - t
<1>1. /\ t \in Nat /\ w \in Nat \ {0} /\ n \in Nat /\ p \in Nat /\ q \in Nat
      /\ q < w /\ n = w * p + q
  BY Shares
<1>2. profit = (t + p + (IF up THEN 1 ELSE 0)) - t
  BY DEF calculateBettingPayouts
<1>3. up => q > 0
  BY RoundedUpHasRemainder
<1> HIDE DEF t, w, n, p, q, up, profit
<1>4. CASE up
  <2>1. profit = p + 1 /\ q > 0
    BY <1>1, <1>2, <1>3, <1>4
  <2>2. profit * w = w * p + w
    BY <1>1, <2>1
  <2>3. profit * w <= n + w - 1 /\ profit * w >= n - w + 1
    BY <1>1, <2>1, <2>2
  <2> QED
    BY <2>3 DEF t, w, n, profit
<1>5. CASE ~up
  <2>1. profit = p
    BY <1>1, <1>2, <1>5
  <2>2. profit * w = w * p
    BY <1>1, <2>1
  <2>3. profit * w <= n + w - 1 /\ profit * w >= n - w + 1
    BY <1>1, <2>2
  <2> QED
    BY <2>3 DEF t, w, n, profit
<1> QED
  BY <1>4, <1>5

LEMMA NoLessForMoreAndEarlier ==
    ASSUME NEW bets, Round(bets), NEW o,
           NEW i \in Winners(bets, o), NEW j \in Winners(bets, o),
           bets[i].tokenAmount >= bets[j].tokenAmount,
           bets[i].createdAt < bets[j].createdAt
    PROVE  calculateBettingPayouts(bets, o)[i] >= calculateBettingPayouts(bets, o)[j]
<1> DEFINE l == LosingPool(bets, o)
           w == WinningPool(bets, o)
           t(k) == bets[k].tokenAmount
           p(k) == Profit(bets, o, k)
           q(k) == Remainder(bets, o, k)
           up(k) == IF Rank(bets, o, k) < Remaining(bets, o) THEN 1 ELSE 0
           payout(k) == calculateBettingPayouts(bets, o)[k]
<1>1. /\ l \in Nat /\ w \in Nat \ {0}
      /\ \A k \in {i, j} : /\ t(k) \in Nat /\ p(k) \in Nat /\ q(k) \in Nat
                           /\ q(k) < w /\ l * t(k) = w * p(k) + q(k)
                           /\ up(k) \in {0, 1}
                           /\ payout(k) = t(k) + p(k) + up(k)
  BY Shares DEF Numerator, calculateBettingPayouts
<1>2. (q(i) >= q(j)) => up(i) >= up(j)
  <2> SUFFICES ASSUME q(i) >= q(j) PROVE up(i) >= up(j)
    OBVIOUS
  <2>1. comparePayoutDrafts(bets, o, i, j)
    BY <1>1 DEF comparePayoutDrafts
  <2>2. Rank(bets, o, i) < Rank(bets, o, j)
    BY <2>1, Ranks
  <2>3. Rank(bets, o, i) \in Nat /\ Rank(bets, o, j) \in Nat
    BY Ranks
  <2>4. Remaining(bets, o) \in Nat
    BY Leftover
  <2> QED
    BY <2>2, <2>3, <2>4
<1>3. t(i) >= t(j)
  OBVIOUS
<1> HIDE DEF l, w, t, p, q, up, payout
<1>4. l * t(i) >= l * t(j)
  BY <1>1, <1>3
<1>5. p(i) >= p(j)
  <2> SUFFICES ASSUME p(i) + 1 <= p(j) PROVE FALSE
    BY <1>1
  <2>1. w * (p(i) + 1) <= w * p(j)
    BY <1>1
  <2>2. w * (p(i) + 1) = w * p(i) + w
    BY <1>1
  <2> QED
    BY <1>1, <1>4, <2>1, <2>2
<1>6. CASE p(i) = p(j)
  <2>1. q(i) >= q(j)
    BY <1>1, <1>4, <1>6
  <2>2. payout(i) >= payout(j)
    BY <1>1, <1>2, <1>3, <1>6, <2>1
  <2> QED
    BY <2>2 DEF payout
<1>7. CASE p(i) > p(j)
  <2>1. payout(i) >= payout(j)
    BY <1>1, <1>3, <1>7
  <2> QED
    BY <2>1 DEF payout
<1>8. p(i) = p(j) \/ p(i) > p(j)
  BY <1>1, <1>5
<1> QED
  BY <1>6, <1>7, <1>8

=============================================================================
