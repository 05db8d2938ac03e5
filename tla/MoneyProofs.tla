---------------------------- MODULE MoneyProofs ----------------------------
(***************************************************************************)
(* Facts about the rounding of amounts, for every size of the sub-unit,    *)
(* and about adding them up, for every finite set of accounts.             *)
(***************************************************************************)
EXTENDS Money, FiniteSetsExt, FiniteSetTheorems, TLAPS

(* Euclidean division by a positive integer. *)
LEMMA DivFacts ==
    ASSUME NEW x \in Int, NEW d \in Nat \ {0}
    PROVE  /\ x \div d \in Int
           /\ d * (x \div d) <= x
           /\ x < d * (x \div d) + d
  <1>1. x \div d \in Int /\ x % d \in 0..(d - 1)
    OBVIOUS
  <1>2. x = d * (x \div d) + (x % d)
    OBVIOUS
  <1> QED BY <1>1, <1>2

(* toFixed(2) returns a whole number of cents and moves an amount by half  *)
(* a cent at most.                                                         *)
LEMMA RoundCentsError ==
    ASSUME NEW x \in Int
    PROVE  /\ RoundCents(x) \in Int
           /\ SubUnits * RoundCents(x) - x <= HalfCent
           /\ x - SubUnits * RoundCents(x) <= HalfCent
  <1> DEFINE d == SubUnits
  <1>0. HalfCent \in Nat \ {0} /\ d \in Nat \ {0} /\ d = 2 * HalfCent
    BY HalfCentAssumption DEF SubUnits
  <1> HIDE DEF d
  <1>1. CASE x >= 0
    <2> DEFINE q == (x + HalfCent) \div d
    <2>1. RoundCents(x) = q
      BY <1>1 DEF RoundCents, d
    <2> DEFINE y == x + HalfCent
    <2>a. y \in Int
      BY <1>0
    <2>b. q = y \div d
      OBVIOUS
    <2> HIDE DEF y, q
    <2>c. q \in Int /\ d * q <= y /\ y < d * q + d
      BY <1>0, <2>a, <2>b, DivFacts
    <2>2. q \in Int /\ d * q <= x + HalfCent /\ x + HalfCent < d * q + d
      BY <2>c DEF y
    <2>3. d * q \in Int
      BY <1>0, <2>2
    <2> QED BY <1>0, <2>1, <2>2, <2>3 DEF d
  <1>2. CASE x < 0
    <2> DEFINE q == (HalfCent - x) \div d
    <2>1. RoundCents(x) = -q
      BY <1>2 DEF RoundCents, d
    <2> DEFINE y == HalfCent - x
    <2>a. y \in Int
      BY <1>0
    <2>b. q = y \div d
      OBVIOUS
    <2> HIDE DEF y, q
    <2>c. q \in Int /\ d * q <= y /\ y < d * q + d
      BY <1>0, <2>a, <2>b, DivFacts
    <2>2. q \in Int /\ d * q <= HalfCent - x /\ HalfCent - x < d * q + d
      BY <2>c DEF y
    <2>3. d * q \in Int /\ d * (-q) = -(d * q)
      BY <1>0, <2>2
    <2> QED BY <1>0, <2>1, <2>2, <2>3 DEF d
  <1> QED BY <1>1, <1>2

(* An amount of whole cents is not changed: adding and taking away whole   *)
(* cents is exact.                                                         *)
LEMMA WholeCentsExact ==
    ASSUME NEW b \in Int, NEW c \in Int
    PROVE  NewBalance(b, SubUnits * c) = b + c
  <1> DEFINE d == SubUnits
             q == NewBalance(b, d * c)
  <1>0. HalfCent \in Nat \ {0} /\ d \in Nat \ {0} /\ d = 2 * HalfCent
    BY HalfCentAssumption DEF SubUnits
  <1>1. d * b + d * c \in Int /\ d * b + d * c = d * (b + c)
    BY <1>0
  <1>2. /\ q \in Int
        /\ d * q - d * (b + c) <= HalfCent
        /\ d * (b + c) - d * q <= HalfCent
    BY <1>1, RoundCentsError DEF NewBalance
  <1> HIDE DEF d, q
  <1> DEFINE e == q - (b + c)
  <1>3. e \in Int /\ d * e = d * q - d * (b + c) /\ d * e \in Int
    BY <1>0, <1>2
  <1>4. e < 1
    BY <1>0, <1>2, <1>3
  <1>5. e > -1
    BY <1>0, <1>2, <1>3
  <1>6. q = b + c
    BY <1>2, <1>3, <1>4, <1>5
  <1> QED BY <1>6 DEF q, d

(* An amount is whole cents or not whatever its sign; adding whole cents   *)
(* to a balance is exact.                                                  *)
LEMMA WholeCentsFacts ==
    ASSUME NEW x \in Int
    PROVE  /\ WholeCents(x) <=> WholeCents(-x)
           /\ \A b \in Int : WholeCents(x) => SubUnits * NewBalance(b, x) = SubUnits * b + x
  <1>0. SubUnits \in Nat \ {0}
    BY HalfCentAssumption DEF SubUnits
  <1> DEFINE d == SubUnits
  <1> HIDE DEF d
  <1>1. d \in Nat \ {0} /\ (WholeCents(x) <=> x % d = 0) /\ (WholeCents(-x) <=> (-x) % d = 0)
    BY <1>0 DEF WholeCents, d
  <1>2. ASSUME NEW y \in Int, y % d = 0
        PROVE  y \div d \in Int /\ y = d * (y \div d)
    BY <1>1, <1>2
  <1>3. ASSUME NEW y \in Int, y % d = 0 PROVE (-y) % d = 0
    <2> DEFINE k == y \div d
               z == -y
               j == z \div d
               m == z % d
    <2>1. k \in Int /\ y = d * k
      BY <1>2, <1>3
    <2>2. z \in Int /\ j \in Int /\ m \in 0..(d - 1) /\ z = d * j + m
      BY <1>1
    <2> HIDE DEF k, z, j, m
    <2>3. z = -y
      BY DEF z
    <2>4. d * (-k) = -(d * k) /\ d * (-k - j) = d * (-k) - d * j /\ d * (-k - j) \in Int
      BY <1>1, <2>1, <2>2
    <2>5. d * (-k - j) = m
      BY <1>1, <2>1, <2>2, <2>3, <2>4
    <2> DEFINE e == -k - j
    <2>6. e \in Int /\ d * e = m
      BY <2>1, <2>2, <2>5
    <2> HIDE DEF e
    <2>7. e = 0
      BY <1>1, <2>2, <2>6
    <2>8. m = 0
      BY <1>1, <2>6, <2>7
    <2> QED BY <2>8 DEF m, z
  <1>4. WholeCents(x) <=> WholeCents(-x)
    <2>1. -(-x) = x /\ -x \in Int
      OBVIOUS
    <2> QED BY <1>1, <1>3, <2>1
  <1>5. ASSUME NEW b \in Int, WholeCents(x)
        PROVE  SubUnits * NewBalance(b, x) = SubUnits * b + x
    <2> DEFINE k == x \div d
    <2>1. k \in Int /\ x = d * k
      BY <1>1, <1>2, <1>5
    <2> HIDE DEF k
    <2>2. NewBalance(b, x) = b + k
      BY <2>1, WholeCentsExact DEF d
    <2>3. d * (b + k) = d * b + d * k
      BY <1>1, <2>1
    <2> QED BY <2>1, <2>2, <2>3 DEF d
  <1> QED BY <1>4, <1>5

(* A wallet's balance after an adjustment is off by half a cent at most,   *)
(* and by nothing if the adjustment is whole cents.                        *)
LEMMA AdjustmentError ==
    ASSUME NEW b \in Int, NEW x \in Int
    PROVE  /\ NewBalance(b, x) \in Int
           /\ SubUnits * NewBalance(b, x) - SubUnits * b - x <= HalfCent
           /\ SubUnits * b + x - SubUnits * NewBalance(b, x) <= HalfCent
           /\ WholeCents(x) => SubUnits * NewBalance(b, x) = SubUnits * b + x
  <1>0. SubUnits \in Nat \ {0} /\ HalfCent \in Nat \ {0}
    BY HalfCentAssumption DEF SubUnits
  <1> DEFINE y == SubUnits * b + x
  <1>1. y \in Int /\ SubUnits * b \in Int
    BY <1>0
  <1>2. NewBalance(b, x) = RoundCents(y)
    BY DEF NewBalance
  <1> HIDE DEF y
  <1>3. /\ RoundCents(y) \in Int
        /\ SubUnits * RoundCents(y) - y <= HalfCent
        /\ y - SubUnits * RoundCents(y) <= HalfCent
    BY <1>1, RoundCentsError
  <1>4. SubUnits * RoundCents(y) \in Int
    BY <1>0, <1>3
  <1>5. /\ SubUnits * RoundCents(y) - SubUnits * b - x <= HalfCent
        /\ SubUnits * b + x - SubUnits * RoundCents(y) <= HalfCent
    <2> DEFINE p == SubUnits * RoundCents(y)
               q == SubUnits * b
    <2>1. p \in Int /\ q \in Int /\ y = q + x /\ p - y <= HalfCent /\ y - p <= HalfCent
      BY <1>1, <1>3, <1>4 DEF y
    <2> HIDE DEF p, q
    <2>2. p - q - x <= HalfCent /\ q + x - p <= HalfCent
      BY <1>0, <2>1
    <2> QED BY <2>2 DEF p, q
  <1> QED BY <1>2, <1>3, <1>5, WholeCentsFacts

(***************************************************************************)
(* Sums.  What is recursive is proved with a least counterexample.         *)
(***************************************************************************)
(* Induction over the subsets of a finite set: a set of counterexamples    *)
(* with no least member is empty.                                          *)
LEMMA NoLeastSubset ==
    ASSUME NEW S, IsFiniteSet(S), NEW Bad \in SUBSET SUBSET S,
           ASSUME NEW T \in Bad, \A U \in SUBSET T : U # T => U \notin Bad
           PROVE  FALSE
    PROVE  Bad = {}
  <1> SUFFICES ASSUME Bad # {} PROVE FALSE
    OBVIOUS
  <1>1. FiniteSubsetsOf(S) = SUBSET S
    BY FS_FiniteSubsetsOfFinite
  <1>2. IsWellFoundedOn(StrictSubsetOrdering(S), SUBSET S)
    <2>1. IsWellFoundedOn(StrictSubsetOrdering(S), FiniteSubsetsOf(S))
      BY FS_StrictSubsetOrderingWellFounded, Zenon
    <2> QED BY <1>1, <2>1, Zenon
  <1> DEFINE R == StrictSubsetOrdering(S)
             SS == SUBSET S
  <1> HIDE DEF R, SS
  <1>a. IsWellFoundedOn(R, SS) /\ Bad \subseteq SS
    BY <1>2 DEF R, SS
  <1>b. \E T \in Bad : \A U \in Bad : ~ (<<U, T>> \in R)
    BY <1>a, WFMin, Zenon
  <1>3. PICK T \in Bad : \A U \in Bad : <<U, T>> \notin StrictSubsetOrdering(S)
    BY <1>b DEF R
  <1>4. \A U \in SUBSET T : U # T => U \notin Bad
    BY <1>3 DEF StrictSubsetOrdering
  <1> QED BY <1>4

(* Induction over an interval: a set of counterexamples with no least      *)
(* member is empty.                                                        *)
LEMMA NoLeastNumber ==
    ASSUME NEW N \in Nat, NEW Bad \in SUBSET (0..N),
           ASSUME NEW n \in Bad, \A m \in 0..(n - 1) : m \notin Bad PROVE FALSE
    PROVE  Bad = {}
  <1> DEFINE Sets == {0..n : n \in Bad}
  <1>1. IsFiniteSet(0..N) /\ Sets \in SUBSET SUBSET (0..N)
    <2>1. IsFiniteSet(0..N)
      BY FS_Interval
    <2>2. \A n \in Bad : 0..n \in SUBSET (0..N)
      OBVIOUS
    <2> QED BY <2>1, <2>2
  <1>2. ASSUME NEW T \in Sets, \A U \in SUBSET T : U # T => U \notin Sets PROVE FALSE
    <2>1. PICK n \in Bad : T = 0..n
      OBVIOUS
    <2>2. \A m \in 0..(n - 1) : m \notin Bad
      <3> SUFFICES ASSUME NEW m \in 0..(n - 1), m \in Bad PROVE FALSE
        OBVIOUS
      <3>1. 0..m \in Sets /\ 0..m \subseteq T /\ n \in T /\ n \notin 0..m
        BY <2>1
      <3> QED BY <1>2, <3>1
    <2> QED BY <2>2
  <1> HIDE DEF Sets
  <1>3. Sets = {}
    BY ONLY <1>1, <1>2, NoLeastSubset
  <1> QED BY <1>3 DEF Sets

(* The sum of f over S, and the function that MapThenSumSet computes it    *)
(* with.                                                                   *)
Adds(f, S) == MapThenSumSet(LAMBDA k : f[k], S)
Taken(T) == CHOOSE x \in T : TRUE
Adder(g, f, S) ==
    g = [T \in SUBSET S |->
           IF T = {} THEN 0 ELSE f[Taken(T)] + g[T \ {Taken(T)}]]

(* The sum is the value of that function. *)
LEMMA AddsByAdder ==
    ASSUME NEW f, NEW S PROVE Adds(f, S) = (CHOOSE g : Adder(g, f, S))[S]
  BY Zenon DEF Adds, MapThenSumSet, MapThenFoldSet, Adder, Taken

(* The term that is added first is one of the terms. *)
LEMMA TakenIsMember == ASSUME NEW T, T # {} PROVE Taken(T) \in T
  BY DEF Taken

(* Two such functions agree where both are defined. *)
LEMMA AddersAgree ==
    ASSUME NEW f, NEW S, NEW V \in SUBSET S, IsFiniteSet(V),
           NEW g, Adder(g, f, S), NEW h, Adder(h, f, V)
    PROVE  g[V] = h[V]
  <1> DEFINE Bad == {T \in SUBSET V : g[T] # h[T]}
  <1>1. ASSUME NEW T \in Bad, \A U \in SUBSET T : U # T => U \notin Bad
        PROVE  FALSE
    <2>1. /\ T \in SUBSET S /\ T \in SUBSET V
          /\ g[T] = IF T = {} THEN 0 ELSE f[Taken(T)] + g[T \ {Taken(T)}]
          /\ h[T] = IF T = {} THEN 0 ELSE f[Taken(T)] + h[T \ {Taken(T)}]
      BY DEF Adder
    <2>2. T # {}
      BY <2>1
    <2>3. T \ {Taken(T)} \in SUBSET T /\ T \ {Taken(T)} # T
      BY <2>2, TakenIsMember
    <2> QED BY <1>1, <2>1, <2>2, <2>3
  <1>2. Bad = {}
    <2> HIDE DEF Bad
    <2>1. Bad \in SUBSET SUBSET V
      BY DEF Bad
    <2> QED BY <1>1, <2>1, NoLeastSubset
  <1> QED BY <1>2

(* There is such a function for every finite set. *)
LEMMA AdderExists ==
    ASSUME NEW f, NEW S, IsFiniteSet(S) PROVE \E g : Adder(g, f, S)
  <1> DEFINE Bad == {T \in SUBSET S : ~ \E g : Adder(g, f, T)}
             A(U) == CHOOSE g : Adder(g, f, U)
  <1>1. ASSUME NEW T \in Bad, \A U \in SUBSET T : U # T => U \notin Bad
        PROVE  FALSE
    <2> DEFINE Rest(U) == U \ {Taken(U)}
               G == [U \in SUBSET T |-> IF U = {} THEN 0
                                        ELSE f[Taken(U)] + A(Rest(U))[Rest(U)]]
    <2>1. \A U \in SUBSET T : U # T => Adder(A(U), f, U)
      BY <1>1
    <2>2. \A U \in SUBSET T : U # {} => /\ Rest(U) \in SUBSET T /\ Rest(U) # T
                                       /\ Rest(U) \in SUBSET U /\ Rest(U) # U
      BY TakenIsMember
    <2>3. ASSUME NEW U \in SUBSET T, U # T PROVE G[U] = A(U)[U]
      <3>1. A(U)[U] = IF U = {} THEN 0 ELSE f[Taken(U)] + A(U)[Rest(U)]
        <4> DEFINE a == A(U)
        <4>1. Adder(a, f, U)
          BY <2>1, <2>3
        <4> HIDE DEF a
        <4>2. a[U] = IF U = {} THEN 0 ELSE f[Taken(U)] + a[Rest(U)]
          BY <4>1 DEF Adder
        <4> QED BY <4>2 DEF a
      <3>2. CASE U = {}
        BY <3>1, <3>2
      <3>3. CASE U # {}
        <4>0. Rest(U) \in SUBSET S
          OBVIOUS
        <4>1. IsFiniteSet(Rest(U))
          BY <4>0, FS_Subset
        <4>2. /\ Adder(A(U), f, U) /\ Adder(A(Rest(U)), f, Rest(U))
              /\ Rest(U) \in SUBSET U
          BY <2>1, <2>2, <2>3, <3>3
        <4> HIDE DEF A, Rest
        <4>3. A(U)[Rest(U)] = A(Rest(U))[Rest(U)]
          BY <4>1, <4>2, AddersAgree
        <4> QED BY <3>1, <3>3, <4>3
      <3> QED BY <3>2, <3>3
    <2>4. \A U \in SUBSET T :
             G[U] = IF U = {} THEN 0 ELSE f[Taken(U)] + G[Rest(U)]
      <3> TAKE U \in SUBSET T
      <3>1. U # {} => G[Rest(U)] = A(Rest(U))[Rest(U)]
        <4> HIDE DEF G, Rest, A
        <4> QED BY <2>2, <2>3
      <3> HIDE DEF A, Rest
      <3> QED BY <3>1
    <2>5. Adder(G, f, T)
      <3> HIDE DEF A
      <3> DEFINE H == [U \in SUBSET T |->
                         IF U = {} THEN 0 ELSE f[Taken(U)] + G[U \ {Taken(U)}]]
      <3>1. G = H
        BY <2>4
      <3> QED BY <3>1, Zenon DEF Adder
    <2> QED BY <2>5
  <1>2. Bad = {}
    <2> HIDE DEF Bad
    <2>1. Bad \in SUBSET SUBSET S
      BY DEF Bad
    <2> QED BY <1>1, <2>1, NoLeastSubset
  <1> QED BY <1>2

(* No terms add up to nothing. *)
LEMMA AddsEmpty == ASSUME NEW f PROVE Adds(f, {}) = 0
  <1> DEFINE g == CHOOSE g : Adder(g, f, {})
  <1>1. Adder(g, f, {})
    BY AdderExists, FS_EmptySet
  <1> HIDE DEF g
  <1>2. g[{}] = 0
    BY <1>1 DEF Adder
  <1> QED BY <1>2, AddsByAdder DEF g

(* The sum is the term that is added first and the sum of the others. *)
LEMMA AddsStep ==
    ASSUME NEW f, NEW S, IsFiniteSet(S), S # {}
    PROVE  /\ Taken(S) \in S
           /\ Adds(f, S) = f[Taken(S)] + Adds(f, S \ {Taken(S)})
  <1> DEFINE R == S \ {Taken(S)}
             g == CHOOSE g : Adder(g, f, S)
             h == CHOOSE h : Adder(h, f, R)
  <1>1. IsFiniteSet(R) /\ R \in SUBSET S
    BY FS_Subset
  <1>2. Adder(g, f, S) /\ Adder(h, f, R)
    BY <1>1, AdderExists
  <1>3. Adds(f, S) = g[S] /\ Adds(f, R) = h[R]
    BY AddsByAdder
  <1> HIDE DEF g, h
  <1>4. g[S] = f[Taken(S)] + g[R]
    BY <1>2 DEF Adder
  <1>5. g[R] = h[R]
    <2> HIDE DEF R
    <2> QED BY <1>1, <1>2, AddersAgree
  <1> QED BY <1>3, <1>4, <1>5, TakenIsMember

(* Integers add up to an integer. *)
LEMMA AddsType ==
    ASSUME NEW f, NEW S, IsFiniteSet(S), \A x \in S : f[x] \in Int
    PROVE  Adds(f, S) \in Int
  <1> DEFINE Bad == {T \in SUBSET S : Adds(f, T) \notin Int}
  <1>1. ASSUME NEW T \in Bad, \A U \in SUBSET T : U # T => U \notin Bad
        PROVE  FALSE
    <2>0. T # {}
      BY AddsEmpty
    <2>1. T # {} /\ IsFiniteSet(T)
      BY <2>0, FS_Subset
    <2>2. Taken(T) \in T /\ Adds(f, T) = f[Taken(T)] + Adds(f, T \ {Taken(T)})
      BY <2>1, AddsStep
    <2>3. T \ {Taken(T)} \in SUBSET T /\ T \ {Taken(T)} # T
      BY <2>2
    <2>4. Adds(f, T \ {Taken(T)}) \in Int
      BY <1>1, <2>3
    <2> QED BY <2>2, <2>4
  <1>2. Bad = {}
    <2> HIDE DEF Bad
    <2>1. Bad \in SUBSET SUBSET S
      BY DEF Bad
    <2> QED BY <1>1, <2>1, NoLeastSubset
  <1> QED BY <1>2

(* Any member may be taken first. *)
LEMMA AddsSplit ==
    ASSUME NEW f, NEW S, IsFiniteSet(S), \A x \in S : f[x] \in Int, NEW k \in S
    PROVE  Adds(f, S) = f[k] + Adds(f, S \ {k})
  <1> DEFINE Bad == {T \in SUBSET S :
                       \E x \in T : Adds(f, T) # f[x] + Adds(f, T \ {x})}
  <1>1. ASSUME NEW T \in Bad, \A U \in SUBSET T : U # T => U \notin Bad
        PROVE  FALSE
    <2>1. PICK x \in T : Adds(f, T) # f[x] + Adds(f, T \ {x})
      OBVIOUS
    <2> DEFINE c == Taken(T)
    <2>2. c \in T /\ Adds(f, T) = f[c] + Adds(f, T \ {c})
      BY <2>1, AddsStep, FS_Subset
    <2> HIDE DEF c
    <2>3. x # c
      BY <2>1, <2>2
    <2>4. Adds(f, T \ {c}) = f[x] + Adds(f, (T \ {c}) \ {x})
      BY <1>1, <2>2, <2>3
    <2>5. Adds(f, T \ {x}) = f[c] + Adds(f, (T \ {x}) \ {c})
      BY <1>1, <2>1, <2>2, <2>3
    <2>6. (T \ {c}) \ {x} = (T \ {x}) \ {c}
      OBVIOUS
    <2>7. Adds(f, (T \ {x}) \ {c}) \in Int
      <3>1. /\ IsFiniteSet((T \ {x}) \ {c})
            /\ \A y \in (T \ {x}) \ {c} : f[y] \in Int
        BY FS_Subset
      <3> QED BY <3>1, AddsType
    <2>8. f[x] \in Int /\ f[c] \in Int
      BY <2>2
    <2> DEFINE A == Adds(f, (T \ {x}) \ {c})
               fx == f[x]
               fc == f[c]
    <2>9. /\ fx \in Int /\ fc \in Int /\ A \in Int
          /\ fc + (fx + A) # fx + (fc + A)
      BY <2>1, <2>2, <2>4, <2>5, <2>6, <2>7, <2>8
    <2> HIDE DEF A, fx, fc
    <2> QED BY <2>9
  <1>2. Bad = {}
    <2> HIDE DEF Bad
    <2>1. Bad \in SUBSET SUBSET S
      BY DEF Bad
    <2> QED BY <1>1, <2>1, NoLeastSubset
  <1> QED BY <1>2

(* Equal terms have equal sums. *)
LEMMA AddsSame ==
    ASSUME NEW f, NEW g, NEW S, IsFiniteSet(S), \A x \in S : f[x] = g[x]
    PROVE  Adds(f, S) = Adds(g, S)
  <1> DEFINE Bad == {T \in SUBSET S : Adds(f, T) # Adds(g, T)}
  <1>1. ASSUME NEW T \in Bad, \A U \in SUBSET T : U # T => U \notin Bad
        PROVE  FALSE
    <2>0. T # {}
      BY AddsEmpty
    <2>1. T # {} /\ IsFiniteSet(T)
      BY <2>0, FS_Subset
    <2>2. /\ Taken(T) \in T
          /\ Adds(f, T) = f[Taken(T)] + Adds(f, T \ {Taken(T)})
          /\ Adds(g, T) = g[Taken(T)] + Adds(g, T \ {Taken(T)})
      BY <2>1, AddsStep
    <2>3. T \ {Taken(T)} \in SUBSET T /\ T \ {Taken(T)} # T
      BY <2>2
    <2>4. Adds(f, T \ {Taken(T)}) = Adds(g, T \ {Taken(T)})
      BY <1>1, <2>3
    <2> QED BY <2>2, <2>4
  <1>2. Bad = {}
    <2> HIDE DEF Bad
    <2>1. Bad \in SUBSET SUBSET S
      BY DEF Bad
    <2> QED BY <1>1, <2>1, NoLeastSubset
  <1> QED BY <1>2

(* Changing one term changes the sum by as much. *)
LEMMA AddsChange ==
    ASSUME NEW S, IsFiniteSet(S), NEW f, NEW g, NEW k \in S,
           \A x \in S : f[x] \in Int /\ g[x] \in Int,
           \A x \in S : x # k => g[x] = f[x]
    PROVE  Adds(g, S) = Adds(f, S) - f[k] + g[k]
  <1>1. /\ Adds(f, S) = f[k] + Adds(f, S \ {k})
        /\ Adds(g, S) = g[k] + Adds(g, S \ {k})
    BY AddsSplit
  <1>2. IsFiniteSet(S \ {k}) /\ \A x \in S \ {k} : f[x] = g[x] /\ f[x] \in Int
    BY FS_Subset
  <1>3. Adds(f, S \ {k}) = Adds(g, S \ {k}) /\ Adds(f, S \ {k}) \in Int
    BY <1>2, AddsSame, AddsType
  <1>4. f[k] \in Int /\ g[k] \in Int
    OBVIOUS
  <1> QED BY <1>1, <1>3, <1>4

(* Terms that are zero may be left out. *)
LEMMA AddsRestricted ==
    ASSUME NEW S, IsFiniteSet(S), NEW T \in SUBSET S, NEW f, NEW g,
           \A x \in T : f[x] \in Int,
           \A x \in S : g[x] = IF x \in T THEN f[x] ELSE 0
    PROVE  Adds(g, S) = Adds(f, T)
  <1> DEFINE Bad == {U \in SUBSET S : Adds(g, U) # Adds(f, U \cap T)}
  <1>1. ASSUME NEW U \in Bad, \A V \in SUBSET U : V # U => V \notin Bad
        PROVE  FALSE
    <2>0. U # {}
      <3>1. {} \cap T = {}
        OBVIOUS
      <3> QED BY <3>1, AddsEmpty
    <2>1. IsFiniteSet(U) /\ IsFiniteSet(U \cap T)
      BY FS_Subset
    <2> DEFINE k == Taken(U)
               V == U \ {k}
    <2>2. k \in U /\ Adds(g, U) = g[k] + Adds(g, V)
      BY <2>0, <2>1, AddsStep
    <2> HIDE DEF k
    <2>3. V \in SUBSET U /\ V # U /\ V \in SUBSET S
      BY <2>2
    <2>4. Adds(g, V) = Adds(f, V \cap T)
      BY <1>1, <2>3
    <2>5. Adds(f, V \cap T) \in Int
      <3>1. IsFiniteSet(V \cap T) /\ \A x \in V \cap T : f[x] \in Int
        BY <2>1, <2>3, FS_Subset
      <3> QED BY <3>1, AddsType
    <2>6. CASE k \in T
      <3>1. k \in U \cap T /\ (U \cap T) \ {k} = V \cap T /\ \A x \in U \cap T : f[x] \in Int
        BY <2>2, <2>6
      <3>2. Adds(f, U \cap T) = f[k] + Adds(f, V \cap T)
        BY <2>1, <3>1, AddsSplit
      <3> QED BY <2>2, <2>4, <2>6, <3>2
    <2>7. CASE k \notin T
      <3>1. U \cap T = V \cap T /\ g[k] = 0
        BY <2>2, <2>7
      <3>2. Adds(g, V) \in Int
        BY <2>4, <2>5
      <3>3. Adds(g, U) = Adds(g, V)
        BY <2>2, <3>1, <3>2
      <3>4. Adds(g, U) = Adds(f, U \cap T)
        BY <2>4, <3>1, <3>3
      <3> QED BY <3>4
    <2> QED BY <2>6, <2>7
  <1>2. Bad = {}
    <2> HIDE DEF Bad
    <2>1. Bad \in SUBSET SUBSET S
      BY DEF Bad
    <2> QED BY <1>1, <2>1, NoLeastSubset
  <1>3. S \cap T = T /\ S \in SUBSET S
    OBVIOUS
  <1> QED BY <1>2, <1>3

(* Natural numbers add up to a natural number, and zeros to zero. *)
LEMMA AddsNat ==
    ASSUME NEW f, NEW S, IsFiniteSet(S), \A x \in S : f[x] \in Nat
    PROVE  /\ Adds(f, S) \in Nat
           /\ (\A x \in S : f[x] = 0) => Adds(f, S) = 0
  <1> DEFINE Bad == {T \in SUBSET S :
                       ~ (/\ Adds(f, T) \in Nat
                          /\ (\A x \in T : f[x] = 0) => Adds(f, T) = 0)}
  <1>1. ASSUME NEW T \in Bad, \A U \in SUBSET T : U # T => U \notin Bad
        PROVE  FALSE
    <2>0. T # {}
      BY AddsEmpty
    <2>1. T # {} /\ IsFiniteSet(T)
      BY <2>0, FS_Subset
    <2>2. Taken(T) \in T /\ Adds(f, T) = f[Taken(T)] + Adds(f, T \ {Taken(T)})
      BY <2>1, AddsStep
    <2> DEFINE R == T \ {Taken(T)}
    <2>3. R \in SUBSET T /\ R # T
      BY <2>2
    <2>4. Adds(f, R) \in Nat /\ ((\A x \in R : f[x] = 0) => Adds(f, R) = 0)
      BY <1>1, <2>3
    <2>5. f[Taken(T)] \in Nat
      BY <2>2
    <2> QED BY <2>2, <2>4, <2>5
  <1>2. Bad = {}
    <2> HIDE DEF Bad
    <2>1. Bad \in SUBSET SUBSET S
      BY DEF Bad
    <2> QED BY <1>1, <2>1, NoLeastSubset
  <1> QED BY <1>2
============================================================================
