---------------------------- MODULE AmountProofs ----------------------------
(***************************************************************************)
(* What money arithmetic the reports rest on, proved: the conversion of an *)
(* amount to a NUMERIC column and back is exact for every exponent, and    *)
(* the sums of module Functions, SumFunctionOnSet, behave as sums.         *)
(*                                                                         *)
(* Both are recursions, over the exponent and over a finite set of indices *)
(* taken away one by one in an order the definition leaves open.  The      *)
(* inductions are the well-foundedness of < on Nat and of the strict       *)
(* subset relation, applied to the set of counterexamples.                 *)
(***************************************************************************)
EXTENDS Amounts, FiniteSets, Functions, FiniteSetTheorems, WellFoundedInduction, TLAPS

(* Induction over the natural numbers, for a set G of them: a set that     *)
(* is not all of Nat would leave out a least number.                       *)
LEMMA CountUp ==
  ASSUME NEW G, 0 \in G, \A n \in Nat : n \in G => n + 1 \in G
  PROVE  \A n \in Nat : n \in G
<1> DEFINE Bad == {n \in Nat : n \notin G}
<1> SUFFICES ASSUME Bad # {} PROVE FALSE
  OBVIOUS
<1>1. PICK n \in Bad : \A m \in Bad : ~(<< m, n >> \in OpToRel(<, Nat))
  <2>1. Bad \subseteq Nat
    OBVIOUS
  <2> HIDE DEF Bad
  <2>2. QED
    BY <2>1, NatLessThanWellFounded, WFMin
<1>2. \A m \in Bad : ~(m < n)
  BY <1>1 DEF OpToRel
<1>3. n # 0 /\ n - 1 \in Nat /\ n - 1 \in G /\ (n - 1) + 1 = n
  BY <1>2
<1>4. QED
  BY <1>3

(* Pow10 up to a bound n.                                                  *)
PowRec(n, F) == F = [m \in 0 .. n |-> IF m = 0 THEN 1 ELSE 10 * F[m - 1]]

(* It is there for every bound, and any two agree.                         *)
LEMMA PowRecExists == \A n \in Nat : \E F : PowRec(n, F)
<1> DEFINE G == {n \in Nat : \E F : PowRec(n, F)}
<1>1. 0 \in G
  <2>1. PICK F : F = [m \in 0 .. 0 |-> 1]
    OBVIOUS
  <2>2. PowRec(0, F)
    BY <2>1 DEF PowRec
  <2>3. QED
    BY <2>2
<1>2. ASSUME NEW n \in Nat, n \in G
      PROVE  n + 1 \in G
  <2>1. PICK F : PowRec(n, F)
    BY <1>2
  <2>2. PICK H : H = [m \in 0 .. n + 1 |-> IF m = n + 1 THEN 10 * F[n] ELSE F[m]]
    OBVIOUS
  <2>3. ASSUME NEW m \in 0 .. n + 1
        PROVE  H[m] = IF m = 0 THEN 1 ELSE 10 * H[m - 1]
    <3>1. CASE m = n + 1
      BY <2>2, <3>1
    <3>2. CASE m # n + 1
      <4>1. m \in 0 .. n
        BY <3>2
      <4>2. F[m] = IF m = 0 THEN 1 ELSE 10 * F[m - 1]
        BY <2>1, <4>1 DEF PowRec
      <4>3. H[m] = F[m]
        BY <2>2, <3>2
      <4>4. m # 0 => H[m - 1] = F[m - 1]
        BY <2>2, <4>1
      <4>5. QED
        BY <4>2, <4>3, <4>4
    <3>3. QED
      BY <3>1, <3>2
  <2>4. PowRec(n + 1, H)
    BY <2>2, <2>3 DEF PowRec
  <2>5. QED
    BY <2>4
<1> HIDE DEF G
<1>3. \A n \in Nat : n \in G
  BY <1>1, <1>2, CountUp
<1>4. QED
  BY <1>3 DEF G

(* Two of them agree where both are defined.                               *)
LEMMA PowRecUnique ==
  ASSUME NEW a \in Nat, NEW b \in Nat, NEW F, NEW H, PowRec(a, F), PowRec(b, H), a <= b
  PROVE  \A m \in 0 .. a : F[m] = H[m]
<1> DEFINE G == {m \in Nat : m <= a => F[m] = H[m]}
<1>1. 0 \in G
  BY DEF PowRec
<1>2. ASSUME NEW m \in Nat, m \in G
      PROVE  m + 1 \in G
  <2> SUFFICES ASSUME m + 1 <= a PROVE F[m + 1] = H[m + 1]
    OBVIOUS
  <2>1. PICK k : k = m + 1
    OBVIOUS
  <2>2. k \in 0 .. a /\ k \in 0 .. b /\ k # 0 /\ k - 1 = m
    BY <2>1
  <2>3. F[k] = 10 * F[m] /\ H[k] = 10 * H[m]
    BY <2>2 DEF PowRec
  <2>4. QED
    BY <1>2, <2>1, <2>3
<1> HIDE DEF G
<1>3. \A m \in Nat : m \in G
  BY <1>1, <1>2, CountUp
<1>4. QED
  BY <1>3 DEF G

(* So the recursion that defines Pow10 has a solution.                     *)
LEMMA Pow10Step ==
  Pow10 = [e \in Nat |-> IF e = 0 THEN 1 ELSE 10 * Pow10[e - 1]]
<1> DEFINE App(n) == CHOOSE F : PowRec(n, F)
<1>1. PICK P : P = [n \in Nat |-> App(n)[n]]
  OBVIOUS
<1>2. \A n \in Nat : PowRec(n, App(n))
  BY PowRecExists
<1>3. ASSUME NEW n \in Nat
      PROVE  P[n] = IF n = 0 THEN 1 ELSE 10 * P[n - 1]
  <2>1. PICK F : F = App(n)
    OBVIOUS
  <2>2. PowRec(n, F) /\ P[n] = F[n]
    BY <1>1, <1>2, <2>1
  <2>3. F[n] = IF n = 0 THEN 1 ELSE 10 * F[n - 1]
    BY <2>2 DEF PowRec
  <2>4. ASSUME n # 0 PROVE P[n - 1] = F[n - 1]
    <3>1. PICK k : k = n - 1
      OBVIOUS
    <3>2. k \in Nat /\ k <= n /\ k \in 0 .. k
      BY <2>4, <3>1
    <3>3. PICK H : H = App(k)
      OBVIOUS
    <3>4. PowRec(k, H) /\ P[k] = H[k]
      BY <1>1, <1>2, <3>2, <3>3
    <3>5. H[k] = F[k]
      BY <2>2, <3>2, <3>4, PowRecUnique
    <3>6. QED
      BY <3>1, <3>4, <3>5
  <2>5. QED
    BY <2>2, <2>3, <2>4
<1>4. P = [e \in Nat |-> IF e = 0 THEN 1 ELSE 10 * P[e - 1]]
  BY <1>1, <1>3
<1>5. QED
  BY <1>4 DEF Pow10

(* A power of ten is a positive number.                                    *)
LEMMA Pow10Positive == \A e \in Nat : Pow10[e] \in Nat /\ Pow10[e] > 0
<1> DEFINE G == {e \in Nat : Pow10[e] \in Nat /\ Pow10[e] > 0}
<1>1. 0 \in G
  BY Pow10Step
<1>2. ASSUME NEW e \in Nat, e \in G
      PROVE  e + 1 \in G
  <2>1. Pow10[e + 1] = 10 * Pow10[e]
    <3>1. PICK k : k = e + 1
      OBVIOUS
    <3>2. k \in Nat /\ k # 0 /\ k - 1 = e
      BY <3>1
    <3>3. Pow10[k] = 10 * Pow10[e]
      BY <3>2, Pow10Step
    <3>4. QED
      BY <3>1, <3>3
  <2>2. QED
    BY <1>2, <2>1
<1> HIDE DEF G
<1>3. \A e \in Nat : e \in G
  BY <1>1, <1>2, CountUp
<1>4. QED
  BY <1>3 DEF G

(* What division does to a multiple.                                       *)
LEMMA DivideMultiple ==
  ASSUME NEW v \in Nat, NEW p \in Nat, p > 0
  PROVE  /\ (v * p) % p = 0
         /\ (v * p) \div p = v
         /\ v % p = 0 => (v \div p) \in Nat /\ (v \div p) * p = v
  OBVIOUS

(* What is written is the value of the column.                             *)
LEMMA ColumnExact == \A v \in Nat : Column(AmountToNumeric(v)) = v
BY Pow10Step DEF Column, AmountToNumeric

(* Amounts survive the database: what is written is the value of the       *)
(* column, and whatever exponent the column is read back with, its amount  *)
(* is that value, never an error that mustAmount would turn into a zero.   *)
THEOREM ConversionExact ==
  ASSUME NEW v \in Nat, NEW e \in Int
  PROVE  /\ Column(AmountToNumeric(v)) = v
         /\ NumericToAmount(Numeric(v, e)) = v
         /\ MustAmount(Numeric(v, e)) = v
<1>1. Column(AmountToNumeric(v)) = v
  BY ColumnExact
<1>2. NumericToAmount(Numeric(v, e)) = v
  <2>1. CASE e > 0 /\ v % Pow10[e] = 0
    <3>1. PICK p : p = Pow10[e]
      OBVIOUS
    <3>2. e \in Nat /\ p \in Nat /\ p > 0
      BY <2>1, <3>1, Pow10Positive
    <3>3. (v \div p) \in Nat /\ (v \div p) * p = v
      BY <2>1, <3>1, <3>2, DivideMultiple
    <3>4. Numeric(v, e) = [int |-> v \div p, exp |-> e, valid |-> TRUE]
      BY <2>1, <3>1 DEF Numeric
    <3>5. QED
      BY <2>1, <3>1, <3>3, <3>4 DEF NumericToAmount
  <2>2. CASE e < 0
    <3>1. PICK k, p : k = -e /\ p = Pow10[k]
      OBVIOUS
    <3>2. k \in Nat /\ p \in Nat /\ p > 0
      BY <2>2, <3>1, Pow10Positive
    <3>3. (v * p) % p = 0 /\ (v * p) \div p = v /\ v * p >= 0
      BY <3>2, DivideMultiple
    <3>4. Numeric(v, e) = [int |-> v * p, exp |-> e, valid |-> TRUE]
      BY <2>2, <3>1 DEF Numeric
    <3>5. QED
      BY <2>2, <3>1, <3>3, <3>4 DEF NumericToAmount
  <2>3. CASE ~(e > 0 /\ v % Pow10[e] = 0) /\ ~(e < 0)
    <3>1. Numeric(v, e) = [int |-> v, exp |-> 0, valid |-> TRUE]
      BY <2>3 DEF Numeric
    <3>2. Pow10[0] = 1
      BY Pow10Step
    <3>3. QED
      BY <3>1, <3>2 DEF NumericToAmount
  <2>4. QED
    BY <2>1, <2>2, <2>3
<1>3. MustAmount(Numeric(v, e)) = v
  BY <1>2 DEF MustAmount, NoAmount
<1>4. QED
  BY <1>1, <1>2, <1>3

-----------------------------------------------------------------------------
(***************************************************************************)
(* Sums over finite sets                                                   *)
(***************************************************************************)

(* Every subset of S is in G when each set is in G all of whose subsets    *)
(* with one element less are.                                              *)
LEMMA SubsetInduction ==
  ASSUME NEW S, IsFiniteSet(S), NEW G,
         \A s \in SUBSET S : (\A x \in s : s \ {x} \in G) => s \in G
  PROVE  \A s \in SUBSET S : s \in G
<1> DEFINE Bad == {s \in SUBSET S : s \notin G}
<1> SUFFICES ASSUME Bad # {} PROVE FALSE
  OBVIOUS
<1>1. Bad \subseteq FiniteSubsetsOf(S)
  BY FS_FiniteSubsetsOfFinite
<1>2. PICK s \in Bad : \A t \in Bad : ~(<< t, s >> \in StrictSubsetOrdering(S))
  <2> HIDE DEF Bad
  <2>1. QED
    BY <1>1, FS_StrictSubsetOrderingWellFounded, WFMin
<1>3. ASSUME NEW x \in s PROVE s \ {x} \in G
  <2>1. << s \ {x}, s >> \in StrictSubsetOrdering(S)
    BY DEF StrictSubsetOrdering
  <2>2. s \ {x} \notin Bad
    BY <1>2, <2>1
  <2>3. QED
    BY <2>2
<1>4. QED
  BY <1>2, <1>3

(* The element the recursion takes away, and the recursion.                *)
Pick(s) == CHOOSE x \in s : TRUE
SumRec(f, S, F) ==
  F = [s \in SUBSET S |-> IF s = {} THEN 0 ELSE f[Pick(s)] + F[s \ {Pick(s)}]]

(* SumFunctionOnSet is the value of that recursion at S.                  *)
LEMMA SumIs ==
  ASSUME NEW f, NEW S
  PROVE  SumFunctionOnSet(f, S) = (CHOOSE F : SumRec(f, S, F))[S]
BY DEF SumFunctionOnSet, FoldFunctionOnSet, MapThenFoldSet, SumRec, Pick

(* Two recursions for the same function agree where both are defined.      *)
LEMMA SumRecUnique ==
  ASSUME NEW f, NEW S, NEW T, NEW F, NEW H, SumRec(f, S, F), SumRec(f, T, H),
         IsFiniteSet(S), S \subseteq T
  PROVE  \A s \in SUBSET S : F[s] = H[s]
<1> DEFINE G == {s \in SUBSET S : F[s] = H[s]}
<1>1. ASSUME NEW s \in SUBSET S, \A x \in s : s \ {x} \in G
      PROVE  s \in G
  <2>1. F[s] = IF s = {} THEN 0 ELSE f[Pick(s)] + F[s \ {Pick(s)}]
    BY DEF SumRec
  <2>2. s \in SUBSET T
    OBVIOUS
  <2>3. H[s] = IF s = {} THEN 0 ELSE f[Pick(s)] + H[s \ {Pick(s)}]
    BY <2>2 DEF SumRec
  <2>4. CASE s = {}
    BY <2>1, <2>3, <2>4
  <2>5. CASE s # {}
    <3>1. Pick(s) \in s
      BY <2>5 DEF Pick
    <3>2. F[s \ {Pick(s)}] = H[s \ {Pick(s)}]
      BY <1>1, <3>1
    <3>3. QED
      BY <2>1, <2>3, <2>5, <3>2
  <2>6. QED
    BY <2>4, <2>5
<1> HIDE DEF G
<1>2. \A s \in SUBSET S : s \in G
  BY <1>1, SubsetInduction
<1>3. QED
  BY <1>2 DEF G

(* A recursion on S is one on each subset.                                 *)
LEMMA SumRecRestrict ==
  ASSUME NEW f, NEW S, NEW F, SumRec(f, S, F), NEW T \in SUBSET S
  PROVE  SumRec(f, T, [s \in SUBSET T |-> F[s]])
<1>1. ASSUME NEW s \in SUBSET T
      PROVE  F[s] = IF s = {} THEN 0 ELSE f[Pick(s)] + F[s \ {Pick(s)}]
  <2>1. s \in SUBSET S
    OBVIOUS
  <2>2. QED
    BY <2>1 DEF SumRec
<1>2. QED
  BY <1>1 DEF SumRec

(* The values of a recursion are the sums.                                 *)
LEMMA SumRecValue ==
  ASSUME NEW f, NEW T, IsFiniteSet(T), NEW F, SumRec(f, T, F), NEW s \in SUBSET T
  PROVE  F[s] = SumFunctionOnSet(f, s)
<1>1. \E H : SumRec(f, s, H)
  BY SumRecRestrict
<1>2. PICK H : H = CHOOSE K : SumRec(f, s, K)
  OBVIOUS
<1>3. SumRec(f, s, H)
  BY <1>1, <1>2
<1>4. IsFiniteSet(s)
  BY FS_Subset
<1>5. H[s] = F[s]
  BY <1>3, <1>4, SumRecUnique
<1>6. QED
  BY <1>2, <1>5, SumIs

(* There is a recursion on every finite set.                               *)
LEMMA SumRecExists ==
  ASSUME NEW f, NEW S, IsFiniteSet(S)
  PROVE  \E F : SumRec(f, S, F)
<1> DEFINE G == {s \in SUBSET S : \E F : SumRec(f, s, F)}
           Val(s) == IF s = {} THEN 0
                     ELSE f[Pick(s)] + SumFunctionOnSet(f, s \ {Pick(s)})
<1>1. ASSUME NEW s \in SUBSET S, \A x \in s : s \ {x} \in G
      PROVE  s \in G
  <2>1. ASSUME NEW t \in SUBSET s, t # s
        PROVE  SumFunctionOnSet(f, t) = Val(t)
    <3>1. PICK x \in s : x \notin t
      BY <2>1
    <3>2. PICK r : r = s \ {x}
      OBVIOUS
    <3>3. r \in SUBSET S /\ t \in SUBSET r /\ t \ {Pick(t)} \in SUBSET r
      BY <3>1, <3>2
    <3>4. PICK K : SumRec(f, r, K)
      BY <1>1, <3>2
    <3>5. IsFiniteSet(r)
      BY <3>3, FS_Subset
    <3>6. /\ K[t] = SumFunctionOnSet(f, t)
          /\ K[t \ {Pick(t)}] = SumFunctionOnSet(f, t \ {Pick(t)})
      BY <3>3, <3>4, <3>5, SumRecValue
    <3>7. K[t] = IF t = {} THEN 0 ELSE f[Pick(t)] + K[t \ {Pick(t)}]
      BY <3>3, <3>4 DEF SumRec
    <3>8. QED
      BY <3>6, <3>7
  <2>2. PICK F : F = [t \in SUBSET s |-> IF t = s THEN Val(s) ELSE SumFunctionOnSet(f, t)]
    OBVIOUS
  <2>3. ASSUME NEW t \in SUBSET s
        PROVE  F[t] = IF t = {} THEN 0 ELSE f[Pick(t)] + F[t \ {Pick(t)}]
    <3>1. F[t] = Val(t)
      BY <2>1, <2>2
    <3>2. t # {} => F[t \ {Pick(t)}] = SumFunctionOnSet(f, t \ {Pick(t)})
      <4> SUFFICES ASSUME t # {} PROVE F[t \ {Pick(t)}] = SumFunctionOnSet(f, t \ {Pick(t)})
        OBVIOUS
      <4>1. Pick(t) \in t
        BY DEF Pick
      <4>2. t \ {Pick(t)} \in SUBSET s /\ t \ {Pick(t)} # s
        BY <4>1
      <4>3. QED
        BY <2>2, <4>2
    <3>3. QED
      BY <3>1, <3>2
  <2>4. SumRec(f, s, F)
    BY <2>2, <2>3 DEF SumRec
  <2>5. QED
    BY <2>4
<1> HIDE DEF G
<1>2. \A s \in SUBSET S : s \in G
  BY <1>1, SubsetInduction
<1>3. QED
  BY <1>2 DEF G

(* The sum over no index, and one step of the recursion.                   *)
LEMMA SumStep ==
  ASSUME NEW f, NEW S, IsFiniteSet(S)
  PROVE  SumFunctionOnSet(f, S) = IF S = {} THEN 0
           ELSE f[Pick(S)] + SumFunctionOnSet(f, S \ {Pick(S)})
<1>1. PICK F : SumRec(f, S, F)
  BY SumRecExists
<1>2. F[S] = IF S = {} THEN 0 ELSE f[Pick(S)] + F[S \ {Pick(S)}]
  BY <1>1 DEF SumRec
<1>3. PICK r : r = S \ {Pick(S)}
  OBVIOUS
<1>4. S \in SUBSET S /\ r \in SUBSET S
  BY <1>3
<1>5. F[S] = SumFunctionOnSet(f, S) /\ F[r] = SumFunctionOnSet(f, r)
  BY <1>1, <1>4, SumRecValue, ZenonT(30)
<1>6. QED
  BY <1>2, <1>3, <1>5

-----------------------------------------------------------------------------
(***************************************************************************)
(* Sums of natural numbers                                                 *)
(***************************************************************************)

(* A sum of natural numbers is one.                                        *)
LEMMA SumIsNat ==
  ASSUME NEW f, NEW S, IsFiniteSet(S), \A x \in S : f[x] \in Nat
  PROVE  SumFunctionOnSet(f, S) \in Nat
<1> DEFINE G == {s \in SUBSET S : SumFunctionOnSet(f, s) \in Nat}
<1>1. ASSUME NEW s \in SUBSET S, \A x \in s : s \ {x} \in G
      PROVE  s \in G
  <2>1. IsFiniteSet(s)
    BY FS_Subset
  <2>2. CASE s = {}
    <3>1. SumFunctionOnSet(f, s) = 0
      BY <2>1, <2>2, SumStep
    <3>2. QED
      BY <3>1
  <2>3. CASE s # {}
    <3>1. Pick(s) \in s
      BY <2>3 DEF Pick
    <3>2. SumFunctionOnSet(f, s \ {Pick(s)}) \in Nat /\ f[Pick(s)] \in Nat
      BY <1>1, <3>1
    <3>3. SumFunctionOnSet(f, s) = f[Pick(s)] + SumFunctionOnSet(f, s \ {Pick(s)})
      BY <2>1, <2>3, SumStep
    <3>4. QED
      BY <3>2, <3>3
  <2>4. QED
    BY <2>2, <2>3
<1> HIDE DEF G
<1>2. \A s \in SUBSET S : s \in G
  BY <1>1, SubsetInduction
<1>3. QED
  BY <1>2 DEF G

(* Any index may be the first to be taken away.                            *)
LEMMA SumTake ==
  ASSUME NEW f, NEW S, IsFiniteSet(S), \A x \in S : f[x] \in Nat, NEW y \in S
  PROVE  SumFunctionOnSet(f, S) = f[y] + SumFunctionOnSet(f, S \ {y})
<1> DEFINE G == {s \in SUBSET S : \A x \in s :
                   SumFunctionOnSet(f, s) = f[x] + SumFunctionOnSet(f, s \ {x})}
<1>1. ASSUME NEW s \in SUBSET S, \A x \in s : s \ {x} \in G
      PROVE  s \in G
  <2> SUFFICES ASSUME NEW x \in s
               PROVE  SumFunctionOnSet(f, s) = f[x] + SumFunctionOnSet(f, s \ {x})
    OBVIOUS
  <2>1. PICK c : c = Pick(s)
    OBVIOUS
  <2>2. IsFiniteSet(s) /\ c \in s
    BY <2>1, FS_Subset DEF Pick
  <2>3. SumFunctionOnSet(f, s) = f[c] + SumFunctionOnSet(f, s \ {c})
    BY <2>1, <2>2, SumStep
  <2>4. CASE x = c
    BY <2>3, <2>4
  <2>5. CASE x # c
    <3>1. PICK r : r = (s \ {c}) \ {x}
      OBVIOUS
    <3>2. SumFunctionOnSet(f, s \ {c}) = f[x] + SumFunctionOnSet(f, r)
      <4>1. s \ {c} \in G /\ x \in s \ {c}
        BY <1>1, <2>2, <2>5
      <4>2. QED
        BY <3>1, <4>1
    <3>3. SumFunctionOnSet(f, s \ {x}) = f[c] + SumFunctionOnSet(f, r)
      <4>1. s \ {x} \in G /\ c \in s \ {x} /\ r = (s \ {x}) \ {c}
        BY <1>1, <2>2, <2>5, <3>1
      <4>2. QED
        BY <4>1
    <3>4. f[c] \in Nat /\ f[x] \in Nat /\ SumFunctionOnSet(f, r) \in Nat
      <4>1. r \in SUBSET S /\ IsFiniteSet(r) /\ \A z \in r : f[z] \in Nat
        BY <3>1, FS_Subset
      <4>2. QED
        BY <2>2, <4>1, SumIsNat
    <3>5. QED
      BY <2>3, <3>2, <3>3, <3>4
  <2>6. QED
    BY <2>4, <2>5
<1> HIDE DEF G
<1>2. \A s \in SUBSET S : s \in G
  BY <1>1, SubsetInduction
<1>3. QED
  BY <1>2 DEF G

(* One index more.                                                         *)
LEMMA SumAdd ==
  ASSUME NEW f, NEW S, IsFiniteSet(S), NEW y, y \notin S,
         \A x \in S \cup {y} : f[x] \in Nat
  PROVE  SumFunctionOnSet(f, S \cup {y}) = f[y] + SumFunctionOnSet(f, S)
<1>1. PICK T : T = S \cup {y}
  OBVIOUS
<1>2. IsFiniteSet(T) /\ y \in T /\ T \ {y} = S /\ \A x \in T : f[x] \in Nat
  BY <1>1, FS_AddElement
<1>3. SumFunctionOnSet(f, T) = f[y] + SumFunctionOnSet(f, T \ {y})
  BY <1>2, SumTake
<1>4. QED
  BY <1>1, <1>2, <1>3

(* The sum over no index.                                                  *)
LEMMA SumEmpty == \A f : SumFunctionOnSet(f, {}) = 0
<1> TAKE f
<1>1. PICK S : S = {}
  OBVIOUS
<1>2. IsFiniteSet(S)
  BY <1>1, FS_EmptySet
<1>3. SumFunctionOnSet(f, S) = 0
  BY <1>1, <1>2, SumStep
<1>4. QED
  BY <1>1, <1>3

(* Only the values at the indices count.                                   *)
LEMMA SumSame ==
  ASSUME NEW f, NEW h, NEW S, IsFiniteSet(S), \A x \in S : f[x] = h[x]
  PROVE  SumFunctionOnSet(f, S) = SumFunctionOnSet(h, S)
<1> DEFINE G == {s \in SUBSET S : SumFunctionOnSet(f, s) = SumFunctionOnSet(h, s)}
<1>1. ASSUME NEW s \in SUBSET S, \A x \in s : s \ {x} \in G
      PROVE  s \in G
  <2>1. IsFiniteSet(s)
    BY FS_Subset
  <2>2. CASE s = {}
    <3>1. SumFunctionOnSet(f, s) = 0 /\ SumFunctionOnSet(h, s) = 0
      BY <2>2, SumEmpty
    <3>2. QED
      BY <3>1
  <2>3. CASE s # {}
    <3>1. Pick(s) \in s
      BY <2>3 DEF Pick
    <3>2. SumFunctionOnSet(f, s \ {Pick(s)}) = SumFunctionOnSet(h, s \ {Pick(s)})
      BY <1>1, <3>1
    <3>3. /\ SumFunctionOnSet(f, s) = f[Pick(s)] + SumFunctionOnSet(f, s \ {Pick(s)})
          /\ SumFunctionOnSet(h, s) = h[Pick(s)] + SumFunctionOnSet(h, s \ {Pick(s)})
      BY <2>1, <2>3, SumStep
    <3>4. QED
      BY <3>1, <3>2, <3>3
  <2>4. QED
    BY <2>2, <2>3
<1> HIDE DEF G
<1>2. \A s \in SUBSET S : s \in G
  BY <1>1, SubsetInduction
<1>3. QED
  BY <1>2 DEF G

(* Sums over disjoint sets add up.                                         *)
LEMMA SumUnion ==
  ASSUME NEW f, NEW S, NEW T, IsFiniteSet(S), IsFiniteSet(T), S \cap T = {},
         \A x \in S \cup T : f[x] \in Nat
  PROVE  SumFunctionOnSet(f, S \cup T) = SumFunctionOnSet(f, S) + SumFunctionOnSet(f, T)
<1> DEFINE G == {s \in SUBSET S : SumFunctionOnSet(f, s \cup T) =
                                    SumFunctionOnSet(f, s) + SumFunctionOnSet(f, T)}
<1>0. SumFunctionOnSet(f, T) \in Nat
  BY SumIsNat
<1>1. ASSUME NEW s \in SUBSET S, \A x \in s : s \ {x} \in G
      PROVE  s \in G
  <2>1. CASE s = {}
    <3>1. s \cup T = T
      BY <2>1
    <3>2. SumFunctionOnSet(f, s) = 0
      BY <2>1, SumEmpty
    <3>3. SumFunctionOnSet(f, s \cup T) = SumFunctionOnSet(f, T)
      BY <3>1, Zenon
    <3>4. SumFunctionOnSet(f, s \cup T) = SumFunctionOnSet(f, s) + SumFunctionOnSet(f, T)
      BY <1>0, <3>2, <3>3
    <3>5. QED
      BY <3>4
  <2>2. CASE s # {}
    <3>1. PICK x \in s : TRUE
      BY <2>2
    <3>2. PICK r, u : r = s \ {x} /\ u = r \cup T
      OBVIOUS
    <3>3. /\ r \in G /\ r \in SUBSET S /\ x \notin r /\ x \notin u /\ s = r \cup {x} /\ s \cup T = u \cup {x}
          /\ \A z \in r \cup {x} : f[z] \in Nat
          /\ \A z \in u \cup {x} : f[z] \in Nat
      BY <1>1, <3>2
    <3>4. IsFiniteSet(r) /\ IsFiniteSet(u)
      BY <3>2, <3>3, FS_Subset, FS_Union
    <3>5. SumFunctionOnSet(f, s) = f[x] + SumFunctionOnSet(f, r)
      BY <3>3, <3>4, SumAdd
    <3>6. SumFunctionOnSet(f, s \cup T) = f[x] + SumFunctionOnSet(f, u)
      BY <3>3, <3>4, SumAdd
    <3>7. SumFunctionOnSet(f, u) = SumFunctionOnSet(f, r) + SumFunctionOnSet(f, T)
      BY <3>2, <3>3
    <3>8. f[x] \in Nat /\ SumFunctionOnSet(f, r) \in Nat
      BY <3>3, <3>4, SumIsNat
    <3>9. QED
      BY <1>0, <3>5, <3>6, <3>7, <3>8
  <2>3. QED
    BY <2>1, <2>2
<1> HIDE DEF G
<1>2. \A s \in SUBSET S : s \in G
  BY <1>1, SubsetInduction
<1>3. QED
  BY <1>2 DEF G

(* More indices with greater values have a greater sum.                    *)
LEMMA SumGrows ==
  ASSUME NEW f, NEW h, NEW S, NEW T, IsFiniteSet(T), S \subseteq T,
         \A x \in S : f[x] \in Nat /\ f[x] <= h[x], \A x \in T : h[x] \in Nat
  PROVE  SumFunctionOnSet(f, S) <= SumFunctionOnSet(h, T)
<1> DEFINE G == {s \in SUBSET S : SumFunctionOnSet(f, s) <= SumFunctionOnSet(h, s)}
<1>1. ASSUME NEW s \in SUBSET S, \A x \in s : s \ {x} \in G
      PROVE  s \in G
  <2>1. CASE s = {}
    <3>1. SumFunctionOnSet(f, s) = 0 /\ SumFunctionOnSet(h, s) = 0
      BY <2>1, SumEmpty
    <3>2. QED
      BY <3>1
  <2>2. CASE s # {}
    <3>1. PICK x \in s : TRUE
      BY <2>2
    <3>2. PICK r : r = s \ {x}
      OBVIOUS
    <3>3. /\ r \in G /\ r \in SUBSET T /\ x \notin r /\ s = r \cup {x}
          /\ \A z \in r \cup {x} : f[z] \in Nat
          /\ \A z \in r \cup {x} : h[z] \in Nat
      BY <1>1, <3>2
    <3>4. IsFiniteSet(r)
      BY <3>3, FS_Subset
    <3>5. SumFunctionOnSet(f, s) = f[x] + SumFunctionOnSet(f, r)
      BY <3>3, <3>4, SumAdd
    <3>6. SumFunctionOnSet(h, s) = h[x] + SumFunctionOnSet(h, r)
      BY <3>3, <3>4, SumAdd
    <3>7. SumFunctionOnSet(f, r) \in Nat /\ SumFunctionOnSet(h, r) \in Nat
      BY <3>3, <3>4, SumIsNat
    <3>8. SumFunctionOnSet(f, r) <= SumFunctionOnSet(h, r) /\ f[x] <= h[x]
      BY <3>3
    <3>9. QED
      BY <3>3, <3>5, <3>6, <3>7, <3>8
  <2>3. QED
    BY <2>1, <2>2
<1>2. IsFiniteSet(S)
  BY FS_Subset
<1> HIDE DEF G
<1>3. \A s \in SUBSET S : s \in G
  BY <1>1, <1>2, SubsetInduction
<1>4. SumFunctionOnSet(f, S) <= SumFunctionOnSet(h, S)
  BY <1>3 DEF G
<1>5. PICK U : U = T \ S
  OBVIOUS
<1>6. IsFiniteSet(U) /\ S \cap U = {} /\ S \cup U = T
  BY <1>5, FS_Subset
<1>7. SumFunctionOnSet(h, T) = SumFunctionOnSet(h, S) + SumFunctionOnSet(h, U)
  BY <1>2, <1>6, SumUnion
<1>8. SumFunctionOnSet(f, S) \in Nat /\ SumFunctionOnSet(h, S) \in Nat /\ SumFunctionOnSet(h, U) \in Nat
  BY <1>2, <1>6, SumIsNat
<1>9. QED
  BY <1>4, <1>7, <1>8

(* Indices may be renamed one to one: f[x] is what h gives to the new name *)
(* b[x] of x.                                                              *)
LEMMA SumRenamed ==
  ASSUME NEW f, NEW h, NEW b, NEW S, IsFiniteSet(S),
         \A x \in S : f[x] = h[b[x]] /\ f[x] \in Nat,
         \A x, y \in S : b[x] = b[y] => x = y
  PROVE  SumFunctionOnSet(f, S) = SumFunctionOnSet(h, {b[x] : x \in S})
<1> DEFINE Img(s) == {b[x] : x \in s}
           G == {s \in SUBSET S : IsFiniteSet(Img(s)) /\
                   SumFunctionOnSet(f, s) = SumFunctionOnSet(h, Img(s))}
<1>1. ASSUME NEW s \in SUBSET S, \A x \in s : s \ {x} \in G
      PROVE  s \in G
  <2>1. CASE s = {}
    <3>1. Img(s) = {}
      BY <2>1
    <3>2. QED
      BY <2>1, <3>1, SumEmpty, FS_EmptySet
  <2>2. CASE s # {}
    <3>1. PICK x \in s : TRUE
      BY <2>2
    <3>2. PICK r, R, y : r = s \ {x} /\ R = Img(r) /\ y = b[x]
      OBVIOUS
    <3>3. /\ r \in G /\ x \notin r /\ s = r \cup {x} /\ y \notin R /\ Img(s) = R \cup {y}
          /\ IsFiniteSet(R)
      BY <1>1, <3>2
    <3>4. /\ \A z \in r \cup {x} : f[z] \in Nat
          /\ \A z \in R \cup {y} : h[z] \in Nat
      BY <3>2
    <3>5. IsFiniteSet(r) /\ IsFiniteSet(R \cup {y})
      BY <3>2, <3>3, FS_Subset, FS_AddElement
    <3>6. SumFunctionOnSet(f, s) = f[x] + SumFunctionOnSet(f, r)
      BY <3>3, <3>4, <3>5, SumAdd
    <3>7. SumFunctionOnSet(h, Img(s)) = h[y] + SumFunctionOnSet(h, R)
      BY <3>3, <3>4, SumAdd
    <3>8. SumFunctionOnSet(f, r) = SumFunctionOnSet(h, R) /\ f[x] = h[y]
      BY <3>2, <3>3
    <3>9. QED
      BY <3>3, <3>5, <3>6, <3>7, <3>8
  <2>3. QED
    BY <2>1, <2>2
<1> HIDE DEF G
<1>2. \A s \in SUBSET S : s \in G
  BY <1>1, SubsetInduction
<1>3. QED
  BY <1>2 DEF G

(* The sum over a finite set is the sum of the sums over its parts, P[k]   *)
(* for each k in K.                                                        *)
Partition(P, K, S) ==
  /\ \A k \in K : P[k] \subseteq S
  /\ \A x \in S : \E k \in K : x \in P[k]
  /\ \A j, k \in K : j # k => P[j] \cap P[k] = {}
(* By induction on the set of parts that have been added up.               *)
LEMMA SumOfParts ==
  ASSUME NEW f, NEW g, NEW K, NEW P, NEW S, IsFiniteSet(K), IsFiniteSet(S),
         Partition(P, K, S), \A x \in S : f[x] \in Nat,
         \A k \in K : g[k] = SumFunctionOnSet(f, P[k])
  PROVE  SumFunctionOnSet(g, K) = SumFunctionOnSet(f, S)
<1> USE DEF Partition
<1> DEFINE Parts(s) == {x \in S : \E k \in s : x \in P[k]}
           G == {s \in SUBSET K : SumFunctionOnSet(g, s) = SumFunctionOnSet(f, Parts(s))}
<1>1. \A k \in K : IsFiniteSet(P[k]) /\ g[k] \in Nat
  BY FS_Subset, SumIsNat
<1>2. ASSUME NEW s \in SUBSET K, \A x \in s : s \ {x} \in G
      PROVE  s \in G
  <2>1. CASE s = {}
    <3>1. Parts(s) = {}
      BY <2>1
    <3>2. QED
      BY <2>1, <3>1, SumEmpty
  <2>2. CASE s # {}
    <3>1. PICK k \in s : TRUE
      BY <2>2
    <3>2. PICK r, R, Q : r = s \ {k} /\ R = Parts(r) /\ Q = P[k]
      OBVIOUS
    <3>3. /\ r \in G /\ k \notin r /\ s = r \cup {k} /\ r \in SUBSET K
          /\ R \subseteq S /\ Q \subseteq S /\ R \cap Q = {} /\ Parts(s) = R \cup Q
      BY <1>2, <3>2
    <3>4. /\ IsFiniteSet(r) /\ IsFiniteSet(R) /\ IsFiniteSet(Q)
          /\ \A z \in r \cup {k} : g[z] \in Nat
          /\ \A z \in R \cup Q : f[z] \in Nat
      BY <1>1, <3>2, <3>3, FS_Subset
    <3>5. SumFunctionOnSet(g, s) = g[k] + SumFunctionOnSet(g, r)
      BY <3>3, <3>4, SumAdd
    <3>6. SumFunctionOnSet(f, Parts(s)) = SumFunctionOnSet(f, R) + SumFunctionOnSet(f, Q)
      BY <3>3, <3>4, SumUnion
    <3>7. SumFunctionOnSet(g, r) = SumFunctionOnSet(f, R) /\ g[k] = SumFunctionOnSet(f, Q)
      BY <3>2, <3>3
    <3>8. SumFunctionOnSet(f, R) \in Nat /\ SumFunctionOnSet(f, Q) \in Nat
      BY <3>4, SumIsNat
    <3>9. QED
      BY <3>5, <3>6, <3>7, <3>8
  <2>3. QED
    BY <2>1, <2>2
<1> HIDE DEF G
<1>3. \A s \in SUBSET K : s \in G
  BY <1>2, SubsetInduction
<1>4. Parts(K) = S
  OBVIOUS
<1>5. QED
  BY <1>3, <1>4 DEF G

(* Counting is adding ones.                                                *)
LEMMA SumOnes ==
  ASSUME NEW f, NEW S, IsFiniteSet(S), \A x \in S : f[x] = 1
  PROVE  SumFunctionOnSet(f, S) = Cardinality(S)
<1> DEFINE G == {s \in SUBSET S : SumFunctionOnSet(f, s) = Cardinality(s)}
<1>1. ASSUME NEW s \in SUBSET S, \A x \in s : s \ {x} \in G
      PROVE  s \in G
  <2>1. CASE s = {}
    BY <2>1, SumEmpty, FS_EmptySet
  <2>2. CASE s # {}
    <3>1. PICK x \in s : TRUE
      BY <2>2
    <3>2. PICK r : r = s \ {x}
      OBVIOUS
    <3>3. r \in G /\ x \notin r /\ s = r \cup {x} /\ \A z \in r \cup {x} : f[z] \in Nat
      BY <1>1, <3>2
    <3>4. IsFiniteSet(r)
      BY <3>2, FS_Subset
    <3>5. SumFunctionOnSet(f, s) = f[x] + SumFunctionOnSet(f, r)
      BY <3>3, <3>4, SumAdd
    <3>6. Cardinality(s) = Cardinality(r) + 1 /\ Cardinality(r) \in Nat
      BY <3>3, <3>4, FS_AddElement, FS_CardinalityType
    <3>7. QED
      BY <3>3, <3>5, <3>6
  <2>3. QED
    BY <2>1, <2>2
<1> HIDE DEF G
<1>2. \A s \in SUBSET S : s \in G
  BY <1>1, SubsetInduction
<1>3. QED
  BY <1>2 DEF G

(* The image of a finite set is finite, and as large when no two elements  *)
(* have the same image.                                                    *)
LEMMA ImageIsFinite ==
  ASSUME NEW b, NEW S, IsFiniteSet(S)
  PROVE  /\ IsFiniteSet({b[x] : x \in S})
         /\ (\A x, y \in S : b[x] = b[y] => x = y) =>
              Cardinality({b[x] : x \in S}) = Cardinality(S)
<1>1. PICK T, f : T = {b[x] : x \in S} /\ f = [x \in S |-> b[x]]
  OBVIOUS
<1>2. f \in Surjection(S, T)
  BY <1>1 DEF Surjection
<1>3. IsFiniteSet(T)
  BY <1>2, FS_Surjection
<1>4. ASSUME \A x, y \in S : b[x] = b[y] => x = y
      PROVE  Cardinality(T) = Cardinality(S)
  <2>1. f \in Injection(S, T)
    BY <1>1, <1>4 DEF Injection, IsInjective
  <2>2. QED
    BY <1>2, <1>3, <2>1, FS_Injection
<1>5. QED
  BY <1>1, <1>3, <1>4

(* SumFunction sums over the domain.                                       *)
LEMMA SumOverDomain ==
  ASSUME NEW f, NEW S, DOMAIN f = S
  PROVE  SumFunction(f) = SumFunctionOnSet(f, S)
BY DEF SumFunction
=============================================================================
