--------------------------- MODULE FiniteInduction ---------------------------
(* Least and greatest elements, and what follows about SumFunctionOnSet,    *)
(* the sum of a function's values over a finite set.  An induction is       *)
(* stated as a set: of the numbers, or the finite sets, where a fact would  *)
(* fail there is a smallest one.                                            *)
EXTENDS FiniteSetsExt, FiniteSetTheorems, WellFoundedInduction, TLAPS

\* A set of natural numbers that is not empty has a least element.
LEMMA LeastNatural ==
  ASSUME NEW S \in SUBSET Nat, S # {}
  PROVE  \E m \in S : \A n \in S : m <= n
<1>1. PICK m \in S : \A n \in S : ~ (<<n, m>> \in OpToRel(<, Nat))
  BY NatLessThanWellFounded, WFMin
<1>2. OpToRel(<, Nat) = {ss \in Nat \X Nat : ss[1] < ss[2]}
  BY DEF OpToRel
<1>3. \A n \in S : <<n, m>> \in Nat \X Nat /\ ~ (n < m)
  BY <1>1, <1>2
<1>4. \A n \in S : m <= n
  <2> TAKE n \in S
  <2>1. m \in Nat /\ n \in Nat /\ ~ (n < m)
    BY <1>3
  <2> QED
    BY <2>1
<1> QED
  BY <1>4

\* A bounded set of natural numbers that is not empty has a greatest element.
LEMMA GreatestNatural ==
  ASSUME NEW S \in SUBSET Nat, S # {}, NEW N \in Nat, \A i \in S : i <= N
  PROVE  Max(S) \in S /\ \A i \in S : i <= Max(S)
<1> DEFINE Above == {N - i : i \in S}
<1>1. Above \in SUBSET Nat /\ Above # {}
  <2>1. \A i \in S : N - i \in Nat
    OBVIOUS
  <2>2. \A d \in Above : d \in Nat
    BY <2>1
  <2>3. Above # {}
    OBVIOUS
  <2> QED
    BY <2>2, <2>3
<1>2. PICK d \in Above : \A e \in Above : d <= e
  <2> HIDE DEF Above
  <2> QED
    BY <1>1, LeastNatural
<1>3. PICK m \in S : d = N - m
  OBVIOUS
<1>4. \A i \in S : m >= i
  <2> TAKE i \in S
  <2>1. N - m <= N - i /\ m \in Nat /\ i \in Nat
    BY <1>2, <1>3
  <2> QED
    BY <2>1
<1> QED
  BY <1>4 DEF Max

\* It is the element added last, where elements are added in order.
LEMMA GreatestIsNewest ==
  ASSUME NEW S \in SUBSET Nat, NEW n \in Nat, \A i \in S : i < n
  PROVE  Max(S \cup {n}) = n
<1>1. \A i \in S \cup {n} : n >= i /\ (i >= n => i = n)
  <2>1. \A i \in S : i \in Nat /\ i < n
    OBVIOUS
  <2>2. \A i \in Nat : i < n => n >= i /\ ~ (i >= n)
    OBVIOUS
  <2> QED
    BY <2>1, <2>2
<1> QED
  BY <1>1 DEF Max

\* A set of finite subsets that is not empty has a smallest member.
LEMMA SmallestFiniteSet ==
  ASSUME NEW S, NEW Bad, Bad \subseteq FiniteSubsetsOf(S), Bad # {}
  PROVE  \E T \in Bad : \A U \in SUBSET T : U # T => U \notin Bad
<1>1. PICK T \in Bad : \A U \in Bad : ~ (<<U, T>> \in StrictSubsetOrdering(S))
  BY FS_StrictSubsetOrderingWellFounded, WFMin
<1>2. \A U \in SUBSET T : U # T /\ U \in Bad => <<U, T>> \in StrictSubsetOrdering(S)
  BY DEF StrictSubsetOrdering, FiniteSubsetsOf
<1>3. \A U \in SUBSET T : U # T => U \notin Bad
  BY <1>1, <1>2
<1> QED
  BY <1>3

\* A finite set of natural numbers that is not empty has a greatest element.
LEMMA FiniteGreatest ==
  ASSUME NEW S \in SUBSET Nat, IsFiniteSet(S), S # {}
  PROVE  Max(S) \in S /\ \A i \in S : i <= Max(S)
<1> DEFINE Bounded(T) == \E n \in T : \A i \in T : i <= n
           Bad == {T \in SUBSET S : T # {} /\ ~Bounded(T)}
<1>1. Bounded(S)
  <2>1. SUFFICES ASSUME ~Bounded(S) PROVE FALSE
    OBVIOUS
  <2>2. Bad \subseteq FiniteSubsetsOf(S) /\ Bad # {}
    BY <2>1, FS_Subset DEF FiniteSubsetsOf
  <2>3. PICK T \in Bad : \A U \in SUBSET T : U # T => U \notin Bad
    <3> HIDE DEF Bad
    <3> QED
      BY <2>2, SmallestFiniteSet
  <2>4. PICK x \in T : TRUE
    BY <2>3
  <2>5. T \ {x} # {}
    <3>1. SUFFICES ASSUME T \ {x} = {} PROVE FALSE
      OBVIOUS
    <3>2. T = {x} /\ x \in Nat
      BY <3>1, <2>3, <2>4
    <3> QED
      BY <3>2, <2>3
  <2>6. Bounded(T \ {x})
    BY <2>3, <2>4, <2>5
  <2>7. PICK y \in T \ {x} : \A i \in T \ {x} : i <= y
    BY <2>6
  <2>8. x \in Nat /\ y \in Nat /\ y \in T /\ \A i \in T : i \in Nat
    BY <2>3, <2>4, <2>7
  <2>9. CASE x <= y
    BY <2>3, <2>4, <2>7, <2>8, <2>9
  <2>10. CASE ~(x <= y)
    <3>1. \A i \in T : i <= x
      BY <2>7, <2>8, <2>10
    <3> QED
      BY <2>3, <2>4, <3>1
  <2> QED
    BY <2>9, <2>10
<1>2. PICK n \in S : \A i \in S : i <= n
  BY <1>1
<1> QED
  BY <1>2, GreatestNatural

\* The element that a fold takes first.
Pick(S) == CHOOSE x \in S : TRUE

LEMMA PickIn ==
  ASSUME NEW S, S # {}
  PROVE  Pick(S) \in S
BY DEF Pick

\* What the definition of the sum over S asks of its partial sums.
IsSum(g, f, S) ==
  g = [s \in SUBSET S |-> IF s = {} THEN 0 ELSE f[Pick(s)] + g[s \ {Pick(s)}]]

LEMMA SumIs ==
  ASSUME NEW f, NEW S
  PROVE  SumFunctionOnSet(f, S) = (CHOOSE g : IsSum(g, f, S))[S]
BY DEF SumFunctionOnSet, FoldFunctionOnSet, MapThenFoldSet, IsSum, Pick

LEMMA SumsAgree ==
  ASSUME NEW f, NEW A, NEW B, IsFiniteSet(A), NEW g, NEW h,
         IsSum(g, f, A), IsSum(h, f, B), NEW s \in SUBSET (A \cap B)
  PROVE  g[s] = h[s]
<1> DEFINE Bad == {t \in SUBSET (A \cap B) : g[t] # h[t]}
<1>1. SUFFICES ASSUME Bad # {} PROVE FALSE
  OBVIOUS
<1>2. Bad \subseteq FiniteSubsetsOf(A)
  BY FS_Subset DEF FiniteSubsetsOf
<1>3. PICK t \in Bad : \A U \in SUBSET t : U # t => U \notin Bad
  <2> HIDE DEF Bad
  <2> QED
    BY <1>1, <1>2, SmallestFiniteSet
<1>4. /\ g[t] = IF t = {} THEN 0 ELSE f[Pick(t)] + g[t \ {Pick(t)}]
      /\ h[t] = IF t = {} THEN 0 ELSE f[Pick(t)] + h[t \ {Pick(t)}]
  BY DEF IsSum
<1>5. t # {} /\ g[t \ {Pick(t)}] = h[t \ {Pick(t)}]
  <2>1. t # {}
    BY <1>4
  <2>2. t \ {Pick(t)} \in SUBSET t /\ t \ {Pick(t)} # t
    BY <2>1, PickIn
  <2> QED
    BY <1>3, <2>1, <2>2
<1> QED
  BY <1>4, <1>5

\* The partial sums there are, over a finite set.
LEMMA SumsExist ==
  ASSUME NEW f, NEW S, IsFiniteSet(S)
  PROVE  IsSum(CHOOSE g : IsSum(g, f, S), f, S)
<1> DEFINE Bad == {T \in SUBSET S : ~ \E g : IsSum(g, f, T)}
<1>1. SUFFICES ASSUME Bad # {} PROVE FALSE
  <2>1. S \notin Bad
    BY <1>1
  <2>2. \E g : IsSum(g, f, S)
    BY <2>1
  <2> QED
    BY <2>2
<1>2. Bad \subseteq FiniteSubsetsOf(S)
  BY FS_Subset DEF FiniteSubsetsOf
<1>3. PICK T \in Bad : \A U \in SUBSET T : U # T => U \notin Bad
  <2> HIDE DEF Bad
  <2> QED
    BY <1>1, <1>2, SmallestFiniteSet
<1> DEFINE V(s) == (CHOOSE g : IsSum(g, f, s))[s]
           total == [s \in SUBSET T |-> IF s = {} THEN 0 ELSE f[Pick(s)] + V(s \ {Pick(s)})]
<1>4. ASSUME NEW U \in SUBSET T, U # T
      PROVE  IsSum(CHOOSE g : IsSum(g, f, U), f, U)
  <2>1. U \notin Bad
    BY <1>3, <1>4
  <2>2. \E g : IsSum(g, f, U)
    BY <2>1
  <2> QED
    BY <2>2
<1>5. ASSUME NEW U \in SUBSET T, U # T
      PROVE  V(U) = total[U]
  <2> DEFINE g == CHOOSE g : IsSum(g, f, U)
             p == Pick(U)
             h == CHOOSE h : IsSum(h, f, U \ {p})
  <2>1. IsSum(g, f, U)
    BY <1>4, <1>5
  <2>2. V(U) = IF U = {} THEN 0 ELSE f[p] + g[U \ {p}]
    BY <2>1 DEF IsSum
  <2>3. ASSUME U # {} PROVE g[U \ {p}] = V(U \ {p})
    <3>1. U \ {p} \in SUBSET T /\ U \ {p} # T
      BY <1>5
    <3>2. IsSum(h, f, U \ {p})
      BY <1>4, <3>1
    <3>3. IsFiniteSet(U)
      BY FS_Subset
    <3>4. g[U \ {p}] = h[U \ {p}]
      <4> HIDE DEF g, h, p
      <4> QED
        BY <2>1, <3>2, <3>3, SumsAgree
    <3> QED
      BY <3>4
  <2> QED
    BY <2>2, <2>3
<1>6. \A s \in SUBSET T : s # {} => s \ {Pick(s)} \in SUBSET T /\ s \ {Pick(s)} # T
  BY PickIn
<1>7. IsSum(total, f, T)
  <2>1. \A s \in SUBSET T : s # {} => V(s \ {Pick(s)}) = total[s \ {Pick(s)}]
    <3> HIDE DEF V, total
    <3> QED
      BY <1>5, <1>6
  <2>2. total = [s \in SUBSET T |-> IF s = {} THEN 0 ELSE f[Pick(s)] + total[s \ {Pick(s)}]]
    <3> HIDE DEF V
    <3> QED
      BY <2>1
  <2> QED
    BY <2>2 DEF IsSum
<1> QED
  BY <1>3, <1>7

\* A sum over no element is zero; over more, it is the value of the element
\* taken first and the sum over the others.
LEMMA SumFirst ==
  ASSUME NEW f, NEW S, IsFiniteSet(S)
  PROVE  /\ S = {} => SumFunctionOnSet(f, S) = 0
         /\ S # {} => SumFunctionOnSet(f, S) = f[Pick(S)] + SumFunctionOnSet(f, S \ {Pick(S)})
<1> DEFINE g == CHOOSE g : IsSum(g, f, S)
           U == S \ {Pick(S)}
           h == CHOOSE h : IsSum(h, f, U)
<1>1. IsSum(g, f, S)
  BY SumsExist
<1>2. IsFiniteSet(U)
  BY FS_Subset
<1>3. IsSum(h, f, U)
  <2> HIDE DEF U
  <2> QED
    BY <1>2, SumsExist
<1>4. g[U] = h[U]
  <2>1. U \in SUBSET (S \cap U)
    OBVIOUS
  <2> HIDE DEF g, h, U
  <2> QED
    BY <1>1, <1>3, <2>1, SumsAgree
<1>5. g[S] = IF S = {} THEN 0 ELSE f[Pick(S)] + g[U]
  <2> HIDE DEF g
  <2> QED
    BY <1>1 DEF IsSum
<1>6. SumFunctionOnSet(f, S) = g[S] /\ SumFunctionOnSet(f, U) = h[U]
  BY SumIs
<1> QED
  BY <1>4, <1>5, <1>6

\* The sum of integers is one, and that of naturals is natural.
THEOREM SumInt ==
  ASSUME NEW f, NEW S, IsFiniteSet(S), \A x \in S : f[x] \in Int
  PROVE  SumFunctionOnSet(f, S) \in Int
<1> DEFINE Bad == {T \in SUBSET S : SumFunctionOnSet(f, T) \notin Int}
<1>1. SUFFICES ASSUME Bad # {} PROVE FALSE
  <2>1. S \notin Bad
    BY <1>1
  <2> QED
    BY <2>1
<1>2. Bad \subseteq FiniteSubsetsOf(S)
  BY FS_Subset DEF FiniteSubsetsOf
<1>3. PICK T \in Bad : \A U \in SUBSET T : U # T => U \notin Bad
  <2> HIDE DEF Bad
  <2> QED
    BY <1>1, <1>2, SmallestFiniteSet
<1>4. IsFiniteSet(T)
  BY FS_Subset
<1>5. T # {}
  <2>1. T = {} => SumFunctionOnSet(f, T) = 0
    BY <1>4, SumFirst
  <2>2. SumFunctionOnSet(f, T) # 0
    BY <1>3
  <2> QED
    BY <2>1, <2>2
<1>6. Pick(T) \in T /\ T \ {Pick(T)} \in SUBSET S /\ T \ {Pick(T)} # T
  BY <1>5, PickIn
<1>7. SumFunctionOnSet(f, T \ {Pick(T)}) \in Int
  BY <1>3, <1>6
<1>8. f[Pick(T)] \in Int
  BY <1>6
<1>9. SumFunctionOnSet(f, T) = f[Pick(T)] + SumFunctionOnSet(f, T \ {Pick(T)})
  BY <1>4, <1>5, SumFirst
<1>10. SumFunctionOnSet(f, T) \in Int
  BY <1>7, <1>8, <1>9
<1> QED
  BY <1>10

\* Functions that agree on a set have the same sum over it.
THEOREM SumSame ==
  ASSUME NEW f, NEW g, NEW S, IsFiniteSet(S), \A x \in S : f[x] = g[x]
  PROVE  SumFunctionOnSet(f, S) = SumFunctionOnSet(g, S)
<1> DEFINE Bad == {T \in SUBSET S : SumFunctionOnSet(f, T) # SumFunctionOnSet(g, T)}
<1>1. SUFFICES ASSUME Bad # {} PROVE FALSE
  <2>1. S \notin Bad
    BY <1>1
  <2> QED
    BY <2>1
<1>2. Bad \subseteq FiniteSubsetsOf(S)
  BY FS_Subset DEF FiniteSubsetsOf
<1>3. PICK T \in Bad : \A U \in SUBSET T : U # T => U \notin Bad
  <2> HIDE DEF Bad
  <2> QED
    BY <1>1, <1>2, SmallestFiniteSet
<1>4. IsFiniteSet(T)
  BY FS_Subset
<1>5. T # {}
  BY <1>3, <1>4, SumFirst
<1>6. Pick(T) \in T /\ T \ {Pick(T)} \in SUBSET S /\ T \ {Pick(T)} # T
  BY <1>5, PickIn
<1>7. SumFunctionOnSet(f, T \ {Pick(T)}) = SumFunctionOnSet(g, T \ {Pick(T)})
  BY <1>3, <1>6
<1>8. f[Pick(T)] = g[Pick(T)]
  BY <1>6
<1>9. /\ SumFunctionOnSet(f, T) = f[Pick(T)] + SumFunctionOnSet(f, T \ {Pick(T)})
      /\ SumFunctionOnSet(g, T) = g[Pick(T)] + SumFunctionOnSet(g, T \ {Pick(T)})
  BY <1>4, <1>5, SumFirst
<1> QED
  BY <1>3, <1>7, <1>8, <1>9

\* Any element may be taken first.
THEOREM SumWithout ==
  ASSUME NEW f, NEW S, IsFiniteSet(S), \A x \in S : f[x] \in Int, NEW e \in S
  PROVE  SumFunctionOnSet(f, S) = f[e] + SumFunctionOnSet(f, S \ {e})
<1> DEFINE Fits(T) == \A x \in T :
             SumFunctionOnSet(f, T) = f[x] + SumFunctionOnSet(f, T \ {x})
           Bad == {T \in SUBSET S : ~Fits(T)}
<1>1. SUFFICES ASSUME Bad # {} PROVE FALSE
  <2>1. S \notin Bad
    BY <1>1
  <2> QED
    BY <2>1
<1>2. Bad \subseteq FiniteSubsetsOf(S)
  BY FS_Subset DEF FiniteSubsetsOf
<1>3. PICK T \in Bad : \A U \in SUBSET T : U # T => U \notin Bad
  <2> HIDE DEF Bad
  <2> QED
    BY <1>1, <1>2, SmallestFiniteSet
<1>4. ASSUME NEW U \in SUBSET T, U # T, NEW x \in U
      PROVE  SumFunctionOnSet(f, U) = f[x] + SumFunctionOnSet(f, U \ {x})
  <2>1. U \notin Bad /\ U \in SUBSET S
    BY <1>3, <1>4
  <2> QED
    BY <2>1
<1>5. ASSUME NEW U \in SUBSET S
      PROVE  IsFiniteSet(U) /\ SumFunctionOnSet(f, U) \in Int
  <2>1. IsFiniteSet(U)
    BY FS_Subset
  <2> QED
    BY <2>1, SumInt
<1>6. ASSUME NEW x \in T
      PROVE  SumFunctionOnSet(f, T) = f[x] + SumFunctionOnSet(f, T \ {x})
  <2> DEFINE p == Pick(T)
  <2>1. p \in T /\ p \in S /\ x \in S
    BY PickIn
  <2>2. SumFunctionOnSet(f, T) = f[p] + SumFunctionOnSet(f, T \ {p})
    BY <1>5, SumFirst
  <2>3. CASE x = p
    BY <2>2, <2>3
  <2>4. CASE x # p
    <3> HIDE DEF p
    <3>1. /\ T \ {p} \in SUBSET T /\ T \ {p} # T /\ x \in T \ {p}
          /\ T \ {x} \in SUBSET T /\ T \ {x} # T /\ p \in T \ {x}
          /\ (T \ {x}) \ {p} = (T \ {p}) \ {x}
      BY <2>1, <2>4
    <3>2. SumFunctionOnSet(f, T \ {p}) = f[x] + SumFunctionOnSet(f, (T \ {p}) \ {x})
      BY <1>4, <3>1
    <3>3. SumFunctionOnSet(f, T \ {x}) = f[p] + SumFunctionOnSet(f, (T \ {x}) \ {p})
      BY <1>4, <3>1
    <3>4. SumFunctionOnSet(f, (T \ {p}) \ {x}) \in Int
      <4>1. (T \ {p}) \ {x} \in SUBSET S
        OBVIOUS
      <4> QED
        BY <1>5, <4>1
    <3>5. f[x] \in Int /\ f[p] \in Int
      BY <2>1
    <3>6. ASSUME NEW total \in Int, NEW fp \in Int, NEW fx \in Int,
                 NEW withoutP, NEW withoutX, NEW rest \in Int,
                 total = fp + withoutP, withoutP = fx + rest, withoutX = fp + rest
          PROVE  total = fx + withoutX
      BY <3>6
    <3>7. SumFunctionOnSet(f, T \ {x}) = f[p] + SumFunctionOnSet(f, (T \ {p}) \ {x})
      BY <3>1, <3>3
    <3>8. SumFunctionOnSet(f, T) \in Int
      BY <1>5
    <3> QED
      BY <2>2, <3>2, <3>4, <3>5, <3>6, <3>7, <3>8
  <2> QED
    BY <2>3, <2>4
<1> QED
  BY <1>3, <1>6

\* One value that changes changes the sum by the difference.
THEOREM SumChange ==
  ASSUME NEW f, NEW g, NEW S, IsFiniteSet(S), NEW e \in S,
         \A x \in S : f[x] \in Int /\ g[x] \in Int,
         \A x \in S \ {e} : f[x] = g[x]
  PROVE  SumFunctionOnSet(g, S) = SumFunctionOnSet(f, S) + (g[e] - f[e])
<1>1. IsFiniteSet(S \ {e})
  BY FS_Subset
<1>2. SumFunctionOnSet(f, S \ {e}) = SumFunctionOnSet(g, S \ {e})
  BY <1>1, SumSame
<1>3. SumFunctionOnSet(f, S \ {e}) \in Int
  BY <1>1, SumInt
<1>4. /\ SumFunctionOnSet(f, S) = f[e] + SumFunctionOnSet(f, S \ {e})
      /\ SumFunctionOnSet(g, S) = g[e] + SumFunctionOnSet(g, S \ {e})
  BY SumWithout
<1>5. f[e] \in Int /\ g[e] \in Int
  OBVIOUS
<1> QED
  BY <1>2, <1>3, <1>4, <1>5

\* A sum is no more than that of larger values.
THEOREM SumMonotonic ==
  ASSUME NEW f, NEW g, NEW S, IsFiniteSet(S),
         \A x \in S : f[x] \in Int /\ g[x] \in Int /\ f[x] <= g[x]
  PROVE  SumFunctionOnSet(f, S) <= SumFunctionOnSet(g, S)
<1> DEFINE Bad == {T \in SUBSET S : ~(SumFunctionOnSet(f, T) <= SumFunctionOnSet(g, T))}
<1>1. SUFFICES ASSUME Bad # {} PROVE FALSE
  <2>1. S \notin Bad
    BY <1>1
  <2> QED
    BY <2>1
<1>2. Bad \subseteq FiniteSubsetsOf(S)
  BY FS_Subset DEF FiniteSubsetsOf
<1>3. PICK T \in Bad : \A U \in SUBSET T : U # T => U \notin Bad
  <2> HIDE DEF Bad
  <2> QED
    BY <1>1, <1>2, SmallestFiniteSet
<1>4. IsFiniteSet(T)
  BY FS_Subset
<1>5. T # {}
  <2>1. SUFFICES ASSUME T = {} PROVE FALSE
    OBVIOUS
  <2>2. SumFunctionOnSet(f, T) = 0 /\ SumFunctionOnSet(g, T) = 0
    BY <1>4, <2>1, SumFirst
  <2>3. 0 <= 0
    OBVIOUS
  <2> QED
    BY <1>3, <2>2, <2>3
<1> DEFINE p == Pick(T)
<1>6. p \in T /\ T \ {p} \in SUBSET S /\ T \ {p} # T
  BY <1>5, PickIn
<1>7. SumFunctionOnSet(f, T \ {p}) <= SumFunctionOnSet(g, T \ {p})
  BY <1>3, <1>6
<1>8. f[p] \in Int /\ g[p] \in Int /\ f[p] <= g[p]
  BY <1>6
<1>9. /\ SumFunctionOnSet(f, T) = f[p] + SumFunctionOnSet(f, T \ {p})
      /\ SumFunctionOnSet(g, T) = g[p] + SumFunctionOnSet(g, T \ {p})
  BY <1>4, <1>5, SumFirst
<1>10. SumFunctionOnSet(f, T \ {p}) \in Int /\ SumFunctionOnSet(g, T \ {p}) \in Int
  <2>1. IsFiniteSet(T \ {p})
    BY <1>6, FS_Subset
  <2>2. \A x \in T \ {p} : f[x] \in Int /\ g[x] \in Int
    BY <1>6
  <2> HIDE DEF p
  <2> QED
    BY <2>1, <2>2, SumInt
<1>11. SumFunctionOnSet(f, T) <= SumFunctionOnSet(g, T)
  <2> HIDE DEF p
  <2> QED
    BY <1>7, <1>8, <1>9, <1>10
<1> QED
  BY <1>3, <1>11

\* A sum over no value but zero is zero.
THEOREM SumZero ==
  ASSUME NEW f, NEW S, IsFiniteSet(S), \A x \in S : f[x] = 0
  PROVE  SumFunctionOnSet(f, S) = 0
<1> DEFINE Bad == {T \in SUBSET S : SumFunctionOnSet(f, T) # 0}
<1>1. SUFFICES ASSUME Bad # {} PROVE FALSE
  <2>1. S \notin Bad
    BY <1>1
  <2> QED
    BY <2>1
<1>2. Bad \subseteq FiniteSubsetsOf(S)
  BY FS_Subset DEF FiniteSubsetsOf
<1>3. PICK T \in Bad : \A U \in SUBSET T : U # T => U \notin Bad
  <2> HIDE DEF Bad
  <2> QED
    BY <1>1, <1>2, SmallestFiniteSet
<1>4. IsFiniteSet(T)
  BY FS_Subset
<1>5. T # {}
  BY <1>3, <1>4, SumFirst
<1>6. Pick(T) \in T /\ T \ {Pick(T)} \in SUBSET S /\ T \ {Pick(T)} # T
  BY <1>5, PickIn
<1>7. SumFunctionOnSet(f, T \ {Pick(T)}) = 0 /\ f[Pick(T)] = 0
  BY <1>3, <1>6
<1>8. SumFunctionOnSet(f, T) = f[Pick(T)] + SumFunctionOnSet(f, T \ {Pick(T)})
  BY <1>4, <1>5, SumFirst
<1> QED
  BY <1>3, <1>7, <1>8

\* The sum over two sets apart is the sum of their sums.
THEOREM SumUnion ==
  ASSUME NEW f, NEW A, NEW B, IsFiniteSet(A), IsFiniteSet(B), A \cap B = {},
         \A x \in A \cup B : f[x] \in Int
  PROVE  SumFunctionOnSet(f, A \cup B) = SumFunctionOnSet(f, A) + SumFunctionOnSet(f, B)
<1> DEFINE Bad == {T \in SUBSET B :
                     SumFunctionOnSet(f, A \cup T) # SumFunctionOnSet(f, A) + SumFunctionOnSet(f, T)}
<1>1. SUFFICES ASSUME Bad # {} PROVE FALSE
  <2>1. B \notin Bad
    BY <1>1
  <2> QED
    BY <2>1
<1>2. Bad \subseteq FiniteSubsetsOf(B)
  BY FS_Subset DEF FiniteSubsetsOf
<1>3. PICK T \in Bad : \A U \in SUBSET T : U # T => U \notin Bad
  <2> HIDE DEF Bad
  <2> QED
    BY <1>1, <1>2, SmallestFiniteSet
<1>4. IsFiniteSet(T) /\ IsFiniteSet(A \cup T)
  BY FS_Subset, FS_Union
<1>5. /\ SumFunctionOnSet(f, A) \in Int
      /\ \A x \in A : f[x] \in Int
      /\ \A x \in T : f[x] \in Int
  BY SumInt
<1>6. T # {}
  <2>1. SUFFICES ASSUME T = {} PROVE FALSE
    OBVIOUS
  <2>2. SumFunctionOnSet(f, T) = 0 /\ A \cup T = A
    BY <1>4, <2>1, SumFirst
  <2>3. SumFunctionOnSet(f, A) = SumFunctionOnSet(f, A) + 0
    BY <1>5
  <2> QED
    BY <1>3, <2>2, <2>3
<1>7. PICK e \in T : TRUE
  BY <1>6
<1>8. /\ T \ {e} \in SUBSET T /\ T \ {e} # T /\ T \ {e} \in SUBSET B
      /\ A \cup (T \ {e}) = (A \cup T) \ {e} /\ e \in A \cup T
  BY <1>7
<1>9. SumFunctionOnSet(f, A \cup (T \ {e}))
        = SumFunctionOnSet(f, A) + SumFunctionOnSet(f, T \ {e})
  BY <1>3, <1>8
<1>10. /\ SumFunctionOnSet(f, T) = f[e] + SumFunctionOnSet(f, T \ {e})
       /\ SumFunctionOnSet(f, A \cup T) = f[e] + SumFunctionOnSet(f, (A \cup T) \ {e})
  <2>1. \A x \in A \cup T : f[x] \in Int
    BY <1>5
  <2> QED
    BY <1>4, <1>5, <1>7, <1>8, <2>1, SumWithout
<1>11. f[e] \in Int /\ SumFunctionOnSet(f, T \ {e}) \in Int
  <2>1. IsFiniteSet(T \ {e}) /\ \A x \in T \ {e} : f[x] \in Int
    BY <1>4, <1>5, FS_Subset
  <2> QED
    BY <1>5, <1>7, <2>1, SumInt
<1>12. SumFunctionOnSet(f, A \cup T) = SumFunctionOnSet(f, A) + SumFunctionOnSet(f, T)
  <2>1. SumFunctionOnSet(f, (A \cup T) \ {e})
          = SumFunctionOnSet(f, A) + SumFunctionOnSet(f, T \ {e})
    BY <1>8, <1>9
  <2>2. \A a, t, v \in Int : v + (a + t) = a + (v + t)
    OBVIOUS
  <2> QED
    BY <1>5, <1>10, <1>11, <2>1, <2>2
<1> QED
  BY <1>3, <1>12

\* A sum of natural numbers is one, and no less than that over a part of the set.
THEOREM SumPart ==
  ASSUME NEW f, NEW S, IsFiniteSet(S), \A x \in S : f[x] \in Nat, NEW T \in SUBSET S
  PROVE  /\ SumFunctionOnSet(f, T) \in Nat /\ SumFunctionOnSet(f, S) \in Nat
         /\ SumFunctionOnSet(f, T) <= SumFunctionOnSet(f, S)
<1>1. ASSUME NEW U \in SUBSET S PROVE SumFunctionOnSet(f, U) \in Nat
  <2> DEFINE zero == [x \in U |-> 0]
  <2>1. IsFiniteSet(U) /\ \A x \in U : f[x] \in Nat /\ zero[x] = 0
    BY FS_Subset
  <2> HIDE DEF zero
  <2>2. \A x \in U : f[x] \in Int /\ zero[x] \in Int /\ zero[x] <= f[x]
    BY <2>1
  <2>3. SumFunctionOnSet(zero, U) = 0
    BY <2>1, SumZero
  <2>4. SumFunctionOnSet(zero, U) <= SumFunctionOnSet(f, U)
    BY <2>1, <2>2, SumMonotonic
  <2>5. SumFunctionOnSet(f, U) \in Int
    BY <2>1, <2>2, SumInt
  <2> QED
    BY <2>3, <2>4, <2>5
<1>2. SumFunctionOnSet(f, S) = SumFunctionOnSet(f, T) + SumFunctionOnSet(f, S \ T)
  <2>1. IsFiniteSet(T) /\ IsFiniteSet(S \ T) /\ T \cap (S \ T) = {} /\ T \cup (S \ T) = S
    BY FS_Subset
  <2>2. \A x \in S : f[x] \in Int
    OBVIOUS
  <2> QED
    BY <2>1, <2>2, SumUnion
<1>3. SumFunctionOnSet(f, T) \in Nat /\ SumFunctionOnSet(f, S \ T) \in Nat
  BY <1>1
<1> QED
  BY <1>2, <1>3

\* The elements whose key is counted, and those of one key.
Keyed(L, key, V) == {x \in L : key[x] \in V}
OneKey(L, key, u) == {x \in L : key[x] = u}

\* The values of a finite set, added up by a key, are those of all elements
\* whose key is counted.
THEOREM SumGrouped ==
  ASSUME NEW f, NEW L, IsFiniteSet(L), \A x \in L : f[x] \in Int,
         NEW key, NEW U, IsFiniteSet(U),
         NEW g, \A u \in U : g[u] = SumFunctionOnSet(f, OneKey(L, key, u))
  PROVE  SumFunctionOnSet(g, U) = SumFunctionOnSet(f, Keyed(L, key, U))
<1> DEFINE Bad == {V \in SUBSET U : SumFunctionOnSet(g, V) # SumFunctionOnSet(f, Keyed(L, key, V))}
<1>1. SUFFICES ASSUME Bad # {} PROVE FALSE
  <2>1. U \notin Bad
    BY <1>1
  <2> QED
    BY <2>1
<1>2. Bad \subseteq FiniteSubsetsOf(U)
  BY FS_Subset DEF FiniteSubsetsOf
<1>3. PICK V \in Bad : \A W \in SUBSET V : W # V => W \notin Bad
  <2> HIDE DEF Bad
  <2> QED
    BY <1>1, <1>2, SmallestFiniteSet
<1>4. V \in SUBSET U /\ SumFunctionOnSet(g, V) # SumFunctionOnSet(f, Keyed(L, key, V)) /\ IsFiniteSet(V)
  BY FS_Subset
<1>5. \A u \in U : g[u] \in Int
  <2> SUFFICES ASSUME NEW u \in U PROVE g[u] \in Int
    OBVIOUS
  <2>1. OneKey(L, key, u) \subseteq L /\ IsFiniteSet(OneKey(L, key, u))
    BY FS_Subset DEF Keyed, OneKey
  <2> QED
    BY <2>1, SumInt
<1>6. V # {}
  <2>1. SUFFICES ASSUME V = {} PROVE FALSE
    BY DEF Keyed, OneKey
  <2>2. Keyed(L, key, V) = {} /\ IsFiniteSet(Keyed(L, key, V))
    BY <2>1, FS_EmptySet DEF Keyed, OneKey
  <2> QED
    BY <1>4, <2>1, <2>2, SumFirst
<1>7. PICK e \in V : TRUE
  BY <1>6
<1>8. SumFunctionOnSet(g, V) = g[e] + SumFunctionOnSet(g, V \ {e})
  BY <1>4, <1>5, <1>7, SumWithout
<1>9. SumFunctionOnSet(g, V \ {e}) = SumFunctionOnSet(f, Keyed(L, key, V \ {e}))
  BY <1>3, <1>7
<1> DEFINE One == OneKey(L, key, e)
           Rest == Keyed(L, key, V \ {e})
<1>10. IsFiniteSet(One) /\ IsFiniteSet(Rest) /\ One \cap Rest = {} /\ Keyed(L, key, V) = One \cup Rest
       /\ One \subseteq L /\ Rest \subseteq L
  <2>1. One \subseteq L /\ Rest \subseteq L /\ One \cap Rest = {}
    BY DEF Keyed, OneKey
  <2>2. Keyed(L, key, V) = One \cup Rest
    BY <1>7 DEF Keyed, OneKey
  <2> QED
    BY <2>1, <2>2, FS_Subset
<1>11. g[e] = SumFunctionOnSet(f, One)
  BY <1>4, <1>7
<1> HIDE DEF One, Rest, Bad
<1>12. SumFunctionOnSet(f, One \cup Rest) = SumFunctionOnSet(f, One) + SumFunctionOnSet(f, Rest)
  BY <1>10, SumUnion
<1> QED
  BY <1>4, <1>8, <1>9, <1>10, <1>11, <1>12 DEF Rest

\* No part of the values adds up to more than those that are positive.
THEOREM SumPositive ==
  ASSUME NEW f, NEW S, IsFiniteSet(S), \A x \in S : f[x] \in Int, NEW A \in SUBSET S
  PROVE  SumFunctionOnSet(f, A) <= SumFunctionOnSet(f, {x \in S : f[x] > 0})
<1> DEFINE P == {x \in S : f[x] > 0}
           Gain == A \cap P
           Loss == A \ P
           zero == [x \in Loss |-> 0]
<1>1. /\ IsFiniteSet(P) /\ IsFiniteSet(Gain) /\ IsFiniteSet(Loss)
      /\ Gain \cap Loss = {} /\ A = Gain \cup Loss /\ Gain \in SUBSET P
      /\ Gain \subseteq S /\ Loss \subseteq S /\ P \subseteq S
  BY FS_Subset
<1>2. \A x \in P : f[x] \in Nat
  OBVIOUS
<1>3. \A x \in Loss : f[x] \in Int /\ zero[x] = 0 /\ zero[x] \in Int /\ f[x] <= zero[x]
  OBVIOUS
<1> HIDE DEF P, Gain, Loss, zero
<1>4. SumFunctionOnSet(f, A) = SumFunctionOnSet(f, Gain) + SumFunctionOnSet(f, Loss)
  BY <1>1, SumUnion
<1>5. SumFunctionOnSet(f, Loss) <= SumFunctionOnSet(zero, Loss)
  BY <1>1, <1>3, SumMonotonic
<1>6. SumFunctionOnSet(zero, Loss) = 0
  BY <1>1, <1>3, SumZero
<1>7. /\ SumFunctionOnSet(f, Gain) \in Nat /\ SumFunctionOnSet(f, P) \in Nat
      /\ SumFunctionOnSet(f, Gain) <= SumFunctionOnSet(f, P)
  BY <1>1, <1>2, SumPart
<1>8. SumFunctionOnSet(f, Loss) \in Int
  BY <1>1, <1>3, SumInt
<1> QED
  BY <1>4, <1>5, <1>6, <1>7, <1>8 DEF P
===============================================================================
