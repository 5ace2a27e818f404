-------------------------------- MODULE Sums --------------------------------
(***************************************************************************)
(* Least elements, and what SumFunctionOnSet computes: a sum that depends on *)
(* no order. The induction is by a smallest counterexample, since a theorem *)
(* about a predicate cannot be instantiated by the provers.                  *)
(***************************************************************************)
EXTENDS Integers, SequencesExt, FiniteSetTheorems, WellFoundedInduction, TLAPS

\* A set of naturals has a least element.
LEMMA LeastNat ==
  ASSUME NEW B \in SUBSET Nat, B # {}
  PROVE  \E m \in B : \A k \in B : m <= k
<1> DEFINE R == {ss \in Nat \X Nat : ss[1] < ss[2]}
<1>1. IsWellFoundedOn(R, Nat)
  BY NatLessThanWellFounded DEF OpToRel
<1>2. PICK m \in B : \A k \in B : <<k, m>> \notin R
  BY <1>1, WFMin
<1>3. \A k \in B : ~(k < m)
  BY <1>2
<1>4. QED
  BY <1>3


\* A family of finite sets has a smallest one.
LEMMA LeastSet ==
  ASSUME NEW D, IsFiniteSet(D), NEW B \in SUBSET SUBSET D, B # {}
  PROVE  \E T \in B : \A U \in SUBSET D : Cardinality(U) < Cardinality(T) => U \notin B
<1> DEFINE N == {Cardinality(T) : T \in B}
<1>1. ASSUME NEW T \in SUBSET D PROVE Cardinality(T) \in Nat
  BY FS_Subset, FS_CardinalityType
<1>2. N \in SUBSET Nat /\ N # {}
  BY <1>1
<1>3. PICK m \in N : \A k \in N : m <= k
  <2> HIDE DEF N
  <2> QED BY <1>2, LeastNat
<1>4. PICK T \in B : m = Cardinality(T)
  BY <1>3
<1>5. ASSUME NEW U \in B, Cardinality(U) < Cardinality(T) PROVE FALSE
  <2>1. Cardinality(U) \in N /\ Cardinality(U) \in Nat /\ Cardinality(T) \in Nat
    BY <1>1
  <2>2. m <= Cardinality(U)
    BY <1>3, <2>1
  <2> QED BY <1>4, <1>5, <2>1, <2>2
<1>6. QED
  BY <1>5

\* The recursive function inside SumFunctionOnSet.
SumsUp(f, D, g) ==
  \A T \in SUBSET D :
    g[T] = IF T = {} THEN 0 ELSE f[CHOOSE x \in T : TRUE] + g[T \ {CHOOSE x \in T : TRUE}]

Summing(f, D) ==
  CHOOSE g : g = [T \in SUBSET D |->
    IF T = {} THEN 0 ELSE f[CHOOSE x \in T : TRUE] + g[T \ {CHOOSE x \in T : TRUE}]]

LEMMA SumIs ==
  ASSUME NEW f, NEW D
  PROVE  SumFunctionOnSet(f, D) = Summing(f, D)[D]
  BY DEF SumFunctionOnSet, FoldFunctionOnSet, MapThenFoldSet, Summing

LEMMA ChosenOne ==
  ASSUME NEW D, IsFiniteSet(D), NEW T \in SUBSET D, T # {}, NEW x \in T
  PROVE  /\ (CHOOSE y \in T : TRUE) \in T
         /\ T \ {x} \in SUBSET D /\ Cardinality(T \ {x}) = Cardinality(T) - 1
         /\ Cardinality(T) \in Nat \ {0} /\ IsFiniteSet(T)
<1>1. IsFiniteSet(T)
  BY FS_Subset
<1>2. Cardinality(T) \in Nat /\ Cardinality(T) # 0
  BY <1>1, FS_CardinalityType, FS_EmptySet
<1>3. Cardinality(T \ {x}) = Cardinality(T) - 1
  BY <1>1, FS_RemoveElement
<1>4. QED
  BY <1>1, <1>2, <1>3

LEMMA SummingExists ==
  ASSUME NEW f, NEW D, IsFiniteSet(D)
  PROVE  \E g : g = [T \in SUBSET D |-> g[T]] /\ SumsUp(f, D, g)
<1> DEFINE c(T) == CHOOSE x \in T : TRUE
           Up(g, T) == g[T] = IF T = {} THEN 0 ELSE f[c(T)] + g[T \ {c(T)}]
           Good(n) == \E g : /\ g = [T \in SUBSET D |-> g[T]]
                             /\ \A T \in SUBSET D : Cardinality(T) <= n => Up(g, T)
           B == {n \in Nat : ~Good(n)}
<1>1. ASSUME NEW T \in SUBSET D PROVE Cardinality(T) \in Nat
  BY FS_Subset, FS_CardinalityType
<1>2. B = {}
  <2> SUFFICES ASSUME B # {} PROVE FALSE
    OBVIOUS
  <2>1. PICK m \in B : \A j \in B : m <= j
    <3>1. B \in SUBSET Nat
      OBVIOUS
    <3> HIDE DEF B
    <3> QED BY <3>1, LeastNat
  <2>2. CASE m = 0
    <3> DEFINE g == [T \in SUBSET D |-> 0]
    <3>1. ASSUME NEW T \in SUBSET D, Cardinality(T) <= 0 PROVE Up(g, T)
      <4>1. T = {}
        BY <1>1, <3>1, FS_Subset, FS_EmptySet
      <4> QED BY <4>1
    <3>2. g = [T \in SUBSET D |-> g[T]]
      OBVIOUS
    <3> HIDE DEF g, Up
    <3> QED BY <2>1, <2>2, <3>1, <3>2
  <2>3. CASE m # 0
    <3>1. m - 1 \in Nat /\ Good(m - 1)
      <4> HIDE DEF Good
      <4>1. m - 1 \in Nat /\ ~(m <= m - 1)
        BY <2>1, <2>3
      <4> QED BY <2>1, <4>1
    <3>2. PICK h : /\ h = [T \in SUBSET D |-> h[T]]
                   /\ \A T \in SUBSET D : Cardinality(T) <= m - 1 => Up(h, T)
      BY <3>1
    <3> DEFINE g == [T \in SUBSET D |-> IF Cardinality(T) <= m - 1 THEN h[T]
                                        ELSE f[c(T)] + h[T \ {c(T)}]]
    <3>3. ASSUME NEW T \in SUBSET D, Cardinality(T) <= m PROVE Up(g, T)
      <4>1. CASE T = {}
        <5>1. Cardinality(T) <= m - 1
          BY <3>1, <4>1, FS_EmptySet
        <5>2. g[T] = h[T] /\ Up(h, T)
          BY <3>2, <5>1
        <5> QED BY <4>1, <5>2
      <4>2. CASE T # {}
        <5>1. /\ c(T) \in T /\ T \ {c(T)} \in SUBSET D
              /\ Cardinality(T \ {c(T)}) = Cardinality(T) - 1 /\ Cardinality(T) \in Nat
          <6>1. c(T) \in T
            BY <4>2
          <6> HIDE DEF c
          <6> QED BY <4>2, <6>1, ChosenOne
        <5>2. Cardinality(T \ {c(T)}) <= m - 1
          BY <2>1, <3>3, <5>1
        <5>3. g[T \ {c(T)}] = h[T \ {c(T)}]
          <6> HIDE DEF c
          <6> QED BY <5>1, <5>2
        <5>4. CASE Cardinality(T) <= m - 1
          <6>1. g[T] = h[T] /\ Up(h, T)
            BY <3>2, <5>4
          <6> HIDE DEF c, g
          <6> QED BY <4>2, <5>3, <6>1
        <5>5. CASE ~(Cardinality(T) <= m - 1)
          <6>1. g[T] = f[c(T)] + h[T \ {c(T)}]
            BY <5>5
          <6> HIDE DEF c, g
          <6> QED BY <4>2, <5>3, <6>1
        <5> QED BY <5>4, <5>5
      <4> QED BY <4>1, <4>2
    <3>4. g = [T \in SUBSET D |-> g[T]]
      OBVIOUS
    <3> HIDE DEF g, Up
    <3>5. Good(m)
      BY <3>3, <3>4
    <3> QED BY <2>1, <3>5
  <2> QED BY <2>2, <2>3
<1>3. PICK n \in Nat : n = Cardinality(D)
  BY FS_CardinalityType
<1>4. Good(n)
  <2> HIDE DEF Good
  <2> QED BY <1>2
<1>5. PICK g : /\ g = [T \in SUBSET D |-> g[T]]
               /\ \A T \in SUBSET D : Cardinality(T) <= n => Up(g, T)
  BY <1>4
<1>6. \A T \in SUBSET D : Cardinality(T) <= n
  BY <1>3, FS_Subset
<1>7. SumsUp(f, D, g)
  BY <1>5, <1>6 DEF SumsUp
<1>8. QED
  BY <1>5, <1>7

LEMMA SummingSums ==
  ASSUME NEW f, NEW D, IsFiniteSet(D)
  PROVE  SumsUp(f, D, Summing(f, D))
<1> DEFINE F(g) == [T \in SUBSET D |->
             IF T = {} THEN 0 ELSE f[CHOOSE x \in T : TRUE] + g[T \ {CHOOSE x \in T : TRUE}]]
<1>1. PICK g : g = [T \in SUBSET D |-> g[T]] /\ SumsUp(f, D, g)
  BY SummingExists
<1>2. g = F(g)
  BY <1>1 DEF SumsUp
<1>3. Summing(f, D) = F(Summing(f, D))
  BY <1>2, Zenon DEF Summing
<1> DEFINE G == Summing(f, D)
<1>4. G = F(G)
  BY <1>3
<1> HIDE DEF G
<1>5. SumsUp(f, D, G)
  BY <1>4 DEF SumsUp
<1>6. QED
  BY <1>5 DEF G

\* The recursive function sums every subset, and every superset of it agrees.
LEMMA SummingSubset ==
  ASSUME NEW f, NEW D, IsFiniteSet(D), NEW g, SumsUp(f, D, g), NEW S \in SUBSET D
  PROVE  g[S] = SumFunctionOnSet(f, S)
<1> DEFINE h == Summing(f, S)
           B == {T \in SUBSET S : g[T] # h[T]}
<1>1. IsFiniteSet(S)
  BY FS_Subset
<1>2. SumsUp(f, S, h)
  BY <1>1, SummingSums
<1>3. SumFunctionOnSet(f, S) = h[S]
  BY SumIs
<1> HIDE DEF h
<1>4. SUFFICES ASSUME B # {} PROVE FALSE
  BY <1>3
<1>5. PICK T \in B : \A U \in SUBSET S : Cardinality(U) < Cardinality(T) => U \notin B
  <2>1. B \in SUBSET SUBSET S
    OBVIOUS
  <2> HIDE DEF B
  <2> QED BY <1>1, <1>4, <2>1, LeastSet
<1>6. T \in SUBSET S /\ T \in SUBSET D /\ g[T] # h[T]
  BY <1>5
<1>7. T # {}
  BY <1>2, <1>6 DEF SumsUp
<1> DEFINE c == CHOOSE x \in T : TRUE
<1>8. c \in T
  BY <1>7
<1>9. g[T] = f[c] + g[T \ {c}] /\ h[T] = f[c] + h[T \ {c}]
  BY <1>2, <1>6, <1>7 DEF SumsUp
<1> HIDE DEF c
<1>10. /\ T \ {c} \in SUBSET S /\ Cardinality(T \ {c}) < Cardinality(T)
  <2>1. /\ T \ {c} \in SUBSET S /\ Cardinality(T \ {c}) = Cardinality(T) - 1
        /\ Cardinality(T) \in Nat \ {0}
    BY <1>1, <1>6, <1>7, <1>8, ChosenOne
  <2> QED BY <2>1
<1>11. g[T \ {c}] = h[T \ {c}]
  BY <1>5, <1>10
<1>12. QED
  BY <1>6, <1>9, <1>11

LEMMA SumStep ==
  ASSUME NEW f, NEW S, IsFiniteSet(S)
  PROVE  /\ S = {} => SumFunctionOnSet(f, S) = 0
         /\ S # {} => \E c \in S : SumFunctionOnSet(f, S) = f[c] + SumFunctionOnSet(f, S \ {c})
<1> DEFINE g == Summing(f, S)
           c == CHOOSE x \in S : TRUE
<1>1. SumsUp(f, S, g)
  BY SummingSums
<1> HIDE DEF g
<1>2. \A T \in SUBSET S : g[T] = SumFunctionOnSet(f, T)
  BY <1>1, SummingSubset
<1>3. S = {} => g[S] = 0
  BY <1>1 DEF SumsUp
<1>4. S # {} => c \in S /\ g[S] = f[c] + g[S \ {c}]
  BY <1>1 DEF SumsUp
<1> HIDE DEF c
<1>5. S \in SUBSET S /\ S \ {c} \in SUBSET S
  OBVIOUS
<1>6. QED
  BY <1>2, <1>3, <1>4, <1>5

LEMMA SumType ==
  ASSUME NEW f, NEW S, IsFiniteSet(S), \A x \in S : f[x] \in Int
  PROVE  SumFunctionOnSet(f, S) \in Int
<1> DEFINE B == {T \in SUBSET S : SumFunctionOnSet(f, T) \notin Int}
<1>1. SUFFICES ASSUME B # {} PROVE FALSE
  OBVIOUS
<1>2. PICK T \in B : \A U \in SUBSET S : Cardinality(U) < Cardinality(T) => U \notin B
  <2>1. B \in SUBSET SUBSET S
    OBVIOUS
  <2> HIDE DEF B
  <2> QED BY <1>1, <2>1, LeastSet
<1>3. T \in SUBSET S /\ SumFunctionOnSet(f, T) \notin Int /\ IsFiniteSet(T)
  BY <1>2, FS_Subset
<1>4. T # {}
  BY <1>3, SumStep
<1>5. PICK c \in T : SumFunctionOnSet(f, T) = f[c] + SumFunctionOnSet(f, T \ {c})
  BY <1>3, <1>4, SumStep
<1>6. T \ {c} \in SUBSET S /\ Cardinality(T \ {c}) < Cardinality(T)
  <2>1. /\ T \ {c} \in SUBSET S /\ Cardinality(T \ {c}) = Cardinality(T) - 1
        /\ Cardinality(T) \in Nat \ {0}
    BY <1>3, <1>4, ChosenOne
  <2> QED BY <2>1
<1>7. SumFunctionOnSet(f, T \ {c}) \in Int
  BY <1>2, <1>6
<1>8. f[c] \in Int
  BY <1>3
<1>9. QED
  BY <1>3, <1>5, <1>7, <1>8

\* A sum of naturals is one.
LEMMA SumNat ==
  ASSUME NEW f, NEW S, IsFiniteSet(S), \A x \in S : f[x] \in Nat
  PROVE  SumFunctionOnSet(f, S) \in Nat
<1> DEFINE B == {T \in SUBSET S : SumFunctionOnSet(f, T) \notin Nat}
<1>1. SUFFICES ASSUME B # {} PROVE FALSE
  OBVIOUS
<1>2. PICK T \in B : \A U \in SUBSET S : Cardinality(U) < Cardinality(T) => U \notin B
  <2>1. B \in SUBSET SUBSET S
    OBVIOUS
  <2> HIDE DEF B
  <2> QED BY <1>1, <2>1, LeastSet
<1>3. T \in SUBSET S /\ SumFunctionOnSet(f, T) \notin Nat /\ IsFiniteSet(T)
  BY <1>2, FS_Subset
<1>4. T # {}
  BY <1>3, SumStep
<1>5. PICK c \in T : SumFunctionOnSet(f, T) = f[c] + SumFunctionOnSet(f, T \ {c})
  BY <1>3, <1>4, SumStep
<1>6. T \ {c} \in SUBSET S /\ Cardinality(T \ {c}) < Cardinality(T)
  <2>1. /\ T \ {c} \in SUBSET S /\ Cardinality(T \ {c}) = Cardinality(T) - 1
        /\ Cardinality(T) \in Nat \ {0}
    BY <1>3, <1>4, ChosenOne
  <2> QED BY <2>1
<1>7. SumFunctionOnSet(f, T \ {c}) \in Nat
  BY <1>2, <1>6
<1>8. f[c] \in Nat
  BY <1>3
<1>9. QED
  BY <1>3, <1>5, <1>7, <1>8

\* Any element may be added last.
LEMMA SumRemove ==
  ASSUME NEW f, NEW S, IsFiniteSet(S), \A x \in S : f[x] \in Int, NEW x \in S
  PROVE  SumFunctionOnSet(f, S) = f[x] + SumFunctionOnSet(f, S \ {x})
<1> DEFINE Sum(T) == SumFunctionOnSet(f, T)
           B == {T \in SUBSET S : \E y \in T : Sum(T) # f[y] + Sum(T \ {y})}
<1>1. SUFFICES ASSUME B # {} PROVE FALSE
  OBVIOUS
<1>2. PICK T \in B : \A U \in SUBSET S : Cardinality(U) < Cardinality(T) => U \notin B
  <2>1. B \in SUBSET SUBSET S
    OBVIOUS
  <2> HIDE DEF B
  <2> QED BY <1>1, <2>1, LeastSet
<1>3. T \in SUBSET S /\ IsFiniteSet(T)
  BY <1>2, FS_Subset
<1>4. PICK y \in T : Sum(T) # f[y] + Sum(T \ {y})
  BY <1>2
<1>5. PICK c \in T : Sum(T) = f[c] + Sum(T \ {c})
  BY <1>3, <1>4, SumStep
<1>6. y # c
  BY <1>4, <1>5
<1>7. /\ T \ {c} \in SUBSET S /\ Cardinality(T \ {c}) < Cardinality(T)
      /\ T \ {y} \in SUBSET S /\ Cardinality(T \ {y}) < Cardinality(T)
  <2>1. /\ T \ {c} \in SUBSET S /\ Cardinality(T \ {c}) = Cardinality(T) - 1
        /\ T \ {y} \in SUBSET S /\ Cardinality(T \ {y}) = Cardinality(T) - 1
        /\ Cardinality(T) \in Nat \ {0}
    BY <1>3, ChosenOne
  <2> QED BY <2>1
<1>8. Sum(T \ {c}) = f[y] + Sum((T \ {c}) \ {y})
  BY <1>2, <1>6, <1>7
<1>9. Sum(T \ {y}) = f[c] + Sum((T \ {y}) \ {c})
  BY <1>2, <1>6, <1>7
<1>10. (T \ {c}) \ {y} = (T \ {y}) \ {c}
  OBVIOUS
<1>11. f[c] \in Int /\ f[y] \in Int /\ Sum((T \ {y}) \ {c}) \in Int
  <2>1. IsFiniteSet((T \ {y}) \ {c}) /\ \A z \in (T \ {y}) \ {c} : f[z] \in Int
    BY <1>3, FS_Subset
  <2> QED BY <1>3, <2>1, SumType
<1>12. ASSUME NEW a \in Int, NEW b \in Int, NEW r \in Int PROVE a + (b + r) = b + (a + r)
  OBVIOUS
<1> DEFINE rest == Sum((T \ {y}) \ {c})
<1>13. Sum(T) = f[c] + (f[y] + rest) /\ f[y] + Sum(T \ {y}) = f[y] + (f[c] + rest)
  BY <1>5, <1>8, <1>9, <1>10
<1>14. f[c] + (f[y] + rest) = f[y] + (f[c] + rest)
  <2> HIDE DEF rest
  <2> QED BY <1>11, <1>12 DEF rest
<1>15. QED
  BY <1>4, <1>13, <1>14

\* Renaming the terms one for one does not change the sum.
LEMMA SumRename ==
  ASSUME NEW f, NEW g, NEW S, IsFiniteSet(S), \A x \in S : f[x] \in Int, NEW h,
         \A x \in S : f[x] = g[h[x]],
         \A x, y \in S : h[x] = h[y] => x = y
  PROVE  SumFunctionOnSet(f, S) = SumFunctionOnSet(g, {h[x] : x \in S})
<1> DEFINE Image(T) == {h[x] : x \in T}
           B == {T \in SUBSET S : SumFunctionOnSet(f, T) # SumFunctionOnSet(g, Image(T))}
<1>1. SUFFICES ASSUME B # {} PROVE FALSE
  OBVIOUS
<1>2. PICK T \in B : \A U \in SUBSET S : Cardinality(U) < Cardinality(T) => U \notin B
  <2>1. B \in SUBSET SUBSET S
    OBVIOUS
  <2> HIDE DEF B
  <2> QED BY <1>1, <2>1, LeastSet
<1>3. T \in SUBSET S /\ IsFiniteSet(T) /\ SumFunctionOnSet(f, T) # SumFunctionOnSet(g, Image(T))
  BY <1>2, FS_Subset
<1>4. IsFiniteSet(Image(T)) /\ \A z \in Image(T) : g[z] \in Int
  <2> DEFINE k == [x \in T |-> h[x]]
  <2>1. k \in Surjection(T, Image(T))
    BY DEF Surjection
  <2>2. IsFiniteSet(Image(T))
    <3> HIDE DEF k, Image
    <3> QED BY <1>3, <2>1, FS_Surjection
  <2>3. \A z \in Image(T) : g[z] \in Int
    BY <1>3
  <2> QED BY <2>2, <2>3
<1>5. T # {}
  <2>1. T = {} => Image(T) = {}
    OBVIOUS
  <2> HIDE DEF Image
  <2> QED BY <1>3, <1>4, <2>1, SumStep
<1>6. PICK c \in T : SumFunctionOnSet(f, T) = f[c] + SumFunctionOnSet(f, T \ {c})
  BY <1>3, <1>5, SumStep
<1>7. T \ {c} \in SUBSET S /\ Cardinality(T \ {c}) < Cardinality(T)
  <2>1. /\ T \ {c} \in SUBSET S /\ Cardinality(T \ {c}) = Cardinality(T) - 1
        /\ Cardinality(T) \in Nat \ {0}
    BY <1>3, <1>5, ChosenOne
  <2> QED BY <2>1
<1>8. SumFunctionOnSet(f, T \ {c}) = SumFunctionOnSet(g, Image(T \ {c}))
  BY <1>2, <1>7
<1>9. Image(T) \ {h[c]} = Image(T \ {c}) /\ h[c] \in Image(T)
  BY <1>3
<1>10. SumFunctionOnSet(g, Image(T)) = g[h[c]] + SumFunctionOnSet(g, Image(T) \ {h[c]})
  <2> HIDE DEF Image
  <2> QED BY <1>4, <1>9, SumRemove
<1>11. f[c] = g[h[c]]
  BY <1>3
<1> HIDE DEF Image
<1>12. QED
  BY <1>3, <1>6, <1>8, <1>9, <1>10, <1>11

\* A sum depends on its terms only.
LEMMA SumEqual ==
  ASSUME NEW f, NEW g, NEW S, IsFiniteSet(S), \A x \in S : f[x] \in Int /\ f[x] = g[x]
  PROVE  SumFunctionOnSet(f, S) = SumFunctionOnSet(g, S)
<1> DEFINE h == [x \in S |-> x]
<1>1. \A x \in S : f[x] = g[h[x]]
  OBVIOUS
<1>2. \A x, y \in S : h[x] = h[y] => x = y
  OBVIOUS
<1>3. {h[x] : x \in S} = S
  OBVIOUS
<1> HIDE DEF h
<1>4. SumFunctionOnSet(f, S) = SumFunctionOnSet(g, {h[x] : x \in S})
  BY <1>1, <1>2, SumRename
<1>5. QED
  BY <1>3, <1>4

\* One term that changes changes the sum by as much.
LEMMA SumChange ==
  ASSUME NEW f, NEW g, NEW S, IsFiniteSet(S), NEW x \in S,
         \A y \in S : f[y] \in Int /\ g[y] \in Int, \A y \in S \ {x} : f[y] = g[y]
  PROVE  SumFunctionOnSet(g, S) = SumFunctionOnSet(f, S) - f[x] + g[x]
<1>1. SumFunctionOnSet(f, S) = f[x] + SumFunctionOnSet(f, S \ {x})
  BY SumRemove
<1>2. SumFunctionOnSet(g, S) = g[x] + SumFunctionOnSet(g, S \ {x})
  BY SumRemove
<1>3. IsFiniteSet(S \ {x})
  BY FS_Subset
<1>4. SumFunctionOnSet(f, S \ {x}) = SumFunctionOnSet(g, S \ {x})
  BY <1>3, SumEqual
<1>5. SumFunctionOnSet(f, S \ {x}) \in Int
  BY <1>3, SumType
<1> DEFINE r == SumFunctionOnSet(f, S \ {x})
<1> HIDE DEF r
<1>6. f[x] \in Int /\ g[x] \in Int /\ r \in Int
  BY <1>5 DEF r
<1>7. g[x] + r = (f[x] + r) - f[x] + g[x]
  BY <1>6
<1>8. QED
  BY <1>1, <1>2, <1>4, <1>7 DEF r

\* No term exceeds a sum of naturals.
LEMMA SumAtLeast ==
  ASSUME NEW f, NEW S, IsFiniteSet(S), \A y \in S : f[y] \in Nat, NEW x \in S
  PROVE  f[x] <= SumFunctionOnSet(f, S)
<1>1. SumFunctionOnSet(f, S) = f[x] + SumFunctionOnSet(f, S \ {x})
  BY SumRemove
<1>2. SumFunctionOnSet(f, S \ {x}) \in Nat
  BY FS_Subset, SumNat
<1>3. f[x] \in Nat
  OBVIOUS
<1>4. QED
  BY <1>1, <1>2, <1>3

\* A sum of zeroes.
LEMMA SumZero ==
  ASSUME NEW f, NEW S, IsFiniteSet(S), \A x \in S : f[x] = 0
  PROVE  SumFunctionOnSet(f, S) = 0
<1> DEFINE B == {T \in SUBSET S : SumFunctionOnSet(f, T) # 0}
<1>1. SUFFICES ASSUME B # {} PROVE FALSE
  OBVIOUS
<1>2. PICK T \in B : \A U \in SUBSET S : Cardinality(U) < Cardinality(T) => U \notin B
  <2>1. B \in SUBSET SUBSET S
    OBVIOUS
  <2> HIDE DEF B
  <2> QED BY <1>1, <2>1, LeastSet
<1>3. T \in SUBSET S /\ SumFunctionOnSet(f, T) # 0 /\ IsFiniteSet(T)
  BY <1>2, FS_Subset
<1>4. T # {}
  BY <1>3, SumStep
<1>5. PICK c \in T : SumFunctionOnSet(f, T) = f[c] + SumFunctionOnSet(f, T \ {c})
  BY <1>3, <1>4, SumStep
<1>6. T \ {c} \in SUBSET S /\ Cardinality(T \ {c}) < Cardinality(T)
  <2>1. /\ T \ {c} \in SUBSET S /\ Cardinality(T \ {c}) = Cardinality(T) - 1
        /\ Cardinality(T) \in Nat \ {0}
    BY <1>3, <1>4, ChosenOne
  <2> QED BY <2>1
<1>7. SumFunctionOnSet(f, T \ {c}) = 0
  BY <1>2, <1>6
<1>8. f[c] = 0
  BY <1>3
<1>9. QED
  BY <1>3, <1>5, <1>7, <1>8
=============================================================================
