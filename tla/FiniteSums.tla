------------------------------- MODULE FiniteSums -------------------------------
(***************************************************************************)
(* Facts about SumFunctionOnSet of the community modules, which is defined   *)
(* by a fold over the set in an order that is left open.  The library has no *)
(* theorem about it; the induction on the number of elements is done here    *)
(* by a least counterexample.                                               *)
(***************************************************************************)
EXTENDS Integers, Functions, FiniteSets, FiniteSetTheorems, WellFoundedInduction, TLAPS

-----------------------------------------------------------------------------
(* Least and greatest of a set of numbers *)

LEMMA LeastOfNats ==
    ASSUME NEW S \in SUBSET Nat, S # {}
    PROVE  \E x \in S : \A y \in S : x <= y
<1>1. PICK x \in S : \A y \in S : ~ (<<y, x>> \in OpToRel(<, Nat))
  BY NatLessThanWellFounded, WFMin
<1>2. ASSUME NEW y \in S PROVE x <= y
  <2>1. x \in Nat /\ y \in Nat
    OBVIOUS
  <2>2. ~(y < x)
    BY <1>1, <2>1 DEF OpToRel
  <2>3. QED
    BY <2>1, <2>2
<1>3. QED
  BY <1>2

LEMMA GreatestOfNats ==
    ASSUME NEW S \in SUBSET Nat, S # {}, NEW b \in Nat, \A x \in S : x <= b
    PROVE  \E x \in S : \A y \in S : y <= x
<1> DEFINE D == {b - x : x \in S}
<1>1. D \in SUBSET Nat /\ D # {}
  <2>1. ASSUME NEW x \in S PROVE b - x \in Nat
    <3>1. x \in Nat /\ x <= b
      OBVIOUS
    <3>2. QED
      BY <3>1
  <2>2. QED
    BY <2>1
<1>2. PICK d \in D : \A y \in D : d <= y
  BY <1>1, LeastOfNats
<1>3. PICK x \in S : d = b - x
  BY <1>2
<1>4. ASSUME NEW y \in S PROVE y <= x
  <2>1. b - y \in D
    OBVIOUS
  <2>2. b - x <= b - y
    BY <1>2, <1>3, <2>1
  <2>3. x \in Nat /\ y \in Nat
    OBVIOUS
  <2>4. QED
    BY <2>2, <2>3
<1>5. QED
  BY <1>4

(* Of the finite sets in F one has the fewest elements.                      *)
LEMMA SmallestSet ==
    ASSUME NEW F, F # {}, \A s \in F : IsFiniteSet(s)
    PROVE  \E s \in F : \A t \in F : Cardinality(s) <= Cardinality(t)
<1> DEFINE N == {Cardinality(s) : s \in F}
<1>1. N \in SUBSET Nat /\ N # {}
  BY FS_CardinalityType
<1>2. PICK n \in N : \A m \in N : n <= m
  BY <1>1, LeastOfNats
<1>3. QED
  BY <1>2

(* Removing an element makes a finite set smaller.                           *)
LEMMA Smaller ==
    ASSUME NEW S, IsFiniteSet(S), NEW x \in S
    PROVE  /\ IsFiniteSet(S \ {x})
           /\ Cardinality(S \ {x}) \in Nat /\ Cardinality(S) \in Nat
           /\ Cardinality(S \ {x}) < Cardinality(S)
           /\ Cardinality(S) = Cardinality(S \ {x}) + 1
<1>1. IsFiniteSet(S \ {x}) /\ Cardinality(S \ {x}) = Cardinality(S) - 1
  BY FS_RemoveElement
<1>2. Cardinality(S \ {x}) \in Nat /\ Cardinality(S) \in Nat
  BY <1>1, FS_CardinalityType
<1>3. QED
  BY <1>1, <1>2

-----------------------------------------------------------------------------
(* The recursion that SumFunctionOnSet stands for has a solution.            *)

Chosen(s) == CHOOSE x \in s : TRUE
Solves(g, f, S) ==
    g = [s \in SUBSET S |->
           IF s = {} THEN 0
           ELSE f[CHOOSE x \in s : TRUE] + g[s \ {CHOOSE x \in s : TRUE}]]
Sums(f, S) == CHOOSE g : Solves(g, f, S)

LEMMA SumIsFold ==
    ASSUME NEW f, NEW S
    PROVE  SumFunctionOnSet(f, S) = Sums(f, S)[S]
BY DEF SumFunctionOnSet, FoldFunctionOnSet, MapThenFoldSet, Sums, Solves

LEMMA ChosenIsIn ==
    ASSUME NEW s, s # {}
    PROVE  Chosen(s) \in s
BY DEF Chosen

LEMMA SolutionsAgree ==
    ASSUME NEW f, NEW S, IsFiniteSet(S), NEW T, IsFiniteSet(T),
           NEW g, Solves(g, f, S), NEW h, Solves(h, f, T), NEW s \in SUBSET S, s \in SUBSET T
    PROVE  g[s] = h[s]
<1> DEFINE F == {u \in SUBSET s : g[u] # h[u]}
<1>1. SUFFICES ASSUME F # {} PROVE FALSE
  OBVIOUS
<1>2. \A u \in F : IsFiniteSet(u)
  BY FS_Subset
<1>3. PICK u \in F : \A v \in F : Cardinality(u) <= Cardinality(v)
  BY <1>1, <1>2, SmallestSet
<1>4. u \in SUBSET S /\ u \in SUBSET T /\ u \in SUBSET s /\ g[u] # h[u]
  OBVIOUS
<1> HIDE DEF F
<1>5. /\ g[u] = IF u = {} THEN 0 ELSE f[Chosen(u)] + g[u \ {Chosen(u)}]
      /\ h[u] = IF u = {} THEN 0 ELSE f[Chosen(u)] + h[u \ {Chosen(u)}]
  <2>1. g[u] = IF u = {} THEN 0 ELSE f[Chosen(u)] + g[u \ {Chosen(u)}]
    BY <1>4 DEF Solves, Chosen
  <2>2. h[u] = IF u = {} THEN 0 ELSE f[Chosen(u)] + h[u \ {Chosen(u)}]
    BY <1>4 DEF Solves, Chosen
  <2>3. QED
    BY <2>1, <2>2
<1>6. u # {}
  BY <1>4, <1>5
<1> DEFINE v == u \ {Chosen(u)}
<1>7. g[v] # h[v]
  BY <1>4, <1>5, <1>6
<1>8. v \in F
  BY <1>4, <1>7 DEF F
<1>9. Cardinality(u) <= Cardinality(v)
  BY <1>3, <1>8
<1>10. Cardinality(v) \in Nat /\ Cardinality(u) \in Nat /\ Cardinality(v) < Cardinality(u)
  BY <1>2, <1>6, ChosenIsIn, Smaller
<1>11. QED
  BY <1>9, <1>10

LEMMA SolutionExists ==
    ASSUME NEW f, NEW S, IsFiniteSet(S)
    PROVE  Solves(Sums(f, S), f, S)
<1> DEFINE F == {u \in SUBSET S : ~ Solves(Sums(f, u), f, u)}
<1>1. SUFFICES ASSUME F # {} PROVE FALSE
  OBVIOUS
<1>2. \A u \in F : IsFiniteSet(u)
  BY FS_Subset
<1>3. PICK u \in F : \A v \in F : Cardinality(u) <= Cardinality(v)
  BY <1>1, <1>2, SmallestSet
<1>4. u \in SUBSET S /\ IsFiniteSet(u) /\ ~ Solves(Sums(f, u), f, u)
  BY <1>2
<1>5. ASSUME NEW v \in SUBSET u, v # u PROVE IsFiniteSet(v) /\ Solves(Sums(f, v), f, v)
  <2>1. /\ IsFiniteSet(v) /\ Cardinality(v) <= Cardinality(u)
        /\ Cardinality(u) = Cardinality(v) => u = v
    BY <1>4, FS_Subset
  <2>2. Cardinality(v) \in Nat /\ Cardinality(u) \in Nat
    BY <1>4, <2>1, FS_CardinalityType
  <2>3. v \notin F
    BY <1>3, <1>5, <2>1, <2>2
  <2>4. QED
    BY <1>4, <2>1, <2>3
<1> DEFINE value(v) == IF v = {} THEN 0 ELSE f[Chosen(v)] + Sums(f, v \ {Chosen(v)})[v \ {Chosen(v)}]
           g == [v \in SUBSET u |-> value(v)]
<1>6. ASSUME NEW v \in SUBSET u, v # {}
      PROVE  Sums(f, v \ {Chosen(v)})[v \ {Chosen(v)}] = g[v \ {Chosen(v)}]
  <2> DEFINE w == v \ {Chosen(v)}
             y == w \ {Chosen(w)}
  <2>1. Chosen(v) \in v /\ w \in SUBSET u /\ w # u
    BY <1>6, ChosenIsIn
  <2>2. IsFiniteSet(w) /\ Solves(Sums(f, w), f, w)
    BY <1>5, <2>1
  <2>3. Sums(f, w)[w] = IF w = {} THEN 0 ELSE f[Chosen(w)] + Sums(f, w)[y]
    <3> HIDE DEF w
    <3>1. w \in SUBSET w
      OBVIOUS
    <3>2. QED
      BY <2>2, <3>1 DEF Solves, Chosen
  <2>4. g[w] = IF w = {} THEN 0 ELSE f[Chosen(w)] + Sums(f, y)[y]
    BY <2>1
  <2>5. w # {} => Sums(f, w)[y] = Sums(f, y)[y]
    <3>1. SUFFICES ASSUME w # {} PROVE Sums(f, w)[y] = Sums(f, y)[y]
      OBVIOUS
    <3>2. y \in SUBSET u /\ y # u
      BY <2>1
    <3>3. IsFiniteSet(y) /\ Solves(Sums(f, y), f, y)
      BY <1>5, <3>2
    <3> HIDE DEF w
    <3>4. y \in SUBSET w
      OBVIOUS
    <3> HIDE DEF y
    <3>5. QED
      BY <2>2, <3>3, <3>4, SolutionsAgree
  <2>6. QED
    BY <2>3, <2>4, <2>5
<1>7. g = [v \in SUBSET u |-> IF v = {} THEN 0 ELSE f[Chosen(v)] + g[v \ {Chosen(v)}]]
  BY <1>6
<1>8. Solves(g, f, u)
  BY <1>7 DEF Solves, Chosen
<1>9. Solves(Sums(f, u), f, u)
  BY <1>8 DEF Sums
<1>10. QED
  BY <1>4, <1>9

-----------------------------------------------------------------------------
(* What a sum is, whatever the order of the fold.                            *)

LEMMA SumEmpty ==
    ASSUME NEW f
    PROVE  SumFunctionOnSet(f, {}) = 0
<1>1. Solves(Sums(f, {}), f, {})
  BY SolutionExists, FS_EmptySet
<1>2. Sums(f, {})[{}] = 0
  BY <1>1 DEF Solves
<1>3. QED
  BY <1>2, SumIsFold

LEMMA SumStep ==
    ASSUME NEW f, NEW S, IsFiniteSet(S), S # {}
    PROVE  SumFunctionOnSet(f, S) = f[Chosen(S)] + SumFunctionOnSet(f, S \ {Chosen(S)})
<1> DEFINE T == S \ {Chosen(S)}
<1>1. IsFiniteSet(T)
  BY ChosenIsIn, Smaller
<1>2. Solves(Sums(f, S), f, S) /\ Solves(Sums(f, T), f, T)
  BY <1>1, SolutionExists
<1>3. Sums(f, S)[S] = f[Chosen(S)] + Sums(f, S)[T]
  BY <1>2 DEF Solves, Chosen
<1>4. T \in SUBSET S /\ T \in SUBSET T
  OBVIOUS
<1> DEFINE g == Sums(f, S)
           h == Sums(f, T)
<1>5. Solves(g, f, S) /\ Solves(h, f, T)
  BY <1>2
<1> HIDE DEF T, g, h
<1>6. ASSUME NEW u, u = T PROVE g[u] = h[u]
  <2>1. u \in SUBSET S /\ u \in SUBSET T
    BY <1>4, <1>6
  <2>2. QED
    BY <1>1, <1>5, <2>1, SolutionsAgree
<1>7. QED
  BY <1>3, <1>6, SumIsFold DEF T, g, h

LEMMA SumInt ==
    ASSUME NEW f, NEW S, IsFiniteSet(S), \A x \in S : f[x] \in Int
    PROVE  SumFunctionOnSet(f, S) \in Int
<1> DEFINE F == {u \in SUBSET S : SumFunctionOnSet(f, u) \notin Int}
<1>1. SUFFICES ASSUME F # {} PROVE FALSE
  OBVIOUS
<1>2. \A u \in F : IsFiniteSet(u)
  BY FS_Subset
<1>3. PICK u \in F : \A v \in F : Cardinality(u) <= Cardinality(v)
  BY <1>1, <1>2, SmallestSet
<1>4. u \in SUBSET S /\ IsFiniteSet(u) /\ SumFunctionOnSet(f, u) \notin Int
  BY <1>2
<1>5. u # {}
  BY <1>4, SumEmpty
<1> DEFINE x == Chosen(u)
           v == u \ {x}
<1>6. x \in u /\ f[x] \in Int
  BY <1>4, <1>5, ChosenIsIn
<1>7. SumFunctionOnSet(f, u) = f[x] + SumFunctionOnSet(f, v)
  BY <1>4, <1>5, SumStep
<1> HIDE DEF x
<1>8. Cardinality(v) \in Nat /\ Cardinality(u) \in Nat /\ Cardinality(v) < Cardinality(u)
  BY <1>4, <1>6, Smaller
<1>9. v \notin F
  BY <1>3, <1>8
<1>10. SumFunctionOnSet(f, v) \in Int
  BY <1>4, <1>9
<1>11. QED
  BY <1>4, <1>6, <1>7, <1>10

(* Any element can be taken out of a sum.                                    *)
LEMMA SumRemove ==
    ASSUME NEW f, NEW S, IsFiniteSet(S), \A x \in S : f[x] \in Int, NEW a \in S
    PROVE  SumFunctionOnSet(f, S) = f[a] + SumFunctionOnSet(f, S \ {a})
<1> DEFINE Fails(u) == \E b \in u : SumFunctionOnSet(f, u) # f[b] + SumFunctionOnSet(f, u \ {b})
           F == {u \in SUBSET S : Fails(u)}
<1>1. SUFFICES ASSUME F # {} PROVE FALSE
  OBVIOUS
<1>2. \A u \in F : IsFiniteSet(u)
  BY FS_Subset
<1>3. PICK u \in F : \A v \in F : Cardinality(u) <= Cardinality(v)
  BY <1>1, <1>2, SmallestSet
<1>4. u \in SUBSET S /\ IsFiniteSet(u)
  BY <1>2
<1>5. PICK b \in u : SumFunctionOnSet(f, u) # f[b] + SumFunctionOnSet(f, u \ {b})
  OBVIOUS
<1> DEFINE x == Chosen(u)
           v == u \ {x}
           w == u \ {b}
<1>6. x \in u
  BY <1>5, ChosenIsIn
<1>7. SumFunctionOnSet(f, u) = f[x] + SumFunctionOnSet(f, v)
  BY <1>4, <1>5, SumStep
<1>8. x # b
  BY <1>5, <1>7
<1> HIDE DEF x
<1>9. /\ IsFiniteSet(v) /\ Cardinality(v) \in Nat
      /\ Cardinality(u) \in Nat /\ Cardinality(v) < Cardinality(u)
  BY <1>4, <1>6, Smaller
<1>10. /\ IsFiniteSet(w) /\ Cardinality(w) \in Nat /\ Cardinality(w) < Cardinality(u)
  BY <1>4, <1>5, Smaller
<1>11. v \notin F /\ w \notin F
  BY <1>3, <1>9, <1>10
<1>12. v \in SUBSET S /\ w \in SUBSET S /\ b \in v /\ x \in w
  BY <1>4, <1>5, <1>6, <1>8
<1>13. ~Fails(v) /\ ~Fails(w)
  BY <1>11, <1>12
<1>14. /\ SumFunctionOnSet(f, v) = f[b] + SumFunctionOnSet(f, v \ {b})
       /\ SumFunctionOnSet(f, w) = f[x] + SumFunctionOnSet(f, w \ {x})
  BY <1>12, <1>13
<1>15. v \ {b} = w \ {x}
  OBVIOUS
<1>16. f[b] \in Int /\ f[x] \in Int /\ SumFunctionOnSet(f, v \ {b}) \in Int
  <2>1. IsFiniteSet(v \ {b}) /\ \A y \in v \ {b} : f[y] \in Int
    BY <1>9, <1>12, Smaller
  <2>2. SumFunctionOnSet(f, v \ {b}) \in Int
    BY <2>1, SumInt
  <2>3. QED
    BY <1>12, <2>2
<1> DEFINE z == SumFunctionOnSet(f, v \ {b})
<1>17. /\ SumFunctionOnSet(f, v) = f[b] + z
       /\ SumFunctionOnSet(f, w) = f[x] + z
       /\ f[b] \in Int /\ f[x] \in Int /\ z \in Int
  BY <1>14, <1>15, <1>16
<1> HIDE DEF v, w, z, F, Fails
<1>18. SumFunctionOnSet(f, u) = f[b] + SumFunctionOnSet(f, w)
  BY <1>7, <1>17
<1>19. QED
  BY <1>5, <1>18 DEF w

(* The sum over two sets that share no element.                              *)
LEMMA SumUnion ==
    ASSUME NEW f, NEW S, IsFiniteSet(S), NEW T, IsFiniteSet(T), S \cap T = {},
           \A x \in S \cup T : f[x] \in Int
    PROVE  SumFunctionOnSet(f, S \cup T) = SumFunctionOnSet(f, S) + SumFunctionOnSet(f, T)
<1> DEFINE F == {u \in SUBSET T : SumFunctionOnSet(f, S \cup u)
                                    # SumFunctionOnSet(f, S) + SumFunctionOnSet(f, u)}
<1>1. SUFFICES ASSUME F # {} PROVE FALSE
  OBVIOUS
<1>2. \A u \in F : IsFiniteSet(u)
  BY FS_Subset
<1>3. PICK u \in F : \A v \in F : Cardinality(u) <= Cardinality(v)
  BY <1>1, <1>2, SmallestSet
<1>4. /\ u \in SUBSET T /\ IsFiniteSet(u)
      /\ SumFunctionOnSet(f, S \cup u) # SumFunctionOnSet(f, S) + SumFunctionOnSet(f, u)
  BY <1>2
<1>5. SumFunctionOnSet(f, S) \in Int
  BY SumInt
<1>6. u # {}
  <2>1. SUFFICES ASSUME u = {} PROVE FALSE
    OBVIOUS
  <2>2. SumFunctionOnSet(f, u) = 0
    BY <2>1, SumEmpty
  <2>3. S \cup u = S
    BY <2>1
  <2>4. SumFunctionOnSet(f, S) # SumFunctionOnSet(f, S) + 0
    BY <1>4, <2>2, <2>3
  <2>5. QED
    BY <1>5, <2>4
<1>7. PICK x \in u : TRUE
  BY <1>6
<1> DEFINE v == u \ {x}
<1>8. /\ IsFiniteSet(v)
      /\ Cardinality(v) \in Nat /\ Cardinality(u) \in Nat /\ Cardinality(v) < Cardinality(u)
  BY <1>4, Smaller
<1>9. v \notin F
  BY <1>3, <1>8
<1>10. SumFunctionOnSet(f, S \cup v) = SumFunctionOnSet(f, S) + SumFunctionOnSet(f, v)
  BY <1>4, <1>9
<1>11. SumFunctionOnSet(f, u) = f[x] + SumFunctionOnSet(f, v)
  BY <1>4, SumRemove
<1>12. SumFunctionOnSet(f, S \cup u) = f[x] + SumFunctionOnSet(f, S \cup v)
  <2> DEFINE w == S \cup u
  <2>1. IsFiniteSet(w) /\ x \in w /\ w \ {x} = S \cup v /\ \A y \in w : f[y] \in Int
    BY <1>4, FS_Union
  <2> HIDE DEF w
  <2>2. SumFunctionOnSet(f, w) = f[x] + SumFunctionOnSet(f, w \ {x})
    BY <2>1, SumRemove
  <2>3. QED
    BY <2>1, <2>2 DEF w
<1>13. f[x] \in Int /\ SumFunctionOnSet(f, v) \in Int
  BY <1>4, <1>8, SumInt
<1> DEFINE a == SumFunctionOnSet(f, S)
           b == SumFunctionOnSet(f, v)
<1>14. a \in Int /\ b \in Int /\ f[x] \in Int
  BY <1>5, <1>13
<1>15. /\ SumFunctionOnSet(f, S \cup u) = f[x] + (a + b)
       /\ SumFunctionOnSet(f, u) = f[x] + b
  BY <1>10, <1>11, <1>12
<1>16. SumFunctionOnSet(f, S \cup u) # a + SumFunctionOnSet(f, u)
  BY <1>4
<1> HIDE DEF a, b
<1>17. QED
  BY <1>14, <1>15, <1>16

LEMMA SumNat ==
    ASSUME NEW f, NEW S, IsFiniteSet(S), \A x \in S : f[x] \in Nat
    PROVE  SumFunctionOnSet(f, S) \in Nat
<1> DEFINE F == {u \in SUBSET S : SumFunctionOnSet(f, u) \notin Nat}
<1>1. SUFFICES ASSUME F # {} PROVE FALSE
  OBVIOUS
<1>2. \A u \in F : IsFiniteSet(u)
  BY FS_Subset
<1>3. PICK u \in F : \A v \in F : Cardinality(u) <= Cardinality(v)
  BY <1>1, <1>2, SmallestSet
<1>4. u \in SUBSET S /\ IsFiniteSet(u) /\ SumFunctionOnSet(f, u) \notin Nat
  BY <1>2
<1>5. u # {}
  BY <1>4, SumEmpty
<1> DEFINE x == Chosen(u)
           v == u \ {x}
<1>6. x \in u /\ f[x] \in Nat
  BY <1>4, <1>5, ChosenIsIn
<1>7. SumFunctionOnSet(f, u) = f[x] + SumFunctionOnSet(f, v)
  BY <1>4, <1>5, SumStep
<1> HIDE DEF x
<1>8. Cardinality(v) \in Nat /\ Cardinality(u) \in Nat /\ Cardinality(v) < Cardinality(u)
  BY <1>4, <1>6, Smaller
<1>9. v \notin F
  BY <1>3, <1>8
<1>10. SumFunctionOnSet(f, v) \in Nat
  BY <1>4, <1>9
<1>11. QED
  BY <1>4, <1>6, <1>7, <1>10

(* More terms, none negative, make no smaller sum.                           *)
LEMMA SumGrows ==
    ASSUME NEW f, NEW S, IsFiniteSet(S), NEW T \in SUBSET S, \A x \in S : f[x] \in Nat
    PROVE  /\ SumFunctionOnSet(f, T) <= SumFunctionOnSet(f, S)
           /\ SumFunctionOnSet(f, T) \in Nat /\ SumFunctionOnSet(f, S) \in Nat
<1> DEFINE R == S \ T
<1>1. IsFiniteSet(T) /\ IsFiniteSet(R) /\ T \cap R = {} /\ T \cup R = S
  BY FS_Subset
<1>2. \A x \in T \cup R : f[x] \in Int
  BY <1>1
<1> HIDE DEF R
<1>3. SumFunctionOnSet(f, T \cup R) = SumFunctionOnSet(f, T) + SumFunctionOnSet(f, R)
  BY <1>1, <1>2, SumUnion
<1>4. SumFunctionOnSet(f, T) \in Nat /\ SumFunctionOnSet(f, R) \in Nat
  BY <1>1, SumNat
<1>5. SumFunctionOnSet(f, S) = SumFunctionOnSet(f, T) + SumFunctionOnSet(f, R)
  BY <1>1, <1>3
<1>6. QED
  BY <1>4, <1>5

(* Terms that are all the same.                                              *)
LEMMA SumConstant ==
    ASSUME NEW f, NEW S, IsFiniteSet(S), NEW c \in Int, \A x \in S : f[x] = c
    PROVE  SumFunctionOnSet(f, S) = Cardinality(S) * c
<1> DEFINE F == {u \in SUBSET S : SumFunctionOnSet(f, u) # Cardinality(u) * c}
<1>1. SUFFICES ASSUME F # {} PROVE FALSE
  OBVIOUS
<1>2. \A u \in F : IsFiniteSet(u)
  BY FS_Subset
<1>3. PICK u \in F : \A v \in F : Cardinality(u) <= Cardinality(v)
  BY <1>1, <1>2, SmallestSet
<1>4. u \in SUBSET S /\ IsFiniteSet(u) /\ SumFunctionOnSet(f, u) # Cardinality(u) * c
  BY <1>2
<1>5. u # {}
  <2>1. SumFunctionOnSet(f, {}) = 0 /\ Cardinality({}) = 0
    BY SumEmpty, FS_EmptySet
  <2>2. 0 * c = 0
    OBVIOUS
  <2>3. QED
    BY <1>4, <2>1, <2>2
<1> DEFINE x == Chosen(u)
           v == u \ {x}
<1>6. x \in u /\ f[x] = c
  BY <1>4, <1>5, ChosenIsIn
<1>7. SumFunctionOnSet(f, u) = f[x] + SumFunctionOnSet(f, v)
  BY <1>4, <1>5, SumStep
<1> HIDE DEF x
<1>8. /\ Cardinality(v) \in Nat /\ Cardinality(u) \in Nat /\ Cardinality(v) < Cardinality(u)
      /\ Cardinality(u) = Cardinality(v) + 1
  BY <1>4, <1>6, Smaller
<1>9. v \notin F
  <2> HIDE DEF F
  <2>1. QED
    BY <1>3, <1>8
<1>10. SumFunctionOnSet(f, v) = Cardinality(v) * c
  BY <1>4, <1>9
<1> DEFINE n == Cardinality(v)
<1>11. n \in Nat /\ Cardinality(u) = n + 1 /\ SumFunctionOnSet(f, u) = c + n * c
  BY <1>6, <1>7, <1>8, <1>10
<1> HIDE DEF n
<1>12. (n + 1) * c = c + n * c
  BY <1>11
<1>13. QED
  BY <1>4, <1>11, <1>12

LEMMA SumScaled ==
    ASSUME NEW f, NEW g, NEW S, IsFiniteSet(S), NEW c \in Int,
           \A x \in S : f[x] \in Int /\ g[x] = f[x] * c
    PROVE  SumFunctionOnSet(g, S) = SumFunctionOnSet(f, S) * c
<1> DEFINE F == {u \in SUBSET S : SumFunctionOnSet(g, u) # SumFunctionOnSet(f, u) * c}
<1>1. SUFFICES ASSUME F # {} PROVE FALSE
  OBVIOUS
<1>2. \A u \in F : IsFiniteSet(u)
  BY FS_Subset
<1>3. PICK u \in F : \A v \in F : Cardinality(u) <= Cardinality(v)
  BY <1>1, <1>2, SmallestSet
<1>4. u \in SUBSET S /\ IsFiniteSet(u) /\ SumFunctionOnSet(g, u) # SumFunctionOnSet(f, u) * c
  BY <1>2
<1>5. u # {}
  <2>1. SumFunctionOnSet(f, {}) = 0 /\ SumFunctionOnSet(g, {}) = 0
    BY SumEmpty
  <2>2. 0 * c = 0
    OBVIOUS
  <2>3. QED
    BY <1>4, <2>1, <2>2
<1> DEFINE x == Chosen(u)
           v == u \ {x}
<1>6. x \in u /\ f[x] \in Int /\ g[x] = f[x] * c
  BY <1>4, <1>5, ChosenIsIn
<1>7. /\ SumFunctionOnSet(f, u) = f[x] + SumFunctionOnSet(f, v)
      /\ SumFunctionOnSet(g, u) = g[x] + SumFunctionOnSet(g, v)
  BY <1>4, <1>5, SumStep
<1> HIDE DEF x
<1>8. Cardinality(v) \in Nat /\ Cardinality(u) \in Nat /\ Cardinality(v) < Cardinality(u)
  BY <1>4, <1>6, Smaller
<1>9. v \notin F
  <2> HIDE DEF F
  <2>1. QED
    BY <1>3, <1>8
<1>10. SumFunctionOnSet(g, v) = SumFunctionOnSet(f, v) * c
  BY <1>4, <1>9
<1>11. SumFunctionOnSet(f, v) \in Int
  <2>1. IsFiniteSet(v) /\ \A y \in v : f[y] \in Int
    BY <1>4, FS_Subset
  <2>2. QED
    BY <2>1, SumInt
<1> DEFINE a == f[x]
           n == SumFunctionOnSet(f, v)
<1>12. /\ a \in Int /\ n \in Int
       /\ SumFunctionOnSet(f, u) = a + n /\ SumFunctionOnSet(g, u) = a * c + n * c
  BY <1>6, <1>7, <1>10, <1>11
<1> HIDE DEF a, n
<1>13. (a + n) * c = a * c + n * c
  BY <1>12
<1>14. QED
  BY <1>4, <1>12, <1>13

\* the terms outside T are zero
LEMMA SumWithin ==
    ASSUME NEW f, NEW S, IsFiniteSet(S), NEW T \in SUBSET S,
           \A x \in T : f[x] \in Int, \A x \in S \ T : f[x] = 0
    PROVE  SumFunctionOnSet(f, S) = SumFunctionOnSet(f, T)
<1> DEFINE R == S \ T
<1>1. IsFiniteSet(T) /\ IsFiniteSet(R) /\ T \cap R = {} /\ T \cup R = S
  BY FS_Subset
<1>2. (\A x \in T \cup R : f[x] \in Int) /\ \A x \in R : f[x] = 0
  OBVIOUS
<1> HIDE DEF R
<1>3. SumFunctionOnSet(f, T \cup R) = SumFunctionOnSet(f, T) + SumFunctionOnSet(f, R)
  BY <1>1, <1>2, SumUnion
<1>4. SumFunctionOnSet(f, R) = Cardinality(R) * 0
  BY <1>1, <1>2, SumConstant
<1>5. Cardinality(R) \in Nat /\ SumFunctionOnSet(f, T) \in Int
  BY <1>1, <1>2, SumInt, FS_CardinalityType
<1>6. SumFunctionOnSet(f, R) = 0
  BY <1>4, <1>5
<1>7. SumFunctionOnSet(f, S) = SumFunctionOnSet(f, T) + SumFunctionOnSet(f, R)
  BY <1>1, <1>3
<1>8. QED
  BY <1>5, <1>6, <1>7

(* Terms of which running totals are kept.                                   *)
Totals(cum, f, a, b) ==
    /\ \A i \in a .. b : f[i] \in Int /\ cum[i] \in Int
    /\ \A i \in a + 1 .. b : cum[i] = cum[i - 1] + f[i]

LEMMA SumOfInterval ==
    ASSUME NEW f, NEW cum, NEW a \in Int, NEW b \in Int, a <= b,
           Totals(cum, f, a, b)
    PROVE  SumFunctionOnSet(f, a .. b) = cum[b] - cum[a] + f[a]
<1> DEFINE Holds(j) == SumFunctionOnSet(f, a .. j) = cum[j] - cum[a] + f[a]
           N == {n \in Nat : a + n <= b /\ ~Holds(a + n)}
<1>1. CASE N = {}
  <2>1. b - a \in Nat /\ a + (b - a) = b
    OBVIOUS
  <2>2. (b - a) \notin N
    BY <1>1
  <2>3. Holds(b)
    BY <2>1, <2>2
  <2>4. QED
    BY <2>3
<1>2. CASE N # {}
  <2>1. PICK n \in N : \A m \in N : n <= m
    BY <1>2, LeastOfNats
  <2> DEFINE j == a + n
  <2>2. n \in Nat /\ j <= b /\ ~Holds(j)
    OBVIOUS
  <2>3. n # 0
    <3>1. SUFFICES ASSUME n = 0 PROVE FALSE
      OBVIOUS
    <3>2. j = a /\ a .. a = {a} /\ a \in a .. b
      BY <3>1
    <3>3. f[a] \in Int /\ cum[a] \in Int
      BY <3>2 DEF Totals
    <3>4. IsFiniteSet({a}) /\ {a} \ {a} = {}
      BY FS_Singleton
    <3>5. SumFunctionOnSet(f, {a}) = f[a] + SumFunctionOnSet(f, {a} \ {a})
      BY <3>3, <3>4, SumRemove
    <3>6. SumFunctionOnSet(f, {a} \ {a}) = 0
      BY <3>4, SumEmpty
    <3>7. SumFunctionOnSet(f, {a}) = f[a]
      BY <3>3, <3>5, <3>6
    <3>8. a .. j = {a}
      BY <3>2
    <3>9. SumFunctionOnSet(f, a .. j) = f[a] /\ cum[j] = cum[a]
      BY <3>2, <3>7, <3>8
    <3>10. QED
      BY <2>2, <3>3, <3>9
  <2>4. n - 1 \in Nat /\ n - 1 < n /\ a + (n - 1) = j - 1 /\ j - 1 <= b /\ j \in Int
    BY <2>2, <2>3
  <2>5. (n - 1) \notin N
    <3>1. n \in Nat
      BY <2>2
    <3> HIDE DEF N, j
    <3>2. QED
      BY <2>1, <2>4, <3>1
  <2>6. Holds(j - 1)
    BY <2>4, <2>5
  <2>7. j \in Int /\ a < j /\ j <= b
    BY <2>2, <2>3, <2>4
  <2> HIDE DEF j
  <2>8. /\ j \in a .. j
        /\ j \in a + 1 .. b /\ j \in a .. b /\ a \in a .. b /\ j - 1 \in a .. b
        /\ \A i \in a .. j : i \in a .. b
    BY <2>7
  <2>9. (a .. j) \ {j} = a .. j - 1
    BY <2>7
  <2>10. f[j] \in Int /\ cum[j] \in Int /\ f[a] \in Int /\ cum[a] \in Int /\ cum[j - 1] \in Int
    BY <2>8 DEF Totals
  <2>11. IsFiniteSet(a .. j) /\ \A i \in a .. j : f[i] \in Int
    BY <2>4, <2>8, FS_Interval DEF Totals
  <2>12. SumFunctionOnSet(f, a .. j) = f[j] + SumFunctionOnSet(f, (a .. j) \ {j})
    <3> DEFINE u == a .. j
    <3>1. IsFiniteSet(u) /\ j \in u /\ \A i \in u : f[i] \in Int
      BY <2>8, <2>11
    <3> HIDE DEF u
    <3>2. SumFunctionOnSet(f, u) = f[j] + SumFunctionOnSet(f, u \ {j})
      BY <3>1, SumRemove
    <3>3. QED
      BY <3>2 DEF u
  <2>13. SumFunctionOnSet(f, a .. j) = f[j] + (cum[j - 1] - cum[a] + f[a])
    BY <2>6, <2>9, <2>12
  <2>14. cum[j] = cum[j - 1] + f[j]
    BY <2>8 DEF Totals
  <2>15. Holds(j)
    BY <2>10, <2>13, <2>14
  <2>16. QED
    BY <2>2, <2>15
<1>3. QED
  BY <1>1, <1>2

-----------------------------------------------------------------------------
(* The same recursion with products, of which only the type is needed.       *)

SolvesProduct(g, f, S) ==
    g = [s \in SUBSET S |->
           IF s = {} THEN 1
           ELSE f[CHOOSE x \in s : TRUE] * g[s \ {CHOOSE x \in s : TRUE}]]
Products(f, S) == CHOOSE g : SolvesProduct(g, f, S)

LEMMA ProductIsFold ==
    ASSUME NEW f
    PROVE  FoldFunction(LAMBDA x, y : x * y, 1, f) = Products(f, DOMAIN f)[DOMAIN f]
BY DEF FoldFunction, FoldFunctionOnSet, MapThenFoldSet, Products, SolvesProduct

LEMMA ProductSolutionsAgree ==
    ASSUME NEW f, NEW S, IsFiniteSet(S), NEW T, IsFiniteSet(T),
           NEW g, SolvesProduct(g, f, S), NEW h, SolvesProduct(h, f, T),
           NEW s \in SUBSET S, s \in SUBSET T
    PROVE  g[s] = h[s]
<1> DEFINE F == {u \in SUBSET s : g[u] # h[u]}
<1>1. SUFFICES ASSUME F # {} PROVE FALSE
  OBVIOUS
<1>2. \A u \in F : IsFiniteSet(u)
  BY FS_Subset
<1>3. PICK u \in F : \A v \in F : Cardinality(u) <= Cardinality(v)
  BY <1>1, <1>2, SmallestSet
<1>4. u \in SUBSET S /\ u \in SUBSET T /\ u \in SUBSET s /\ g[u] # h[u]
  OBVIOUS
<1> HIDE DEF F
<1>5. /\ g[u] = IF u = {} THEN 1 ELSE f[Chosen(u)] * g[u \ {Chosen(u)}]
      /\ h[u] = IF u = {} THEN 1 ELSE f[Chosen(u)] * h[u \ {Chosen(u)}]
  BY <1>4 DEF SolvesProduct, Chosen
<1>6. u # {}
  BY <1>4, <1>5
<1> DEFINE v == u \ {Chosen(u)}
<1>7. g[v] # h[v]
  BY <1>4, <1>5, <1>6
<1>8. v \in F
  BY <1>4, <1>7 DEF F
<1>9. Cardinality(u) <= Cardinality(v)
  BY <1>3, <1>8
<1>10. Cardinality(v) \in Nat /\ Cardinality(u) \in Nat /\ Cardinality(v) < Cardinality(u)
  BY <1>2, <1>6, ChosenIsIn, Smaller
<1>11. QED
  BY <1>9, <1>10

LEMMA ProductSolutionExists ==
    ASSUME NEW f, NEW S, IsFiniteSet(S)
    PROVE  SolvesProduct(Products(f, S), f, S)
<1> DEFINE F == {u \in SUBSET S : ~ SolvesProduct(Products(f, u), f, u)}
<1>1. SUFFICES ASSUME F # {} PROVE FALSE
  OBVIOUS
<1>2. \A u \in F : IsFiniteSet(u)
  BY FS_Subset
<1>3. PICK u \in F : \A v \in F : Cardinality(u) <= Cardinality(v)
  BY <1>1, <1>2, SmallestSet
<1>4. u \in SUBSET S /\ IsFiniteSet(u) /\ ~ SolvesProduct(Products(f, u), f, u)
  BY <1>2
<1>5. ASSUME NEW v \in SUBSET u, v # u PROVE IsFiniteSet(v) /\ SolvesProduct(Products(f, v), f, v)
  <2>1. /\ IsFiniteSet(v) /\ Cardinality(v) <= Cardinality(u)
        /\ Cardinality(u) = Cardinality(v) => u = v
    BY <1>4, FS_Subset
  <2>2. Cardinality(v) \in Nat /\ Cardinality(u) \in Nat
    BY <1>4, <2>1, FS_CardinalityType
  <2>3. v \notin F
    BY <1>3, <1>5, <2>1, <2>2
  <2>4. QED
    BY <1>4, <2>1, <2>3
<1> DEFINE value(v) == IF v = {} THEN 1 ELSE f[Chosen(v)] * Products(f, v \ {Chosen(v)})[v \ {Chosen(v)}]
           g == [v \in SUBSET u |-> value(v)]
<1>6. ASSUME NEW v \in SUBSET u, v # {}
      PROVE  Products(f, v \ {Chosen(v)})[v \ {Chosen(v)}] = g[v \ {Chosen(v)}]
  <2> DEFINE w == v \ {Chosen(v)}
             y == w \ {Chosen(w)}
  <2>1. Chosen(v) \in v /\ w \in SUBSET u /\ w # u
    BY <1>6, ChosenIsIn
  <2>2. IsFiniteSet(w) /\ SolvesProduct(Products(f, w), f, w)
    BY <1>5, <2>1
  <2>3. Products(f, w)[w] = IF w = {} THEN 1 ELSE f[Chosen(w)] * Products(f, w)[y]
    <3> HIDE DEF w
    <3>1. w \in SUBSET w
      OBVIOUS
    <3>2. QED
      BY <2>2, <3>1 DEF SolvesProduct, Chosen
  <2>4. g[w] = IF w = {} THEN 1 ELSE f[Chosen(w)] * Products(f, y)[y]
    BY <2>1
  <2>5. w # {} => Products(f, w)[y] = Products(f, y)[y]
    <3>1. SUFFICES ASSUME w # {} PROVE Products(f, w)[y] = Products(f, y)[y]
      OBVIOUS
    <3>2. y \in SUBSET u /\ y # u
      BY <2>1
    <3>3. IsFiniteSet(y) /\ SolvesProduct(Products(f, y), f, y)
      BY <1>5, <3>2
    <3> HIDE DEF w
    <3>4. y \in SUBSET w
      OBVIOUS
    <3> HIDE DEF y
    <3>5. QED
      BY <2>2, <3>3, <3>4, ProductSolutionsAgree
  <2>6. QED
    BY <2>3, <2>4, <2>5
<1>7. g = [v \in SUBSET u |-> IF v = {} THEN 1 ELSE f[Chosen(v)] * g[v \ {Chosen(v)}]]
  BY <1>6
<1>8. SolvesProduct(g, f, u)
  BY <1>7 DEF SolvesProduct, Chosen
<1>9. SolvesProduct(Products(f, u), f, u)
  BY <1>8 DEF Products
<1>10. QED
  BY <1>4, <1>9

LEMMA ProductNat ==
    ASSUME NEW f, IsFiniteSet(DOMAIN f), \A x \in DOMAIN f : f[x] \in Nat
    PROVE  FoldFunction(LAMBDA x, y : x * y, 1, f) \in Nat
<1> DEFINE S == DOMAIN f
           g == Products(f, S)
           F == {u \in SUBSET S : g[u] \notin Nat}
<1>1. SolvesProduct(g, f, S)
  BY ProductSolutionExists
<1> HIDE DEF g
<1>2. CASE F = {}
  <2>1. S \in SUBSET S
    OBVIOUS
  <2>2. g[S] \in Nat
    BY <1>2
  <2>3. QED
    BY <2>2, ProductIsFold DEF g
<1>3. CASE F # {}
  <2>1. \A u \in F : IsFiniteSet(u)
    BY FS_Subset
  <2>2. PICK u \in F : \A v \in F : Cardinality(u) <= Cardinality(v)
    BY <1>3, <2>1, SmallestSet
  <2>3. u \in SUBSET S /\ IsFiniteSet(u) /\ g[u] \notin Nat
    BY <2>1
  <2> DEFINE x == Chosen(u)
             v == u \ {x}
  <2>4. g[u] = IF u = {} THEN 1 ELSE f[x] * g[v]
    BY <1>1, <2>3 DEF SolvesProduct, Chosen
  <2>5. x \in u /\ f[x] \in Nat
    BY <2>3, <2>4, ChosenIsIn
  <2> HIDE DEF x
  <2>6. Cardinality(v) \in Nat /\ Cardinality(u) \in Nat /\ Cardinality(v) < Cardinality(u)
    BY <2>3, <2>5, Smaller
  <2>7. v \notin F
    <3> HIDE DEF F
    <3>1. QED
      BY <2>2, <2>6
  <2>8. g[v] \in Nat
    BY <2>3, <2>7
  <2> DEFINE a == g[v]
             b == f[x]
  <2>9. a \in Nat /\ b \in Nat /\ g[u] = b * a
    BY <2>4, <2>5, <2>8
  <2> HIDE DEF a, b
  <2>10. b * a \in Nat
    BY <2>9
  <2>11. QED
    BY <2>3, <2>9, <2>10
<1>4. QED
  BY <1>2, <1>3

=============================================================================
