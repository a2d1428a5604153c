------------------------------- MODULE Recursion -------------------------------
(***************************************************************************)
(* Induction and recursion without an operator as a parameter: what the    *)
(* proofs about folds and sums rest on.  The counterexamples of a claim    *)
(* are a set; if there were any, there would be a least one (LeastNat,     *)
(* LeastSet).  A recursive definition has a solution (SetRecursion), and   *)
(* the folds of the community modules are such definitions.  A fold over a *)
(* sequence takes one step for each member (FoldExists, FoldSteps); the    *)
(* sums, selections and readings of records that the models write as folds *)
(* are followed step by step here, and what is laid one after the other in *)
(* a sequence is found again where it was laid (Holds, SevenParts).        *)
(***************************************************************************)
EXTENDS Integers, FiniteSets, Sequences, Functions, SequencesExt, FiniteSetsExt,
        FiniteSetTheorems, SequenceTheorems, WellFoundedInduction, TLAPS

\* A set of finite sets that is not empty has a member of which no other member is a subset.
LEMMA LeastSet ==
  ASSUME NEW D, NEW T, T \subseteq FiniteSubsetsOf(D), T # {}
  PROVE  \E m \in T : \A u \in T : u \subseteq m => u = m
<1> DEFINE R == StrictSubsetOrdering(D)
<1>2. IsWellFoundedOn(R, FiniteSubsetsOf(D))
  BY FS_StrictSubsetOrderingWellFounded
<1> HIDE DEF R
<1>3. PICK m \in T : \A u \in T : ~(<<u, m>> \in R)
  BY <1>2, WFMin
<1>4. ASSUME NEW u \in T, u \subseteq m, u # m PROVE FALSE
  <2>1. <<u, m>> \in R
    BY <1>4 DEF R, StrictSubsetOrdering, FiniteSubsetsOf
  <2> QED BY <1>3, <2>1
<1> QED BY <1>4

\* Every set of naturals that is not empty has a least element.
LEMMA LeastNat ==
  ASSUME NEW T \in SUBSET Nat, T # {}
  PROVE  \E m \in T : \A k \in T : m <= k
<1> DEFINE U == {0 .. k : k \in T}
<1>1. U # {} /\ U \subseteq FiniteSubsetsOf(Nat)
  <2>1. \A k \in T : 0 .. k \in FiniteSubsetsOf(Nat)
    BY FS_Interval DEF FiniteSubsetsOf
  <2> QED BY <2>1
<1>2. PICK x \in U : \A u \in U : u \subseteq x => u = x
  <2> HIDE DEF U
  <2> QED BY <1>1, LeastSet
<1>3. PICK m \in T : x = 0 .. m
  OBVIOUS
<1>4. ASSUME NEW k \in T, k < m PROVE FALSE
  <2>1. 0 .. k \subseteq 0 .. m /\ m \in 0 .. m /\ m \notin 0 .. k
    BY <1>4
  <2>2. 0 .. k = 0 .. m
    BY <1>2, <1>3, <2>1
  <2> QED BY <2>1, <2>2
<1> QED BY <1>4

\* The maximum and the minimum of a finite set of integers.
LEMMA GreatestInt ==
  ASSUME NEW S \in SUBSET Int, IsFiniteSet(S), S # {}
  PROVE  \E m \in S : \A k \in S : k <= m
<1> SUFFICES ASSUME \A m \in S : \E k \in S : ~(k <= m) PROVE FALSE
  OBVIOUS
<1> DEFINE above(m) == {k \in S : k > m}
           U == {above(m) : m \in S}
<1>1. U # {} /\ U \subseteq FiniteSubsetsOf(S)
  <2>1. \A m \in S : above(m) \in FiniteSubsetsOf(S)
    BY FS_Subset DEF FiniteSubsetsOf
  <2> QED BY <2>1
<1>2. PICK x \in U : \A u \in U : u \subseteq x => u = x
  <2> HIDE DEF U
  <2> QED BY <1>1, LeastSet
<1>3. PICK m \in S : x = above(m)
  OBVIOUS
<1>4. PICK k \in S : k > m
  OBVIOUS
<1>5. above(k) \in U /\ above(k) \subseteq above(m) /\ k \in above(m) /\ k \notin above(k)
  <2>1. k \in Int /\ m \in Int
    OBVIOUS
  <2>2. \A i \in S : i > k => i > m
    BY <1>4, <2>1
  <2>3. above(k) \in U
    OBVIOUS
  <2>4. above(k) \subseteq above(m) /\ k \in above(m)
    BY <1>4, <2>2
  <2>5. k \notin above(k)
    BY <2>1
  <2> QED BY <2>3, <2>4, <2>5
<1>6. above(k) = above(m)
  BY <1>2, <1>3, <1>5
<1> QED BY <1>5, <1>6

-----------------------------------------------------------------------------
(* Recursion over the subsets of a finite set.                             *)

\* g solves the recursion on the subsets of s: c chooses the element that is taken away, f says
\* what it contributes.
Solves(g, s, V, b, c, f) ==
  /\ g \in [SUBSET s -> V]
  /\ \A u \in SUBSET s : g[u] = IF u = {} THEN b ELSE f[<<g[u \ {c[u]}], c[u]>>]

\* Solutions on two sets agree on the subsets of both.
LEMMA SolutionsAgree ==
  ASSUME NEW D, IsFiniteSet(D), NEW V, NEW b, NEW c, NEW f,
         \A u \in SUBSET D : u # {} => c[u] \in u,
         NEW s \in SUBSET D, NEW t \in SUBSET D, NEW g, NEW h,
         Solves(g, s, V, b, c, f), Solves(h, t, V, b, c, f)
  PROVE  \A u \in SUBSET (s \cap t) : g[u] = h[u]
<1> SUFFICES ASSUME NEW w \in SUBSET (s \cap t), g[w] # h[w] PROVE FALSE
  OBVIOUS
<1> DEFINE T == {u \in SUBSET (s \cap t) : g[u] # h[u]}
<1>1. T # {} /\ T \subseteq FiniteSubsetsOf(D)
  BY FS_Subset DEF FiniteSubsetsOf
<1>2. PICK m \in T : \A u \in T : u \subseteq m => u = m
  <2> HIDE DEF T
  <2> QED BY <1>1, LeastSet
<1>3. g[m] # h[m] /\ m \in SUBSET s /\ m \in SUBSET t /\ m \in SUBSET D
  OBVIOUS
<1>4. m # {}
  BY <1>3 DEF Solves
<1>5. c[m] \in m
  BY <1>3, <1>4
<1>6. m \ {c[m]} \in SUBSET (s \cap t) /\ m \ {c[m]} \subseteq m /\ m \ {c[m]} # m
  BY <1>5
<1>7. g[m \ {c[m]}] = h[m \ {c[m]}]
  BY <1>2, <1>6
<1> QED
  BY <1>3, <1>4, <1>7 DEF Solves

\* The recursion has a solution.
LEMMA SetRecursion ==
  ASSUME NEW D, IsFiniteSet(D), NEW V, NEW b \in V, NEW c, NEW f,
         \A u \in SUBSET D : u # {} => c[u] \in u,
         \A v \in V, x \in D : f[<<v, x>>] \in V
  PROVE  \E g : Solves(g, D, V, b, c, f)
<1> SUFFICES ASSUME ~ \E g : Solves(g, D, V, b, c, f) PROVE FALSE
  OBVIOUS
<1> DEFINE T == {s \in SUBSET D : ~ \E g : Solves(g, s, V, b, c, f)}
<1>1. T # {} /\ T \subseteq FiniteSubsetsOf(D)
  BY FS_Subset DEF FiniteSubsetsOf
<1>2. PICK s \in T : \A u \in T : u \subseteq s => u = s
  <2> HIDE DEF T
  <2> QED BY <1>1, LeastSet
<1>3. s \in SUBSET D /\ ~ \E g : Solves(g, s, V, b, c, f)
  OBVIOUS
<1> DEFINE sol(u) == CHOOSE g : Solves(g, u, V, b, c, f)
<1>4. \A u \in SUBSET s : u # s => Solves(sol(u), u, V, b, c, f)
  <2> TAKE u \in SUBSET s
  <2> HAVE u # s
  <2>1. \E g : Solves(g, u, V, b, c, f)
    BY <1>2, <1>3
  <2> QED BY <2>1
<1> HIDE DEF T, sol
<1> DEFINE step(u) == IF u = {} THEN b ELSE f[<<sol(u \ {c[u]})[u \ {c[u]}], c[u]>>]
           g == [u \in SUBSET s |-> step(u)]
<1>5. \A u \in SUBSET s : u # {} =>
        /\ c[u] \in u /\ u \ {c[u]} \in SUBSET s /\ u \ {c[u]} # s /\ u \ {c[u]} \subseteq u
  BY <1>3
<1>6. \A u \in SUBSET s : step(u) \in V
  <2> TAKE u \in SUBSET s
  <2>1. CASE u = {}
    BY <2>1
  <2>2. CASE u # {}
    <3>1. sol(u \ {c[u]})[u \ {c[u]}] \in V
      <4> DEFINE w == u \ {c[u]}
      <4>1. w \in SUBSET s /\ w # s
        BY <1>5, <2>2
      <4> HIDE DEF w
      <4>2. Solves(sol(w), w, V, b, c, f)
        BY <1>4, <4>1
      <4>3. sol(w)[w] \in V
        BY <4>2 DEF Solves
      <4> QED BY <4>3 DEF w
    <3>2. c[u] \in D
      BY <1>3, <1>5, <2>2
    <3> QED BY <2>2, <3>1, <3>2
  <2> QED BY <2>1, <2>2
<1>7. g \in [SUBSET s -> V]
  BY <1>6
<1>8. \A u \in SUBSET s : u # s => g[u] = sol(u)[u]
  <2> TAKE u \in SUBSET s
  <2> HAVE u # s
  <2>1. Solves(sol(u), u, V, b, c, f)
    BY <1>4
  <2>2. CASE u = {}
    BY <2>1, <2>2 DEF Solves
  <2>3. CASE u # {}
    <3> DEFINE w == u \ {c[u]}
    <3>1. w \in SUBSET s /\ w # s /\ w \in SUBSET u /\ u \in SUBSET D /\ w \in SUBSET D
      BY <1>3, <1>5, <2>3
    <3>2. Solves(sol(w), w, V, b, c, f)
      BY <1>4, <3>1
    <3>3. sol(w)[w] = sol(u)[w]
      <4> HIDE DEF w
      <4>1. \A x \in SUBSET (w \cap u) : sol(w)[x] = sol(u)[x]
        BY <2>1, <3>1, <3>2, SolutionsAgree
      <4> QED BY <3>1, <4>1
    <3>4. sol(u)[u] = f[<<sol(u)[w], c[u]>>]
      BY <2>1, <2>3 DEF Solves
    <3>5. g[u] = f[<<sol(w)[w], c[u]>>]
      BY <2>3
    <3> QED BY <3>3, <3>4, <3>5
  <2> QED BY <2>2, <2>3
<1>9. \A u \in SUBSET s : g[u] = IF u = {} THEN b ELSE f[<<g[u \ {c[u]}], c[u]>>]
  <2> TAKE u \in SUBSET s
  <2>1. CASE u = {}
    BY <2>1
  <2>2. CASE u # {}
    <3>1. g[u \ {c[u]}] = sol(u \ {c[u]})[u \ {c[u]}]
      BY <1>5, <1>8, <2>2
    <3> QED BY <2>2, <3>1
  <2> QED BY <2>1, <2>2
<1>10. Solves(g, s, V, b, c, f)
  <2> HIDE DEF g
  <2> QED BY <1>7, <1>9 DEF Solves
<1> QED BY <1>3, <1>10

-----------------------------------------------------------------------------
(* Sums over finite sets.                                                  *)

Chosen(s) == CHOOSE x \in s : TRUE

\* What defines the sums of f over the subsets of s.
SumsOn(h, f, s) ==
  h = [u \in SUBSET s |-> IF u = {} THEN 0 ELSE f[Chosen(u)] + h[u \ {Chosen(u)}]]

\* There is a function that defines the sums, and the sum of all is its value.
LEMMA SumsExist ==
  ASSUME NEW S, IsFiniteSet(S), NEW f, \A x \in S : f[x] \in Int
  PROVE  \E h : /\ SumsOn(h, f, S) /\ SumFunctionOnSet(f, S) = h[S]
                /\ h \in [SUBSET S -> Int]
<1> DEFINE c == [u \in SUBSET S |-> Chosen(u)]
           g == [a \in Int \X S |-> f[a[2]] + a[1]]
<1>1. \A u \in SUBSET S : u # {} => c[u] \in u
  BY DEF Chosen
<1>2. \A v \in Int, x \in S : g[<<v, x>>] = f[x] + v /\ g[<<v, x>>] \in Int
  OBVIOUS
<1> HIDE DEF g
<1>3. PICK h : Solves(h, S, Int, 0, c, g)
  <2> HIDE DEF c
  <2> QED
    BY <1>1, <1>2, SetRecursion
<1>4. \A u \in SUBSET S : u # {} =>
        h[u] = f[Chosen(u)] + h[u \ {Chosen(u)}] /\ h[u \ {Chosen(u)}] \in Int
  <2> TAKE u \in SUBSET S
  <2> HAVE u # {}
  <2>1. c[u] = Chosen(u) /\ Chosen(u) \in S /\ u \ {Chosen(u)} \in SUBSET S
    BY <1>1
  <2>2. h[u] = g[<<h[u \ {c[u]}], c[u]>>]
    BY <1>3 DEF Solves
  <2>3. h[u \ {Chosen(u)}] \in Int
    BY <1>3, <2>1 DEF Solves
  <2> QED
    BY <1>2, <2>1, <2>2, <2>3
<1>5. h \in [SUBSET S -> Int] /\ h[{}] = 0
  BY <1>3 DEF Solves
<1>6. SumsOn(h, f, S)
  BY <1>4, <1>5 DEF SumsOn
<1>7. SumsOn(CHOOSE k : SumsOn(k, f, S), f, S)
  BY <1>6
<1> DEFINE k == CHOOSE k : SumsOn(k, f, S)
<1>8. SumFunctionOnSet(f, S) = k[S]
  BY DEF SumFunctionOnSet, FoldFunctionOnSet, MapThenFoldSet, SumsOn, Chosen
<1> HIDE DEF k
<1>9. SumsOn(k, f, S)
  BY <1>7 DEF k
<1>10. k \in [SUBSET S -> Int]
  <2> SUFFICES ASSUME NEW w \in SUBSET S, k[w] \notin Int PROVE FALSE
    BY <1>9 DEF SumsOn
  <2> DEFINE T == {u \in SUBSET S : k[u] \notin Int}
  <2>1. T # {} /\ T \subseteq FiniteSubsetsOf(S)
    BY FS_Subset DEF FiniteSubsetsOf
  <2>2. PICK m \in T : \A u \in T : u \subseteq m => u = m
    <3> HIDE DEF T
    <3> QED
      BY <2>1, LeastSet
  <2>3. k[m] = IF m = {} THEN 0 ELSE f[Chosen(m)] + k[m \ {Chosen(m)}]
    BY <1>9 DEF SumsOn
  <2>4. m # {}
    BY <2>3
  <2>5. Chosen(m) \in m /\ m \ {Chosen(m)} # m
    BY <2>4 DEF Chosen
  <2>6. k[m \ {Chosen(m)}] \in Int
    BY <2>2, <2>5
  <2> QED
    BY <2>2, <2>3, <2>4, <2>5, <2>6
<1> QED
  BY <1>8, <1>9, <1>10

\* Two ways to sum the same numbers agree.
LEMMA SumsAgree ==
  ASSUME NEW S, IsFiniteSet(S), NEW T \in SUBSET S, NEW f, NEW g,
         \A x \in T : f[x] = g[x],
         NEW h, SumsOn(h, f, S), NEW k, SumsOn(k, g, T)
  PROVE  \A u \in SUBSET T : h[u] = k[u]
<1> SUFFICES ASSUME NEW w \in SUBSET T, h[w] # k[w] PROVE FALSE
  OBVIOUS
<1> DEFINE C == {u \in SUBSET T : h[u] # k[u]}
<1>1. C # {} /\ C \subseteq FiniteSubsetsOf(S)
  BY FS_Subset DEF FiniteSubsetsOf
<1>2. PICK m \in C : \A u \in C : u \subseteq m => u = m
  <2> HIDE DEF C
  <2> QED
    BY <1>1, LeastSet
<1>3. /\ h[m] = IF m = {} THEN 0 ELSE f[Chosen(m)] + h[m \ {Chosen(m)}]
      /\ k[m] = IF m = {} THEN 0 ELSE g[Chosen(m)] + k[m \ {Chosen(m)}]
  BY DEF SumsOn
<1>4. m # {}
  BY <1>3
<1>5. Chosen(m) \in m /\ m \ {Chosen(m)} # m
  BY <1>4 DEF Chosen
<1>6. h[m \ {Chosen(m)}] = k[m \ {Chosen(m)}] /\ f[Chosen(m)] = g[Chosen(m)]
  BY <1>2, <1>5
<1> QED
  BY <1>3, <1>4, <1>6

\* A sum of integers is one.
LEMMA SumTyped ==
  ASSUME NEW S, IsFiniteSet(S), NEW f, \A x \in S : f[x] \in Int
  PROVE  SumFunctionOnSet(f, S) \in Int
<1>1. PICK h : SumFunctionOnSet(f, S) = h[S] /\ h \in [SUBSET S -> Int]
  BY SumsExist
<1> QED
  BY <1>1

\* The sum over nothing is zero.
LEMMA SumEmpty ==
  ASSUME NEW f
  PROVE  SumFunctionOnSet(f, {}) = 0
<1>1. PICK h : SumsOn(h, f, {}) /\ SumFunctionOnSet(f, {}) = h[{}]
  BY FS_EmptySet, SumsExist
<1> QED
  BY <1>1 DEF SumsOn

\* The sum depends on the numbers summed only.
LEMMA SumSame ==
  ASSUME NEW S, IsFiniteSet(S), NEW f, NEW g, \A x \in S : f[x] \in Int /\ g[x] = f[x]
  PROVE  SumFunctionOnSet(f, S) = SumFunctionOnSet(g, S)
<1>1. PICK h : SumsOn(h, f, S) /\ SumFunctionOnSet(f, S) = h[S]
  BY SumsExist
<1>2. PICK k : SumsOn(k, g, S) /\ SumFunctionOnSet(g, S) = k[S]
  BY SumsExist
<1> QED
  BY <1>1, <1>2, SumsAgree

\* One number can be taken out of a sum.
LEMMA SumSplit ==
  ASSUME NEW S, IsFiniteSet(S), NEW f, \A x \in S : f[x] \in Int, NEW e \in S
  PROVE  SumFunctionOnSet(f, S) = f[e] + SumFunctionOnSet(f, S \ {e})
<1>1. PICK h : SumsOn(h, f, S) /\ SumFunctionOnSet(f, S) = h[S] /\ h \in [SUBSET S -> Int]
  BY SumsExist
<1>2. IsFiniteSet(S \ {e})
  BY FS_Subset
<1>3. PICK k : SumsOn(k, f, S \ {e}) /\ SumFunctionOnSet(f, S \ {e}) = k[S \ {e}]
  BY <1>2, SumsExist
<1>4. h[S \ {e}] = k[S \ {e}]
  BY <1>1, <1>3, SumsAgree
<1> DEFINE C == {u \in SUBSET S : \E a \in u : h[u] # f[a] + h[u \ {a}]}
<1>5. ASSUME C # {} PROVE FALSE
  <2>1. C # {} /\ C \subseteq FiniteSubsetsOf(S)
    BY <1>5, FS_Subset DEF FiniteSubsetsOf
  <2>2. PICK m \in C : \A u \in C : u \subseteq m => u = m
    <3> HIDE DEF C
    <3> QED
      BY <2>1, LeastSet
  <2>3. PICK a \in m : h[m] # f[a] + h[m \ {a}]
    OBVIOUS
  <2> DEFINE x == Chosen(m)
  <2>4. x \in m /\ m # {} /\ m \in SUBSET S
    BY <2>3 DEF Chosen
  <2>5. h[m] = f[x] + h[m \ {x}]
    BY <1>1, <2>4 DEF SumsOn
  <2> HIDE DEF x
  <2>6. x # a
    BY <2>3, <2>5
  <2>7. ASSUME NEW u \in SUBSET m, u # m, NEW b \in u PROVE h[u] = f[b] + h[u \ {b}]
    BY <2>2, <2>4, <2>7
  <2>8. h[m \ {x}] = f[a] + h[(m \ {x}) \ {a}]
    <3>1. m \ {x} \in SUBSET m /\ m \ {x} # m /\ a \in m \ {x}
      BY <2>4, <2>6
    <3> QED
      BY <2>7, <3>1
  <2>9. h[m \ {a}] = f[x] + h[(m \ {a}) \ {x}]
    <3>1. m \ {a} \in SUBSET m /\ m \ {a} # m /\ x \in m \ {a}
      BY <2>4, <2>6
    <3> QED
      BY <2>7, <3>1
  <2> DEFINE z == h[(m \ {a}) \ {x}]
  <2>10. (m \ {x}) \ {a} = (m \ {a}) \ {x}
    OBVIOUS
  <2>11. f[x] \in Int /\ f[a] \in Int /\ z \in Int
    BY <1>1, <2>4
  <2>12. h[m \ {x}] = f[a] + z /\ h[m \ {a}] = f[x] + z
    BY <2>8, <2>9, <2>10
  <2> HIDE DEF z
  <2>13. h[m] = f[a] + h[m \ {a}]
    BY <2>5, <2>11, <2>12
  <2> QED
    BY <2>3, <2>13
<1>6. h[S] = f[e] + h[S \ {e}]
  BY <1>5
<1> QED
  BY <1>1, <1>3, <1>4, <1>6

\* A sum grows by what one of its numbers grows by.
LEMMA SumChanged ==
  ASSUME NEW S, IsFiniteSet(S), NEW e \in S, NEW f, NEW g, NEW d \in Int,
         \A x \in S : f[x] \in Int,
         \A x \in S \ {e} : g[x] = f[x], g[e] = f[e] + d
  PROVE  SumFunctionOnSet(g, S) = SumFunctionOnSet(f, S) + d
<1>1. IsFiniteSet(S \ {e}) /\ \A x \in S : g[x] \in Int
  BY FS_Subset
<1>2. /\ SumFunctionOnSet(f, S) = f[e] + SumFunctionOnSet(f, S \ {e})
      /\ SumFunctionOnSet(g, S) = g[e] + SumFunctionOnSet(g, S \ {e})
  BY <1>1, SumSplit
<1>3. SumFunctionOnSet(f, S \ {e}) = SumFunctionOnSet(g, S \ {e})
  BY <1>1, SumSame
<1>4. SumFunctionOnSet(f, S \ {e}) \in Int
  BY <1>1, SumTyped
<1> QED
  BY <1>2, <1>3, <1>4


\* Sums over two sets that share nothing add up.
LEMMA SumUnion ==
  ASSUME NEW S, IsFiniteSet(S), NEW f, \A x \in S : f[x] \in Int, NEW A \in SUBSET S
  PROVE  SumFunctionOnSet(f, S) = SumFunctionOnSet(f, A) + SumFunctionOnSet(f, S \ A)
<1> DEFINE C == {u \in SUBSET S : SumFunctionOnSet(f, S)
                                    # SumFunctionOnSet(f, u) + SumFunctionOnSet(f, S \ u)}
<1> SUFFICES ASSUME C # {} PROVE FALSE
  OBVIOUS
<1>1. C \subseteq FiniteSubsetsOf(S)
  BY FS_Subset DEF FiniteSubsetsOf
<1>2. PICK m \in C : \A u \in C : u \subseteq m => u = m
  <2> HIDE DEF C
  <2> QED
    BY <1>1, LeastSet
<1>3. /\ m \in SUBSET S
      /\ SumFunctionOnSet(f, S) # SumFunctionOnSet(f, m) + SumFunctionOnSet(f, S \ m)
  OBVIOUS
<1>4. SumFunctionOnSet(f, S) \in Int
  BY SumTyped
<1>5. m # {}
  <2> SUFFICES ASSUME m = {} PROVE FALSE
    OBVIOUS
  <2>1. S \ m = S
    OBVIOUS
  <2> QED
    BY <1>3, <1>4, <2>1, SumEmpty
<1>6. PICK e \in m : TRUE
  BY <1>5
<1> DEFINE n == m \ {e}
<1>7. n \in SUBSET S /\ n \subseteq m /\ n # m /\ e \in S \ n /\ (S \ n) \ {e} = S \ m
  BY <1>3
<1>8. SumFunctionOnSet(f, S) = SumFunctionOnSet(f, n) + SumFunctionOnSet(f, S \ n)
  BY <1>2, <1>7
<1>9. IsFiniteSet(m) /\ IsFiniteSet(n) /\ IsFiniteSet(S \ n) /\ IsFiniteSet(S \ m)
  BY <1>3, FS_Subset
<1>10. SumFunctionOnSet(f, m) = f[e] + SumFunctionOnSet(f, n)
  BY <1>3, <1>9, SumSplit
<1>11. SumFunctionOnSet(f, S \ n) = f[e] + SumFunctionOnSet(f, S \ m)
  <2>1. \A x \in S \ n : f[x] \in Int
    OBVIOUS
  <2>2. SumFunctionOnSet(f, S \ n) = f[e] + SumFunctionOnSet(f, (S \ n) \ {e})
    BY <1>7, <1>9, <2>1, SumSplit
  <2> QED
    BY <1>7, <2>2
<1>12. /\ SumFunctionOnSet(f, n) \in Int /\ SumFunctionOnSet(f, S \ m) \in Int
       /\ SumFunctionOnSet(f, m) \in Int /\ f[e] \in Int
  BY <1>3, <1>9, SumTyped
<1> QED
  BY <1>3, <1>8, <1>10, <1>11, <1>12

\* A sum does not depend on what its numbers are called.
LEMMA SumMapped ==
  ASSUME NEW S, IsFiniteSet(S), NEW b, \A x, y \in S : b[x] = b[y] => x = y,
         NEW f, NEW g, \A x \in S : g[x] \in Int /\ f[b[x]] = g[x]
  PROVE  SumFunctionOnSet(f, {b[x] : x \in S}) = SumFunctionOnSet(g, S)
<1> DEFINE C == {u \in SUBSET S : SumFunctionOnSet(f, {b[x] : x \in u})
                                    # SumFunctionOnSet(g, u)}
<1> SUFFICES ASSUME C # {} PROVE FALSE
  OBVIOUS
<1>1. C \subseteq FiniteSubsetsOf(S)
  BY FS_Subset DEF FiniteSubsetsOf
<1>2. PICK m \in C : \A u \in C : u \subseteq m => u = m
  <2> HIDE DEF C
  <2> QED
    BY <1>1, LeastSet
<1> DEFINE Image(u) == {b[x] : x \in u}
<1>3. m \in SUBSET S /\ SumFunctionOnSet(f, Image(m)) # SumFunctionOnSet(g, m)
  OBVIOUS
<1>4. m # {}
  <2> SUFFICES ASSUME m = {} PROVE FALSE
    OBVIOUS
  <2>1. Image(m) = {}
    OBVIOUS
  <2> QED
    BY <1>3, <2>1, SumEmpty
<1>5. PICK e \in m : TRUE
  BY <1>4
<1> DEFINE n == m \ {e}
<1>6. n \in SUBSET S /\ n \subseteq m /\ n # m /\ e \in S
  BY <1>3
<1>7. SumFunctionOnSet(f, Image(n)) = SumFunctionOnSet(g, n)
  BY <1>2, <1>6
<1>8. IsFiniteSet(m) /\ IsFiniteSet(n)
  BY <1>3, FS_Subset
<1>9. IsFiniteSet(Image(m))
  <2> DEFINE h == [x \in m |-> b[x]]
  <2>1. Image(m) = {h[x] : x \in m}
    OBVIOUS
  <2>2. h \in [m -> Image(m)] /\ \A y \in Image(m) : \E x \in m : h[x] = y
    OBVIOUS
  <2>3. h \in Surjection(m, Image(m))
    BY <2>2 DEF Surjection
  <2> HIDE DEF h, Image
  <2> QED
    BY <1>8, <2>3, FS_Surjection
<1>10. Image(m) \ {b[e]} = Image(n) /\ b[e] \in Image(m)
  BY <1>3
<1>11. \A y \in Image(m) : f[y] \in Int
  BY <1>3
<1> HIDE DEF Image, n
<1>12. SumFunctionOnSet(f, Image(m)) = f[b[e]] + SumFunctionOnSet(f, Image(n))
  BY <1>9, <1>10, <1>11, SumSplit
<1>13. SumFunctionOnSet(g, m) = g[e] + SumFunctionOnSet(g, n)
  BY <1>3, <1>8, SumSplit DEF n
<1> QED
  BY <1>3, <1>6, <1>7, <1>12, <1>13

\* A sum of naturals is one.
LEMMA SumNatural ==
  ASSUME NEW S, IsFiniteSet(S), NEW f, \A x \in S : f[x] \in Nat
  PROVE  SumFunctionOnSet(f, S) \in Nat
<1> DEFINE C == {u \in SUBSET S : SumFunctionOnSet(f, u) \notin Nat}
<1> SUFFICES ASSUME C # {} PROVE FALSE
  OBVIOUS
<1>1. C \subseteq FiniteSubsetsOf(S)
  BY FS_Subset DEF FiniteSubsetsOf
<1>2. PICK m \in C : \A u \in C : u \subseteq m => u = m
  <2> HIDE DEF C
  <2> QED
    BY <1>1, LeastSet
<1>3. m \in SUBSET S /\ SumFunctionOnSet(f, m) \notin Nat
  OBVIOUS
<1>4. m # {}
  BY <1>3, SumEmpty
<1>5. PICK e \in m : TRUE
  BY <1>4
<1> DEFINE n == m \ {e}
<1>6. n \in SUBSET S /\ n \subseteq m /\ n # m /\ e \in S
  BY <1>3
<1>7. SumFunctionOnSet(f, n) \in Nat
  BY <1>2, <1>6
<1>8. IsFiniteSet(m)
  BY <1>3, FS_Subset
<1>9. SumFunctionOnSet(f, m) = f[e] + SumFunctionOnSet(f, n)
  BY <1>3, <1>8, SumSplit
<1> QED
  BY <1>3, <1>6, <1>7, <1>9

-----------------------------------------------------------------------------
(* Integers.                                                               *)

\* Numbers less than a divisor apart leave different remainders.
LEMMA RemaindersApart ==
  ASSUME NEW m \in Nat \ {0}, NEW p \in Nat, NEW q \in Nat, p < q, q < p + m
  PROVE  p % m # q % m
<1> DEFINE a == p \div m
           b == q \div m
<1>1. /\ a \in Int /\ p = m * a + (p % m) /\ p % m \in 0 .. m - 1
      /\ b \in Int /\ q = m * b + (q % m) /\ q % m \in 0 .. m - 1
  OBVIOUS
<1> HIDE DEF a, b
<1> SUFFICES ASSUME p % m = q % m PROVE FALSE
  OBVIOUS
<1>2. m * a < m * b /\ m * b < m * a + m /\ m * a \in Int /\ m * b \in Int
  BY <1>1
<1>3. ASSUME NEW x \in Int, NEW y \in Int, x < y PROVE m * x + m <= m * y
  <2>1. (y - x - 1) * m >= 0
    BY <1>3
  <2>2. (y - x - 1) * m = m * y - m * x - m
    OBVIOUS
  <2> QED BY <2>1, <2>2
<1>4. CASE a < b
  BY <1>1, <1>2, <1>3, <1>4
<1>5. CASE b < a
  BY <1>1, <1>2, <1>3, <1>5
<1>6. CASE a = b
  BY <1>2, <1>6
<1> QED BY <1>1, <1>4, <1>5, <1>6

\* The smaller of two.
LEMMA MinOfTwo ==
  ASSUME NEW a \in Int, NEW b \in Int
  PROVE  Min({a, b}) = IF a <= b THEN a ELSE b
BY DEF Min

\* The greatest of finitely many numbers is one of them.
LEMMA MaxMember ==
  ASSUME NEW S, S \subseteq Int, IsFiniteSet(S), S # {}
  PROVE  Max(S) \in S /\ \A x \in S : x <= Max(S)
<1>1. \E m \in S : \A x \in S : m >= x
  BY GreatestInt
<1> QED
  BY <1>1 DEF Max

\* The least of finitely many numbers is one of them.
LEMMA MinMember ==
  ASSUME NEW S, S \subseteq Nat, S # {}
  PROVE  Min(S) \in S /\ \A x \in S : Min(S) <= x
<1>1. \E m \in S : \A x \in S : m <= x
  BY LeastNat
<1> QED
  BY <1>1 DEF Min

\* How many numbers there are up to n.
LEMMA UpTo ==
  ASSUME NEW n \in Nat
  PROVE  IsFiniteSet(1 .. n) /\ Cardinality(1 .. n) = n
<1>1. CASE n = 0
  BY <1>1, FS_EmptySet
<1>2. CASE n > 0
  BY <1>2, FS_Interval
<1> QED
  BY <1>1, <1>2

\* The greatest of 1 .. k is k.
LEMMA MaxUpTo ==
  ASSUME NEW k \in Nat \ {0}
  PROVE  Max(1 .. k) = k /\ (1 .. k) \ {k} = 1 .. k - 1
<1>1. IsFiniteSet(1 .. k) /\ 1 .. k \subseteq Int /\ k \in 1 .. k
  BY UpTo
<1>2. Max(1 .. k) \in 1 .. k /\ k <= Max(1 .. k)
  BY <1>1, MaxMember
<1> QED
  BY <1>2

-----------------------------------------------------------------------------
(* Folds over a sequence, step by step.                                    *)

\* The recursion over the sets of positions that a fold is, with its step as a function.
Folded(g, n, V, b, f) ==
  /\ g \in [SUBSET (1 .. n) -> V] /\ g[{}] = b
  /\ \A u \in SUBSET (1 .. n) : u # {} =>
       /\ Max(u) \in 1 .. n /\ g[u \ {Max(u)}] \in V
       /\ g[u] = f[<<g[u \ {Max(u)}], Max(u)>>]

\* The same of a function whose values are not known to be in V.
Folding(h, n, V, b, f) ==
  /\ h[{}] = b
  /\ \A u \in SUBSET (1 .. n) : u # {} /\ h[u \ {Max(u)}] \in V =>
       h[u] = f[<<h[u \ {Max(u)}], Max(u)>>]

\* The states of the fold, one after the other.
StepsOf(p, n, V, b, f) ==
  /\ p \in [0 .. n -> V] /\ p[0] = b
  /\ \A k \in 1 .. n : p[k - 1] \in V /\ p[k] = f[<<p[k - 1], k>>]

StepOK(n, V, f) == \A v \in V, i \in 1 .. n : f[<<v, i>>] \in V

\* A fold whose steps stay in V has a solution.
LEMMA FoldExists ==
  ASSUME NEW n \in Nat, NEW V, NEW b \in V, NEW f, StepOK(n, V, f)
  PROVE  \E g : Folded(g, n, V, b, f)
<1> DEFINE D == 1 .. n
           c == [u \in SUBSET D |-> Max(u)]
<1>1. IsFiniteSet(D) /\ D \subseteq Int
  BY UpTo
<1> HIDE DEF D
<1>2. \A u \in SUBSET D : u # {} => Max(u) \in u
  <2> TAKE u \in SUBSET D
  <2>1. IsFiniteSet(u) /\ u \subseteq Int
    BY <1>1, FS_Subset
  <2> QED
    BY <2>1, MaxMember
<1>3. \A u \in SUBSET D : u # {} => c[u] \in u
  BY <1>2
<1>4. \A v \in V, i \in D : f[<<v, i>>] \in V
  BY DEF D, StepOK
<1>5. PICK g : Solves(g, D, V, b, c, f)
  <2> HIDE DEF c
  <2> QED
    BY <1>1, <1>3, <1>4, SetRecursion
<1>6. g \in [SUBSET D -> V] /\ g[{}] = b
  BY <1>5 DEF Solves
<1>7. ASSUME NEW u \in SUBSET D, u # {}
      PROVE  /\ Max(u) \in D /\ g[u \ {Max(u)}] \in V
             /\ g[u] = f[<<g[u \ {Max(u)}], Max(u)>>]
  <2>1. Max(u) \in D /\ u \ {Max(u)} \in SUBSET D
    BY <1>2, <1>7
  <2>2. g[u] = f[<<g[u \ {c[u]}], c[u]>>]
    BY <1>5, <1>7 DEF Solves
  <2> QED
    BY <1>6, <1>7, <2>1, <2>2
<1> QED
  BY <1>6, <1>7 DEF D, Folded

\* A function that satisfies the recursion gives the states of the fold one after the other.
LEMMA FoldSteps ==
  ASSUME NEW n \in Nat, NEW V, NEW b \in V, NEW f, StepOK(n, V, f),
         NEW h, Folding(h, n, V, b, f)
  PROVE  \E p : StepsOf(p, n, V, b, f) /\ p[n] = h[1 .. n]
<1> DEFINE p == [k \in 0 .. n |-> h[1 .. k]]
<1>1. p[0] = b /\ p[n] = h[1 .. n]
  <2>1. 1 .. 0 = {} /\ 0 \in 0 .. n /\ n \in 0 .. n
    OBVIOUS
  <2> QED
    BY <2>1 DEF Folding
<1>2. ASSUME NEW k \in 1 .. n, p[k - 1] \in V
      PROVE  p[k] = f[<<p[k - 1], k>>] /\ p[k] \in V
  <2>1. k \in Nat \ {0} /\ k \in 1 .. k /\ 1 .. k \subseteq 1 .. n
    OBVIOUS
  <2>2. Max(1 .. k) = k /\ (1 .. k) \ {k} = 1 .. k - 1
    BY <2>1, MaxUpTo
  <2>3. p[k] = h[1 .. k] /\ p[k - 1] = h[1 .. k - 1]
    OBVIOUS
  <2>4. h[(1 .. k) \ {Max(1 .. k)}] \in V
    BY <1>2, <2>2, <2>3
  <2>5. h[1 .. k] = f[<<h[(1 .. k) \ {Max(1 .. k)}], Max(1 .. k)>>]
    <3> DEFINE u == 1 .. k
    <3>1. u \in SUBSET (1 .. n) /\ u # {}
      BY <2>1
    <3> HIDE DEF u
    <3>2. h[u \ {Max(u)}] \in V => h[u] = f[<<h[u \ {Max(u)}], Max(u)>>]
      BY <3>1 DEF Folding
    <3> QED
      BY <2>4, <3>2 DEF u
  <2>6. p[k] = f[<<p[k - 1], k>>]
    BY <2>2, <2>3, <2>5
  <2> HIDE DEF p
  <2> QED
    BY <1>2, <2>6 DEF StepOK
<1> HIDE DEF p
<1>3. \A k \in 0 .. n : p[k] \in V
  <2> DEFINE T == {k \in 0 .. n : p[k] \notin V}
  <2> SUFFICES ASSUME T # {} PROVE FALSE
    OBVIOUS
  <2>1. T \in SUBSET Nat
    OBVIOUS
  <2>2. PICK m \in T : \A k \in T : m <= k
    <3> HIDE DEF T
    <3> QED
      BY <2>1, LeastNat
  <2>3. m # 0
    BY <1>1
  <2>4. m \in 1 .. n /\ m - 1 \in 0 .. n /\ ~(m <= m - 1)
    BY <2>3
  <2>5. p[m - 1] \in V
    BY <2>2, <2>4
  <2>6. p[m] \in V
    BY <1>2, <2>4, <2>5
  <2> QED
    BY <2>6
<1>4. p \in [0 .. n -> V]
  BY <1>3 DEF p
<1>5. \A k \in 1 .. n : p[k - 1] \in V /\ p[k] = f[<<p[k - 1], k>>]
  <2> TAKE k \in 1 .. n
  <2>1. k - 1 \in 0 .. n
    OBVIOUS
  <2> QED
    BY <1>2, <1>3, <2>1
<1> QED
  BY <1>1, <1>4, <1>5 DEF StepsOf

\* A counter that goes one on, modulo its width.
LEMMA OneMore ==
  ASSUME NEW w \in Nat \ {0}, NEW x \in Nat
  PROVE  /\ ((x % w) + 1) % w = (x + 1) % w
         /\ x < w => x % w = x
<1> DEFINE a == x \div w
           r == x % w
<1>1. a \in Int /\ x = w * a + r /\ r \in 0 .. w - 1
  OBVIOUS
<1>2. ASSUME NEW y \in Nat, NEW b \in Int, NEW s \in 0 .. w - 1, y = w * b + s PROVE y % w = s
  <2> DEFINE c == y \div w
             t == y % w
  <2>1. c \in Int /\ y = w * c + t /\ t \in 0 .. w - 1
    OBVIOUS
  <2> HIDE DEF c, t
  <2>2. w * b + s = w * c + t /\ w * b \in Int /\ w * c \in Int
    BY <1>2, <2>1
  <2>3. ASSUME NEW i \in Int, NEW j \in Int, i < j PROVE w * i + w <= w * j
    <3>1. (j - i - 1) * w >= 0
      BY <2>3
    <3>2. (j - i - 1) * w = w * j - w * i - w
      OBVIOUS
    <3> QED
      BY <3>1, <3>2
  <2>4. b = c
    <3>1. CASE b < c
      BY <2>1, <2>2, <2>3, <3>1
    <3>2. CASE c < b
      BY <2>1, <2>2, <2>3, <3>2
    <3> QED
      BY <2>1, <3>1, <3>2
  <2>5. t = s
    BY <2>1, <2>2, <2>4
  <2> QED
    BY <2>5 DEF t
<1> HIDE DEF a, r
<1>3. (x + 1) % w = IF r + 1 = w THEN 0 ELSE r + 1
  <2>1. CASE r + 1 = w
    <3>1. x + 1 = w * (a + 1) + 0
      <4>1. w * (a + 1) = w * a + w
        BY <1>1
      <4>2. w * a \in Int
        BY <1>1
      <4> QED
        BY <1>1, <2>1, <4>1, <4>2
    <3>2. a + 1 \in Int /\ 0 \in 0 .. w - 1 /\ x + 1 \in Nat
      BY <1>1
    <3> QED
      BY <1>2, <2>1, <3>1, <3>2
  <2>2. CASE r + 1 # w
    <3>1. x + 1 = w * a + (r + 1)
      <4>1. w * a \in Int
        BY <1>1
      <4> QED
        BY <1>1, <4>1
    <3>2. r + 1 \in 0 .. w - 1 /\ x + 1 \in Nat
      BY <1>1, <2>2
    <3> QED
      BY <1>1, <1>2, <2>2, <3>1, <3>2
  <2> QED
    BY <2>1, <2>2
<1>4. (r + 1) % w = IF r + 1 = w THEN 0 ELSE r + 1
  <2>1. CASE r + 1 = w
    <3>1. r + 1 = w * 1 + 0 /\ 0 \in 0 .. w - 1 /\ r + 1 \in Nat
      BY <1>1, <2>1
    <3> QED
      BY <1>2, <2>1, <3>1
  <2>2. CASE r + 1 # w
    <3>1. r + 1 = w * 0 + (r + 1) /\ r + 1 \in 0 .. w - 1 /\ r + 1 \in Nat
      BY <1>1, <2>2
    <3> QED
      BY <1>2, <2>2, <3>1
  <2> QED
    BY <2>1, <2>2
<1>5. x < w => x % w = x
  <2>1. x = w * 0 + x
    OBVIOUS
  <2>2. x < w => x \in 0 .. w - 1
    OBVIOUS
  <2> QED
    BY <1>2, <2>1, <2>2
<1> QED
  BY <1>3, <1>4, <1>5 DEF r

\* The sum of the times of the members.
TimesTotal(s) == FoldLeft(LAMBDA x, y : x + y.dur, 0, s)

\* The sum of the times, call by call.
LEMMA TimesSteps ==
  ASSUME NEW X, NEW s \in Seq(X), \A i \in 1 .. Len(s) : s[i].dur \in Nat
  PROVE  \E p \in [0 .. Len(s) -> Nat] :
           /\ p[0] = 0 /\ p[Len(s)] = TimesTotal(s)
           /\ \A k \in 1 .. Len(s) : p[k] = p[k - 1] + s[k].dur
<1> DEFINE n == Len(s)
           V == Nat
           f == [a \in Nat \X (1 .. n) |-> a[1] + s[a[2]].dur]
           Fold(h) == h = [u \in SUBSET (1 .. n) |->
                             IF u = {} THEN 0 ELSE h[u \ {Max(u)}] + s[Max(u)].dur]
           h == CHOOSE x : Fold(x)
<1>1. n \in Nat /\ DOMAIN s = 1 .. n
  OBVIOUS
<1>2. \A i \in 1 .. n : s[i].dur \in Nat
  OBVIOUS
<1>3. TimesTotal(s) = h[1 .. n]
  <2>1. DOMAIN s = 1 .. n
    BY <1>1
  <2> QED
    BY <2>1 DEF TimesTotal, FoldLeft, MapThenFoldSet, h
<1> HIDE DEF n
<1>4. \A v \in V, i \in 1 .. n : f[<<v, i>>] = v + s[i].dur
  OBVIOUS
<1>5. StepOK(n, V, f)
  BY <1>2 DEF StepOK
<1>6. 0 \in V
  OBVIOUS
<1> HIDE DEF f, V
<1>7. PICK g : Folded(g, n, V, 0, f)
  BY <1>1, <1>5, <1>6, FoldExists
<1>8. Fold(g)
  <2>1. \A u \in SUBSET (1 .. n) : u # {} => g[u] = g[u \ {Max(u)}] + s[Max(u)].dur
    BY <1>4, <1>7 DEF Folded
  <2>2. g \in [SUBSET (1 .. n) -> V] /\ g[{}] = 0
    BY <1>7 DEF Folded
  <2> QED
    BY <2>1, <2>2
<1>9. Fold(h)
  <2> HIDE DEF Fold
  <2> QED
    BY <1>8
<1> HIDE DEF h
<1>10. Folding(h, n, V, 0, f)
  <2>1. h[{}] = 0
    BY <1>9
  <2>2. ASSUME NEW u \in SUBSET (1 .. n), u # {}, h[u \ {Max(u)}] \in V
        PROVE  h[u] = f[<<h[u \ {Max(u)}], Max(u)>>]
    <3>1. h[u] = h[u \ {Max(u)}] + s[Max(u)].dur
      BY <1>9, <2>2
    <3>2. Max(u) \in 1 .. n
      BY <1>7, <2>2 DEF Folded
    <3> QED
      BY <1>4, <2>2, <3>1, <3>2
  <2> QED
    BY <2>1, <2>2 DEF Folding
<1>11. PICK p : StepsOf(p, n, V, 0, f) /\ p[n] = h[1 .. n]
  BY <1>1, <1>5, <1>6, <1>10, FoldSteps
<1>12. p \in [0 .. n -> V] /\ p[0] = 0 /\ \A k \in 1 .. n : p[k] = p[k - 1] + s[k].dur
  BY <1>4, <1>11 DEF StepsOf
<1> QED
  BY <1>3, <1>11, <1>12 DEF n, V

\* One call more adds its time.
LEMMA TimesAppend ==
  ASSUME NEW X, NEW s \in Seq(X), NEW c \in X,
         c.dur \in Nat, \A i \in 1 .. Len(s) : s[i].dur \in Nat
  PROVE  TimesTotal(s) \in Nat /\ TimesTotal(Append(s, c)) = TimesTotal(s) + c.dur
<1> DEFINE n == Len(s)
           d == Append(s, c)
<1>1. /\ n \in Nat /\ d \in Seq(X) /\ Len(d) = n + 1 /\ d[n + 1] = c
      /\ \A i \in 1 .. n : d[i] = s[i] /\ s[i].dur \in Nat
  OBVIOUS
<1>2. PICK p \in [0 .. n -> Nat] :
        p[0] = 0 /\ p[n] = TimesTotal(s) /\ \A k \in 1 .. n : p[k] = p[k - 1] + s[k].dur
  BY TimesSteps
<1> HIDE DEF n, d
<1>3. PICK q \in [0 .. Len(d) -> Nat] :
        /\ q[0] = 0 /\ q[Len(d)] = TimesTotal(d)
        /\ \A k \in 1 .. Len(d) : q[k] = q[k - 1] + d[k].dur
  <2>1. \A i \in 1 .. Len(d) : d[i].dur \in Nat
    <3> TAKE i \in 1 .. Len(d)
    <3>1. i \in 1 .. n \/ i = n + 1
      BY <1>1
    <3> QED
      BY <1>1, <3>1
  <2> QED
    BY <1>1, <2>1, TimesSteps
<1>4. \A k \in 0 .. n : q[k] = p[k]
  <2> DEFINE T == {k \in 0 .. n : q[k] # p[k]}
  <2> SUFFICES ASSUME T # {} PROVE FALSE
    OBVIOUS
  <2>1. T \in SUBSET Nat
    OBVIOUS
  <2>2. PICK m \in T : \A k \in T : m <= k
    <3> HIDE DEF T
    <3> QED
      BY <2>1, LeastNat
  <2>3. m # 0
    BY <1>2, <1>3
  <2>4. m \in 1 .. n /\ m \in 1 .. n + 1 /\ m - 1 \in 0 .. n /\ ~(m <= m - 1)
    BY <1>1, <2>3
  <2>5. q[m - 1] = p[m - 1]
    BY <2>2, <2>4
  <2>6. q[m] = p[m]
    BY <1>1, <1>2, <1>3, <2>4, <2>5
  <2> QED
    BY <2>6
<1>5. n \in 0 .. n /\ n + 1 \in 1 .. n + 1 /\ (n + 1) - 1 = n
  BY <1>1
<1>6. q[n + 1] = q[n] + c.dur
  BY <1>1, <1>3, <1>5
<1>7. q[n] = TimesTotal(s) /\ q[n + 1] = TimesTotal(d) /\ TimesTotal(s) \in Nat
  BY <1>1, <1>2, <1>3, <1>4, <1>5
<1> QED
  BY <1>6, <1>7 DEF d

\* The first components of the pairs whose second is at most ver.
FieldsUpTo(fields, ver) ==
  FoldLeft(LAMBDA s, f : IF f[2] <= ver THEN Append(s, f[1]) ELSE s, <<>>, fields)

\* The fields with a number up to ver are all when every number is.
LEMMA FieldsAll ==
  ASSUME NEW n \in Nat, NEW fields, DOMAIN fields = 1 .. n, NEW ver \in Nat,
         \A i \in 1 .. n : fields[i][2] <= ver
  PROVE  FieldsUpTo(fields, ver) = [i \in 1 .. n |-> fields[i][1]]
<1> DEFINE W == {fields[i][1] : i \in 1 .. n}
           V == Seq(W)
           f == [a \in V \X (1 .. n) |-> Append(a[1], fields[a[2]][1])]
           Step(s, x) == IF x[2] <= ver THEN Append(s, x[1]) ELSE s
           Fold(h) == h = [u \in SUBSET (1 .. n) |->
                             IF u = {} THEN <<>> ELSE Step(h[u \ {Max(u)}], fields[Max(u)])]
           h == CHOOSE x : Fold(x)
<1>1. <<>> \in V /\ \A i \in 1 .. n : fields[i][1] \in W
  OBVIOUS
<1>2. FieldsUpTo(fields, ver) = h[1 .. n]
  BY DEF FieldsUpTo, FoldLeft, MapThenFoldSet
<1>3. \A v \in V, i \in 1 .. n : f[<<v, i>>] = Append(v, fields[i][1])
  OBVIOUS
<1>4. StepOK(n, V, f)
  <2> SUFFICES ASSUME NEW v \in V, NEW i \in 1 .. n PROVE f[<<v, i>>] \in V
    BY DEF StepOK
  <2> DEFINE x == fields[i][1]
  <2>1. x \in W /\ f[<<v, i>>] = Append(v, x)
    BY <1>1, <1>3
  <2> HIDE DEF f, W, x
  <2>2. Append(v, x) \in Seq(W)
    BY <2>1
  <2> QED
    BY <2>1, <2>2
<1>5. \A s : \A i \in 1 .. n : Step(s, fields[i]) = Append(s, fields[i][1])
  OBVIOUS
<1> HIDE DEF f, V, Step, W
<1>6. PICK g : Folded(g, n, V, <<>>, f)
  BY <1>1, <1>4, FoldExists
<1>7. Fold(g)
  <2>1. g \in [SUBSET (1 .. n) -> V] /\ g[{}] = <<>>
    BY <1>6 DEF Folded
  <2>2. ASSUME NEW u \in SUBSET (1 .. n), u # {}
        PROVE  g[u] = Step(g[u \ {Max(u)}], fields[Max(u)])
    <3>1. /\ Max(u) \in 1 .. n /\ g[u \ {Max(u)}] \in V
          /\ g[u] = f[<<g[u \ {Max(u)}], Max(u)>>]
      BY <1>6, <2>2 DEF Folded
    <3> QED
      BY <1>3, <1>5, <3>1
  <2>3. g = [u \in SUBSET (1 .. n) |->
               IF u = {} THEN <<>> ELSE Step(g[u \ {Max(u)}], fields[Max(u)])]
    BY <2>1, <2>2
  <2> QED
    BY <2>3
<1>8. Fold(h)
  <2> HIDE DEF Fold
  <2> QED
    BY <1>7
<1> HIDE DEF h
<1>9. Folding(h, n, V, <<>>, f)
  <2>1. h[{}] = <<>>
    BY <1>8
  <2>2. ASSUME NEW u \in SUBSET (1 .. n), u # {}, h[u \ {Max(u)}] \in V
        PROVE  h[u] = f[<<h[u \ {Max(u)}], Max(u)>>]
    <3>1. h[u] = Step(h[u \ {Max(u)}], fields[Max(u)])
      BY <1>8, <2>2
    <3>2. Max(u) \in 1 .. n
      BY <1>6, <2>2 DEF Folded
    <3> QED
      BY <1>3, <1>5, <2>2, <3>1, <3>2
  <2> QED
    BY <2>1, <2>2 DEF Folding
<1>10. PICK p : StepsOf(p, n, V, <<>>, f) /\ p[n] = h[1 .. n]
  BY <1>1, <1>4, <1>9, FoldSteps
<1> DEFINE Q(k) == Len(p[k]) = k /\ \A i \in 1 .. k : p[k][i] = fields[i][1]
           T == {k \in 0 .. n : ~Q(k)}
<1>11. Q(0)
  BY <1>10 DEF StepsOf
<1>12. T = {}
  <2> SUFFICES ASSUME T # {} PROVE FALSE
    OBVIOUS
  <2>1. T \in SUBSET Nat
    OBVIOUS
  <2>2. PICK m \in T : \A k \in T : m <= k
    <3> HIDE DEF T
    <3> QED
      BY <2>1, LeastNat
  <2>3. m # 0
    BY <1>11
  <2>4. m \in 1 .. n /\ m - 1 \in 0 .. n /\ ~(m <= m - 1)
    BY <2>3
  <2>5. Q(m - 1)
    BY <2>2, <2>4
  <2>6. p[m] = Append(p[m - 1], fields[m][1]) /\ p[m - 1] \in V
    BY <1>3, <1>10, <2>4 DEF StepsOf
  <2>7. Q(m)
    <3> DEFINE s == p[m - 1]
               x == fields[m][1]
               y == Append(s, x)
    <3>1. s \in Seq(W) /\ x \in W /\ Len(s) = m - 1 /\ p[m] = y
      BY <1>1, <2>4, <2>5, <2>6 DEF V
    <3> HIDE DEF s, x
    <3>2. Len(y) = (m - 1) + 1 /\ y[(m - 1) + 1] = x /\ \A i \in 1 .. m - 1 : y[i] = s[i]
      BY <3>1
    <3>3. (m - 1) + 1 = m /\ \A i \in 1 .. m : i \in 1 .. m - 1 \/ i = m
      BY <2>4
    <3> HIDE DEF y
    <3>4. \A i \in 1 .. m - 1 : s[i] = fields[i][1]
      BY <2>5 DEF s
    <3> QED
      BY <3>1, <3>2, <3>3, <3>4 DEF x
  <2> QED
    BY <2>7
<1>13. Q(n) /\ p[n] \in V
  <2>1. n \in 0 .. n
    OBVIOUS
  <2> QED
    BY <1>10, <1>12, <2>1 DEF StepsOf
<1>14. p[n] = [i \in 1 .. n |-> fields[i][1]]
  <2> DEFINE s == p[n]
  <2>1. s \in Seq(W) /\ Len(s) = n /\ \A i \in 1 .. n : s[i] = fields[i][1]
    BY <1>13 DEF V
  <2> HIDE DEF s
  <2>2. s = [i \in 1 .. n |-> s[i]]
    BY <2>1
  <2> QED
    BY <2>1, <2>2 DEF s
<1> QED
  BY <1>2, <1>10, <1>14

-----------------------------------------------------------------------------
(* The members of a sequence.                                              *)

Values(f, n) == {f[i] : i \in 1 .. n}

\* Names that differ from place to place are as many as the places.
LEMMA DistinctNames ==
  ASSUME NEW n \in Nat, NEW f, f \in [1 .. n -> Nat],
         \A i \in 1 .. n : \A j \in 1 .. n : f[i] = f[j] => i = j
  PROVE  Cardinality(Values(f, n)) = n
<1> DEFINE T == {f[i] : i \in 1 .. n}
<1>1. f \in Bijection(1 .. n, T)
  BY DEF Bijection, Injection, Surjection, IsInjective
<1>2. ExistsBijection(1 .. n, T)
  BY <1>1 DEF ExistsBijection
<1>3. IsFiniteSet(1 .. n) /\ Cardinality(1 .. n) = n
  <2>1. 0 \in Int /\ 1 \in Int /\ n \in Int
    OBVIOUS
  <2>2. Cardinality(1 .. n) = IF 1 > n THEN 0 ELSE n - 1 + 1
    BY <2>1, FS_Interval
  <2>3. IsFiniteSet(1 .. n)
    BY <2>1, FS_Interval
  <2> QED
    BY <2>2, <2>3
<1> HIDE DEF T
<1> QED
  BY <1>2, <1>3, FS_Bijection DEF T, Values

\* Two sequences, one after the other.
LEMMA JoinTyped ==
  ASSUME NEW S, NEW a \in Seq(S), NEW b \in Seq(S)
  PROVE  a \o b \in Seq(S) /\ Len(a \o b) = Len(a) + Len(b)
OBVIOUS

\* A section has an item for each entry.
LEMMA ItemsCount ==
  ASSUME NEW n \in Nat, NEW x, DOMAIN x = 1 .. n, x = [i \in 1 .. n |-> x[i]]
  PROVE  Len(x) = n
<1> DEFINE S == {x[i] : i \in 1 .. n}
<1>1. \A i \in 1 .. n : x[i] \in S
  OBVIOUS
<1> HIDE DEF S
<1>2. x \in [1 .. n -> S]
  BY <1>1
<1> QED
  BY <1>2

\* What a sequence of one or of none has.
LEMMA OneOrNone ==
  ASSUME NEW s, NEW a, s = <<>> \/ s = <<a>>, NEW t \in Range(s)
  PROVE  t = a
<1>1. CASE s = <<>>
  BY <1>1 DEF Range
<1>2. CASE s = <<a>>
  <2>1. DOMAIN s = {1} /\ s[1] = a
    BY <1>2
  <2> QED
    BY <2>1 DEF Range
<1> QED
  BY <1>1, <1>2

\* The first n members, or all when there are fewer.
HeadOf(s, n) == SubSeq(s, 1, Min({Len(s), n}))

\* The first of a sequence that grows by one.
LEMMA HeadAppend ==
  ASSUME NEW V, NEW s \in Seq(V), NEW x \in V, NEW n \in Nat
  PROVE  /\ HeadOf(s, n) \in Seq(V)
         /\ Len(HeadOf(s, n)) = IF Len(s) <= n THEN Len(s) ELSE n
         /\ \A i \in 1 .. Len(HeadOf(s, n)) : HeadOf(s, n)[i] = s[i]
         /\ HeadOf(Append(s, x), n) =
              IF Len(HeadOf(s, n)) < n THEN Append(HeadOf(s, n), x) ELSE HeadOf(s, n)
<1> DEFINE k == Len(s)
           m == IF k <= n THEN k ELSE n
           d == Append(s, x)
           l == IF k + 1 <= n THEN k + 1 ELSE n
           f == SubSeq(s, 1, m)
           g == SubSeq(d, 1, l)
<1>1. k \in Nat /\ d \in Seq(V) /\ Len(d) = k + 1 /\ d[k + 1] = x /\ \A i \in 1 .. k : d[i] = s[i]
  OBVIOUS
<1>2. HeadOf(s, n) = f /\ HeadOf(d, n) = g
  <2>1. Min({k, n}) = m /\ Min({k + 1, n}) = l
    BY <1>1, MinOfTwo
  <2> QED
    BY <1>1, <2>1 DEF HeadOf
<1>3. m \in 0 .. k /\ l \in 0 .. k + 1
  BY <1>1
<1> DEFINE S == Seq(V)
<1>4. f \in S /\ Len(f) = m /\ \A i \in 1 .. m : f[i] = s[i]
  <2> HIDE DEF m
  <2> QED
    BY <1>3
<1>5. g \in S /\ Len(g) = l /\ \A i \in 1 .. l : g[i] = d[i]
  <2> HIDE DEF l, d
  <2> QED
    BY <1>1, <1>3
<1> HIDE DEF f, g
<1>6. CASE k < n
  <2>1. m = k /\ l = k + 1
    BY <1>1, <1>6
  <2> DEFINE a == Append(f, x)
  <2>2. a \in S /\ Len(a) = k + 1 /\ a[k + 1] = x /\ \A i \in 1 .. k : a[i] = f[i]
    <3> HIDE DEF m
    <3> QED
      BY <1>1, <1>4, <2>1
  <2> HIDE DEF a
  <2>3. \A i \in 1 .. k + 1 : a[i] = g[i]
    <3> TAKE i \in 1 .. k + 1
    <3>1. i \in 1 .. k \/ i = k + 1
      BY <1>1
    <3> QED
      BY <1>1, <1>4, <1>5, <2>1, <2>2, <3>1
  <2>4. a = g
    BY <1>5, <2>1, <2>2, <2>3, SeqEqual
  <2> QED
    BY <1>1, <1>2, <1>4, <1>6, <2>1, <2>4 DEF a
<1>7. CASE ~(k < n)
  <2>1. m = n /\ l = n /\ n <= k
    BY <1>1, <1>7
  <2>2. \A i \in 1 .. n : f[i] = g[i]
    BY <1>1, <1>4, <1>5, <2>1
  <2>3. f = g
    BY <1>4, <1>5, <2>1, <2>2, SeqEqual
  <2> QED
    BY <1>1, <1>2, <1>4, <2>1, <2>3
<1> QED
  BY <1>6, <1>7

\* What InsertAt makes of a sequence.
LEMMA InsertedAt ==
  ASSUME NEW V, NEW s \in Seq(V), NEW c \in V, NEW k \in 1 .. Len(s) + 1
  PROVE  LET x == InsertAt(s, k, c)
         IN /\ x \in Seq(V) /\ Len(x) = Len(s) + 1 /\ x[k] = c
            /\ \A i \in 1 .. Len(x) : i < k => x[i] = s[i]
            /\ \A i \in 1 .. Len(x) : i > k => x[i] = s[i - 1]
<1> DEFINE n == Len(s)
           a == SubSeq(s, 1, k - 1)
           b == SubSeq(s, k, n)
           d == a \o <<c>>
<1>1. n \in Nat /\ DOMAIN s = 1 .. n /\ k \in 1 .. n + 1
  OBVIOUS
<1>2. a \in Seq(V) /\ Len(a) = k - 1 /\ \A i \in 1 .. k - 1 : a[i] = s[i]
  <2>1. \A i \in 1 .. k - 1 : s[i] \in V
    BY <1>1
  <2>2. a = [i \in 1 .. k - 1 |-> s[i]]
    BY <1>1 DEF SubSeq
  <2> QED
    BY <1>1, <2>1, <2>2
<1>3. b \in Seq(V) /\ Len(b) = n - k + 1 /\ \A i \in 1 .. n - k + 1 : b[i] = s[k + i - 1]
  <2> DEFINE m == n - k + 1
  <2>1. m \in Nat
    BY <1>1
  <2>2. b = [i \in 1 .. m |-> s[k + i - 1]]
    BY <1>1 DEF SubSeq
  <2>3. \A i \in 1 .. m : s[k + i - 1] \in V
    <3> TAKE i \in 1 .. m
    <3>1. k + i - 1 \in 1 .. n
      BY <1>1
    <3> HIDE DEF m
    <3> QED
      BY <1>1, <3>1
  <2> HIDE DEF m, b
  <2>4. b \in Seq(V) /\ Len(b) = m /\ \A i \in 1 .. m : b[i] = s[k + i - 1]
    BY <2>1, <2>2, <2>3
  <2> QED
    BY <2>4 DEF m
<1> HIDE DEF a, b
<1>4. d \in Seq(V) /\ Len(d) = k /\ d[k] = c /\ \A i \in 1 .. k - 1 : d[i] = s[i]
  <2>1. <<c>> \in Seq(V) /\ Len(<<c>>) = 1 /\ <<c>>[1] = c
    OBVIOUS
  <2>2. d \in Seq(V) /\ Len(d) = (k - 1) + 1 /\ d[(k - 1) + 1] = c
        /\ \A i \in 1 .. k - 1 : d[i] = a[i]
    BY <1>1, <1>2, <2>1
  <2>3. (k - 1) + 1 = k
    BY <1>1
  <2> QED
    BY <1>2, <2>2, <2>3
<1> HIDE DEF d
<1> DEFINE x == d \o b
<1>5. /\ x \in Seq(V) /\ Len(x) = k + (n - k + 1) /\ \A i \in 1 .. k : x[i] = d[i]
      /\ \A i \in 1 .. n - k + 1 : x[k + i] = b[i]
  BY <1>1, <1>3, <1>4
<1> HIDE DEF x
<1>6. Len(x) = n + 1
  BY <1>1, <1>5
<1>7. x[k] = c
  BY <1>1, <1>4, <1>5
<1>8. \A i \in 1 .. n + 1 : i < k => x[i] = s[i]
  <2> TAKE i \in 1 .. n + 1
  <2> HAVE i < k
  <2>1. i \in 1 .. k /\ i \in 1 .. k - 1
    BY <1>1
  <2> QED
    BY <1>4, <1>5, <2>1
<1>9. \A i \in 1 .. n + 1 : i > k => x[i] = s[i - 1]
  <2> TAKE i \in 1 .. n + 1
  <2> HAVE i > k
  <2>1. i - k \in 1 .. n - k + 1 /\ k + (i - k) = i /\ k + (i - k) - 1 = i - 1
    BY <1>1
  <2>2. x[k + (i - k)] = b[i - k] /\ b[i - k] = s[k + (i - k) - 1]
    BY <1>3, <1>5, <2>1
  <2> QED
    BY <2>1, <2>2
<1>10. InsertAt(s, k, c) = x
  BY DEF InsertAt, x, d, a, b, n
<1> QED
  BY <1>5, <1>6, <1>7, <1>8, <1>9, <1>10 DEF n

-----------------------------------------------------------------------------
(* The slowest of a sequence.                                              *)

\* A set of first places is 1 .. as many as it has.
LEMMA FirstPlaces ==
  ASSUME NEW n \in Nat, NEW A \in SUBSET (1 .. n), \A i \in A : \A j \in 1 .. i : j \in A
  PROVE  Cardinality(A) \in 0 .. n /\ \A j \in 1 .. n : j \in A <=> j <= Cardinality(A)
<1> DEFINE T == {k \in Nat : k + 1 \notin A}
<1>1. n \in T /\ T \in SUBSET Nat
  OBVIOUS
<1>2. PICK m \in T : \A k \in T : m <= k
  <2> HIDE DEF T
  <2> QED
    BY <1>1, LeastNat
<1>3. m \in Nat /\ m + 1 \notin A /\ m <= n
  BY <1>1, <1>2
<1>4. A \subseteq 1 .. m
  <2> SUFFICES ASSUME NEW i \in A, i > m PROVE FALSE
    BY <1>3
  <2>1. m + 1 \in 1 .. i
    BY <1>3
  <2> QED
    BY <1>3, <2>1
<1>5. 1 .. m \subseteq A
  <2> SUFFICES ASSUME NEW i \in 1 .. m, i \notin A PROVE FALSE
    OBVIOUS
  <2>1. i - 1 \in Nat /\ (i - 1) + 1 = i /\ ~(m <= i - 1)
    BY <1>3
  <2>2. i - 1 \in T
    BY <2>1
  <2> QED
    BY <1>2, <2>1, <2>2
<1>6. A = 1 .. m
  BY <1>4, <1>5
<1>7. Cardinality(A) = m
  <2>1. Cardinality(1 .. m) = m
    BY <1>3, UpTo
  <2> QED
    BY <1>6, <2>1
<1> QED
  BY <1>3, <1>6, <1>7

\* The places top are among the first k, slowest first, and no other is slower; a is how long
\* each takes.
SlowestOf(top, a, n, k) ==
  /\ top \in Seq(Nat) /\ Len(top) = IF n <= k THEN n ELSE k
  /\ \A j \in 1 .. Len(top) : top[j] \in 1 .. k
  /\ \A i \in 1 .. Len(top) : \A j \in 1 .. Len(top) : top[i] = top[j] => i = j
  /\ \A i \in 1 .. Len(top) : \A j \in 1 .. Len(top) : i < j => a[top[i]] >= a[top[j]]
  /\ \A e \in 1 .. k : (\E j \in 1 .. Len(top) : top[j] = e) \/
                       (Len(top) = n /\ \A j \in 1 .. Len(top) : a[top[j]] >= a[e])

PlaceTop(top, a, i, n) ==
  LET k == 1 + Cardinality({j \in DOMAIN top : a[top[j]] >= a[i]})
  IN SubSeq(InsertAt(top, k, i), 1, Min({n, Len(top) + 1}))

\* Placing one more keeps the n slowest, slowest first, the earlier of two equals first.
LEMMA PlacedSlowest ==
  ASSUME NEW n \in Nat, NEW k \in Nat \ {0}, NEW a, \A i \in 1 .. k : a[i] \in Nat,
         NEW top, SlowestOf(top, a, n, k - 1)
  PROVE  SlowestOf(PlaceTop(top, a, k, n), a, n, k)
<1> DEFINE l == Len(top)
           C == {j \in DOMAIN top : a[top[j]] >= a[k]}
           c == Cardinality(C)
           x == InsertAt(top, 1 + c, k)
           m == IF n <= l + 1 THEN n ELSE l + 1
           y == SubSeq(x, 1, m)
<1>1. top \in Seq(Nat) /\ l \in Nat /\ DOMAIN top = 1 .. l /\ l = (IF n <= k - 1 THEN n ELSE k - 1)
  BY DEF SlowestOf
<1>2. \A j \in 1 .. l : top[j] \in 1 .. k - 1 /\ a[top[j]] \in Nat
  <2>1. \A j \in 1 .. l : top[j] \in 1 .. k - 1
    BY DEF SlowestOf
  <2> HIDE DEF l
  <2>2. \A j \in 1 .. l : top[j] \in 1 .. k
    BY <2>1
  <2> QED
    BY <2>1, <2>2
<1>3. \A i \in 1 .. l : \A j \in 1 .. l : (top[i] = top[j] => i = j) /\ (i < j => a[top[i]] >= a[top[j]])
  BY DEF SlowestOf
<1>4. \A e \in 1 .. k - 1 : (\E j \in 1 .. l : top[j] = e) \/
                            (l = n /\ \A j \in 1 .. l : a[top[j]] >= a[e])
  BY DEF SlowestOf
<1>5. a[k] \in Nat
  OBVIOUS
<1>6. c \in 0 .. l /\ \A j \in 1 .. l : a[top[j]] >= a[k] <=> j <= c
  <2>1. C \in SUBSET (1 .. l)
    BY <1>1
  <2>2. \A i \in C : \A j \in 1 .. i : j \in C
    <3> TAKE i \in C
    <3> TAKE j \in 1 .. i
    <3>1. j \in 1 .. l /\ a[top[i]] >= a[k] /\ i \in 1 .. l
      BY <1>1
    <3>2. a[top[j]] >= a[top[i]]
      BY <1>2, <1>3, <3>1
    <3>3. a[top[j]] >= a[k]
      BY <1>2, <1>5, <3>1, <3>2
    <3> QED
      BY <1>1, <3>1, <3>3
  <2>3. \A j \in 1 .. l : j \in C <=> a[top[j]] >= a[k]
    BY <1>1
  <2> HIDE DEF C, l
  <2> QED
    BY <1>1, <2>1, <2>2, <2>3, FirstPlaces
<1> HIDE DEF C, c
<1>7. Min({n, l + 1}) = m
  BY <1>1, MinOfTwo
<1>8. PlaceTop(top, a, k, n) = y
  BY <1>7 DEF PlaceTop, c, C
<1>9. /\ x \in Seq(Nat) /\ Len(x) = l + 1 /\ x[1 + c] = k
      /\ \A i \in 1 .. l + 1 : i < 1 + c => x[i] = top[i]
      /\ \A i \in 1 .. l + 1 : i > 1 + c => x[i] = top[i - 1]
  <2>1. 1 + c \in 1 .. Len(top) + 1 /\ k \in Nat
    BY <1>1, <1>6
  <2> DEFINE p == 1 + c
  <2> HIDE DEF p
  <2>2. LET z == InsertAt(top, p, k)
        IN /\ z \in Seq(Nat) /\ Len(z) = Len(top) + 1 /\ z[p] = k
           /\ \A i \in 1 .. Len(z) : i < p => z[i] = top[i]
           /\ \A i \in 1 .. Len(z) : i > p => z[i] = top[i - 1]
    <3> DEFINE V == Nat
    <3>1. top \in Seq(V) /\ k \in V /\ p \in 1 .. Len(top) + 1
      BY <1>1, <2>1 DEF p
    <3> HIDE DEF V
    <3>2. LET z == InsertAt(top, p, k)
          IN /\ z \in Seq(V) /\ Len(z) = Len(top) + 1 /\ z[p] = k
             /\ \A i \in 1 .. Len(z) : i < p => z[i] = top[i]
             /\ \A i \in 1 .. Len(z) : i > p => z[i] = top[i - 1]
      BY <3>1, InsertedAt
    <3> QED
      BY <3>2 DEF V
  <2> QED
    BY <2>2 DEF p
<1> HIDE DEF x
<1>10. m \in 0 .. l + 1 /\ m = (IF n <= k THEN n ELSE k)
  BY <1>1
<1>11. y \in Seq(Nat) /\ Len(y) = m /\ \A i \in 1 .. m : y[i] = x[i]
  <2> HIDE DEF m, l
  <2> QED
    BY <1>1, <1>9, <1>10
<1> HIDE DEF y, m, l
<1>12. ASSUME NEW i \in 1 .. m
       PROVE  /\ i \in 1 .. l + 1
              /\ i <= c => i \in 1 .. l /\ y[i] = top[i]
              /\ i = c + 1 => y[i] = k
              /\ i > c + 1 => i - 1 \in 1 .. l /\ i - 1 > c /\ y[i] = top[i - 1]
  <2>1. i \in 1 .. l + 1 /\ y[i] = x[i]
    BY <1>1, <1>10, <1>11
  <2>2. i <= c => i \in 1 .. l /\ i < 1 + c
    BY <1>1, <1>6, <2>1
  <2>3. i > c + 1 => i - 1 \in 1 .. l /\ i - 1 > c /\ i > 1 + c
    BY <1>1, <1>6, <2>1
  <2>4. c + 1 = 1 + c
    BY <1>6
  <2> QED
    BY <1>9, <2>1, <2>2, <2>3, <2>4
<1>13. \A i \in 1 .. m : y[i] \in 1 .. k
  <2> TAKE i \in 1 .. m
  <2>1. i <= c \/ i = c + 1 \/ i > c + 1
    BY <1>6, <1>10
  <2> QED
    BY <1>2, <1>12, <2>1
<1>14. ASSUME NEW i \in 1 .. m, NEW j \in 1 .. m, y[i] = y[j] PROVE i = j
  <2>1. /\ i <= c \/ i = c + 1 \/ i > c + 1
        /\ j <= c \/ j = c + 1 \/ j > c + 1
    BY <1>6, <1>10
  <2>2. k \notin 1 .. k - 1
    OBVIOUS
  <2>3. (i = c + 1 <=> y[i] = k) /\ (j = c + 1 <=> y[j] = k)
    BY <1>2, <1>12, <2>1, <2>2
  <2>4. CASE i <= c
    BY <1>3, <1>6, <1>12, <1>14, <2>1, <2>3, <2>4
  <2>5. CASE i > c + 1
    BY <1>3, <1>6, <1>12, <1>14, <2>1, <2>3, <2>5
  <2> QED
    BY <1>14, <2>1, <2>3, <2>4, <2>5
<1>15. ASSUME NEW i \in 1 .. m, NEW j \in 1 .. m, i < j PROVE a[y[i]] >= a[y[j]]
  <2>1. /\ i <= c \/ i = c + 1 \/ i > c + 1
        /\ j <= c \/ j = c + 1 \/ j > c + 1
    BY <1>6, <1>10
  <2>2. CASE i <= c /\ j <= c
    BY <1>3, <1>12, <1>15, <2>2
  <2>3. CASE i <= c /\ j = c + 1
    BY <1>6, <1>12, <2>3
  <2>4. CASE i <= c /\ j > c + 1
    <3>1. i < j - 1
      BY <1>6, <1>10, <2>4
    <3> QED
      BY <1>3, <1>12, <2>4, <3>1
  <2>5. CASE i = c + 1
    <3>1. j > c + 1
      BY <1>6, <1>10, <1>15, <2>5
    <3>2. j - 1 \in 1 .. l /\ ~(j - 1 <= c)
      BY <1>6, <1>12, <3>1
    <3>3. ~(a[top[j - 1]] >= a[k]) /\ a[top[j - 1]] \in Nat
      BY <1>2, <1>6, <3>2
    <3> QED
      BY <1>5, <1>12, <2>5, <3>1, <3>3
  <2>6. CASE i > c + 1
    <3>1. j > c + 1 /\ i - 1 < j - 1
      BY <1>6, <1>10, <1>15, <2>6
    <3> QED
      BY <1>3, <1>12, <2>6, <3>1
  <2> QED
    BY <2>1, <2>2, <2>3, <2>4, <2>5, <2>6
<1>16. ASSUME NEW e \in 1 .. k, ~\E j \in 1 .. m : y[j] = e
       PROVE  m = n /\ \A j \in 1 .. m : a[y[j]] >= a[e]
  <2>0. n \in Nat /\ m = (IF n <= l + 1 THEN n ELSE l + 1)
    BY DEF m
  <2>1. CASE e = k
    <3>1. ~(c + 1 \in 1 .. m)
      BY <1>12, <1>16, <2>1
    <3>2. c >= m /\ m = n /\ c <= l
      BY <1>1, <1>6, <1>10, <2>0, <3>1
    <3>3. ASSUME NEW j \in 1 .. m PROVE a[y[j]] >= a[e]
      <4>1. j <= c
        BY <1>6, <1>10, <3>2
      <4> QED
        BY <1>6, <1>12, <2>1, <4>1
    <3> QED
      BY <3>2, <3>3
  <2>2. CASE e # k /\ \E j \in 1 .. l : top[j] = e
    <3>1. PICK j \in 1 .. l : top[j] = e
      BY <2>2
    <3>2. ~(j \in 1 .. m /\ j <= c)
      BY <1>12, <1>16, <3>1
    <3>3. ~(j + 1 \in 1 .. m /\ j + 1 > c + 1)
      <4> SUFFICES ASSUME j + 1 \in 1 .. m, j + 1 > c + 1 PROVE FALSE
        OBVIOUS
      <4>1. y[j + 1] = top[(j + 1) - 1] /\ (j + 1) - 1 = j
        BY <1>12
      <4> QED
        BY <1>16, <3>1, <4>1
    <3>4. m = n /\ j >= m /\ m <= l
      BY <1>1, <1>6, <1>10, <2>0, <3>2, <3>3
    <3>5. j = l /\ m = l
      BY <1>1, <1>6, <2>0, <3>1, <3>2, <3>3, <3>4
    <3>6. c < l
      BY <1>1, <1>6, <1>10, <3>2, <3>5
    <3>7. l \in 1 .. l /\ \A i \in 1 .. l : a[top[i]] >= a[e]
      <4>1. l \in 1 .. l
        BY <3>1, <3>5
      <4>2. ASSUME NEW i \in 1 .. l PROVE a[top[i]] >= a[e]
        <5>1. i < l \/ i = l
          BY <1>1
        <5>2. a[top[i]] \in Nat
          BY <1>2
        <5> QED
          BY <1>3, <3>1, <3>5, <4>1, <5>1, <5>2
      <4> QED
        BY <4>1, <4>2
    <3>8. a[k] > a[e]
      <4>1. ~(a[top[l]] >= a[k]) /\ a[top[l]] \in Nat
        BY <1>1, <1>2, <1>6, <3>6, <3>7
      <4> QED
        BY <1>5, <3>1, <3>5, <4>1
    <3>9. ASSUME NEW i \in 1 .. m PROVE a[y[i]] >= a[e]
      <4>1. i <= c \/ i = c + 1 \/ i > c + 1
        BY <1>6, <1>10
      <4>2. a[e] \in Nat
        BY <1>2, <3>1
      <4> QED
        BY <1>5, <1>12, <3>7, <3>8, <4>1, <4>2
    <3> QED
      BY <3>4, <3>9
  <2>3. CASE e # k /\ ~\E j \in 1 .. l : top[j] = e
    <3>1. e \in 1 .. k - 1
      BY <2>3
    <3>2. l = n /\ \A j \in 1 .. l : a[top[j]] >= a[e]
      BY <1>4, <2>3, <3>1
    <3>3. m = n /\ a[e] \in Nat
      BY <1>1, <2>0, <3>1, <3>2
    <3>4. ASSUME NEW i \in 1 .. m PROVE a[y[i]] >= a[e]
      <4>1. CASE i <= c
        BY <1>12, <3>2, <4>1
      <4>2. CASE i > c + 1
        BY <1>12, <3>2, <4>2
      <4>3. CASE i = c + 1
        <5>1. c + 1 \in 1 .. l /\ ~(c + 1 <= c)
          BY <1>6, <1>10, <3>2, <3>3, <4>3
        <5>2. ~(a[top[c + 1]] >= a[k]) /\ a[top[c + 1]] >= a[e] /\ a[top[c + 1]] \in Nat
          BY <1>2, <1>6, <3>2, <5>1
        <5> QED
          BY <1>5, <1>12, <3>3, <4>3, <5>2
      <4> QED
        BY <1>6, <1>10, <4>1, <4>2, <4>3
    <3> QED
      BY <3>3, <3>4
  <2> QED
    BY <2>1, <2>2, <2>3
<1>17. SlowestOf(y, a, n, k)
  BY <1>10, <1>11, <1>13, <1>14, <1>15, <1>16 DEF SlowestOf
<1> QED
  BY <1>8, <1>17

\* What is placed is an index, and so is all that was.
LEMMA PlaceTyped ==
  ASSUME NEW V, NEW top \in Seq(V), NEW a, NEW i \in V, NEW n \in Nat
  PROVE  PlaceTop(top, a, i, n) \in Seq(V)
<1> DEFINE l == Len(top)
           C == {j \in DOMAIN top : a[top[j]] >= a[i]}
           k == 1 + Cardinality(C)
           x == InsertAt(top, k, i)
           m == IF n <= l + 1 THEN n ELSE l + 1
<1>1. l \in Nat /\ DOMAIN top = 1 .. l
  OBVIOUS
<1>2. C \subseteq 1 .. l
  BY <1>1
<1>3. Min({n, l + 1}) = m
  BY <1>1, MinOfTwo
<1>4. PlaceTop(top, a, i, n) = SubSeq(x, 1, m)
  BY <1>3 DEF PlaceTop
<1> HIDE DEF C
<1>5. k \in 1 .. l + 1
  <2>1. IsFiniteSet(1 .. l) /\ Cardinality(1 .. l) = l
    BY <1>1, UpTo
  <2>2. Cardinality(C) <= Cardinality(1 .. l) /\ IsFiniteSet(C)
    BY <1>2, <2>1, FS_Subset
  <2>3. Cardinality(C) \in Nat
    BY <2>2, FS_CardinalityType
  <2> HIDE DEF l
  <2> QED
    BY <1>1, <2>1, <2>2, <2>3
<1> HIDE DEF k
<1>6. x \in Seq(V) /\ Len(x) = l + 1
  BY <1>5, InsertedAt
<1> HIDE DEF x
<1>7. m \in 0 .. l + 1
  BY <1>1
<1> HIDE DEF m, l
<1>8. SubSeq(x, 1, m) \in Seq(V)
  BY <1>6, <1>7
<1> QED
  BY <1>4, <1>8

\* The places of the n members with the greatest times, one placed after the other.
SlowestPlaces(items, n) ==
  LET place(top, i) ==
        LET k == 1 + Cardinality({j \in DOMAIN top : items[top[j]].dur >= items[i].dur})
        IN SubSeq(InsertAt(top, k, i), 1, Min({n, Len(top) + 1}))
  IN FoldLeft(place, <<>>, [i \in DOMAIN items |-> i])

\* SlowestPlaces chooses the n slowest.
LEMMA SlowestPlaced ==
  ASSUME NEW X, NEW items \in Seq(X), NEW n \in Nat,
         \A i \in 1 .. Len(items) : items[i].dur \in Nat
  PROVE  SlowestOf(SlowestPlaces(items, n), [i \in 1 .. Len(items) |-> items[i].dur], n, Len(items))
<1> DEFINE l == Len(items)
           a == [i \in 1 .. l |-> items[i].dur]
           V == Seq(1 .. l)
           f == [b \in V \X (1 .. l) |-> PlaceTop(b[1], a, b[2], n)]
           z == [i \in DOMAIN items |-> i]
           Place(top, i) == SubSeq(InsertAt(top, 1 + Cardinality({j \in DOMAIN top :
                                                 items[top[j]].dur >= items[i].dur}), i),
                                   1, Min({n, Len(top) + 1}))
           Fold(h) == h = [u \in SUBSET (DOMAIN z) |->
                             IF u = {} THEN <<>> ELSE Place(h[u \ {Max(u)}], z[Max(u)])]
           h == CHOOSE x : Fold(x)
<1>1. l \in Nat /\ DOMAIN items = 1 .. l /\ <<>> \in V
  OBVIOUS
<1>2. DOMAIN z = 1 .. l /\ \A i \in 1 .. l : z[i] = i
  BY <1>1
<1>3. \A i \in 1 .. l : a[i] \in Nat /\ a[i] = items[i].dur
  OBVIOUS
<1>4. SlowestPlaces(items, n) = h[DOMAIN z]
  <2>1. DOMAIN z = DOMAIN items
    OBVIOUS
  <2> QED
    BY <2>1 DEF SlowestPlaces, FoldLeft, MapThenFoldSet
<1> HIDE DEF z, a, l
<1>5. ASSUME NEW top \in V, NEW i \in 1 .. l PROVE Place(top, i) = PlaceTop(top, a, i, n)
  <2>1. \A j \in DOMAIN top : top[j] \in 1 .. l
    <3> DEFINE W == 1 .. l
    <3>1. top \in Seq(W)
      OBVIOUS
    <3> HIDE DEF W
    <3>2. \A j \in DOMAIN top : top[j] \in W
      BY <3>1
    <3> QED
      BY <3>2 DEF W
  <2> DEFINE C == {j \in DOMAIN top : a[top[j]] >= a[i]}
             E == {j \in DOMAIN top : items[top[j]].dur >= items[i].dur}
  <2>2. C = E
    <3>1. \A j \in DOMAIN top : a[top[j]] = items[top[j]].dur /\ a[i] = items[i].dur
      BY <1>3, <2>1
    <3> QED
      BY <3>1
  <2>3. Place(top, i) = SubSeq(InsertAt(top, 1 + Cardinality(E), i), 1, Min({n, Len(top) + 1}))
    OBVIOUS
  <2>4. PlaceTop(top, a, i, n) =
          SubSeq(InsertAt(top, 1 + Cardinality(C), i), 1, Min({n, Len(top) + 1}))
    BY DEF PlaceTop
  <2> HIDE DEF C, E
  <2> QED
    BY <2>2, <2>3, <2>4
<1>6. \A v \in V, i \in 1 .. l : f[<<v, i>>] = PlaceTop(v, a, i, n)
  OBVIOUS
<1>7. StepOK(l, V, f)
  <2> SUFFICES ASSUME NEW v \in V, NEW i \in 1 .. l PROVE f[<<v, i>>] \in V
    BY DEF StepOK
  <2> DEFINE W == 1 .. l
  <2>1. v \in Seq(W) /\ i \in W
    OBVIOUS
  <2> HIDE DEF W
  <2>2. PlaceTop(v, a, i, n) \in Seq(W)
    BY <2>1, PlaceTyped
  <2> QED
    BY <1>6, <2>2 DEF W
<1> HIDE DEF f, V, Place
<1>8. PICK g : Folded(g, l, V, <<>>, f)
  BY <1>1, <1>7, FoldExists
<1>9. \A u \in SUBSET (1 .. l) : u # {} => Max(u) \in 1 .. l /\ z[Max(u)] = Max(u)
  BY <1>2, <1>8 DEF Folded
<1>10. Fold(g)
  <2>1. g \in [SUBSET (1 .. l) -> V] /\ g[{}] = <<>>
    BY <1>8 DEF Folded
  <2>2. ASSUME NEW u \in SUBSET (1 .. l), u # {} PROVE g[u] = Place(g[u \ {Max(u)}], z[Max(u)])
    <3>1. /\ Max(u) \in 1 .. l /\ g[u \ {Max(u)}] \in V
          /\ g[u] = f[<<g[u \ {Max(u)}], Max(u)>>]
      BY <1>8, <2>2 DEF Folded
    <3>2. g[u] = PlaceTop(g[u \ {Max(u)}], a, Max(u), n)
      BY <1>6, <3>1
    <3>3. Place(g[u \ {Max(u)}], Max(u)) = PlaceTop(g[u \ {Max(u)}], a, Max(u), n)
      BY <1>5, <3>1
    <3> QED
      BY <1>9, <2>2, <3>2, <3>3
  <2>3. g = [u \in SUBSET (1 .. l) |->
               IF u = {} THEN <<>> ELSE Place(g[u \ {Max(u)}], z[Max(u)])]
    BY <2>1, <2>2
  <2> QED
    BY <1>2, <2>3
<1>11. Fold(h)
  <2> HIDE DEF Fold
  <2> QED
    BY <1>10
<1> HIDE DEF h
<1>12. Folding(h, l, V, <<>>, f)
  <2>1. h[{}] = <<>>
    BY <1>11
  <2>2. ASSUME NEW u \in SUBSET (1 .. l), u # {}, h[u \ {Max(u)}] \in V
        PROVE  h[u] = f[<<h[u \ {Max(u)}], Max(u)>>]
    <3>1. h[u] = Place(h[u \ {Max(u)}], z[Max(u)])
      BY <1>2, <1>11, <2>2
    <3>2. Max(u) \in 1 .. l /\ z[Max(u)] = Max(u)
      BY <1>9, <2>2
    <3>3. Place(h[u \ {Max(u)}], Max(u)) = PlaceTop(h[u \ {Max(u)}], a, Max(u), n)
      BY <1>5, <2>2, <3>2
    <3> QED
      BY <1>6, <2>2, <3>1, <3>2, <3>3
  <2> QED
    BY <2>1, <2>2 DEF Folding
<1>13. PICK p : StepsOf(p, l, V, <<>>, f) /\ p[l] = h[1 .. l]
  BY <1>1, <1>7, <1>12, FoldSteps
<1> DEFINE T == {k \in 0 .. l : ~SlowestOf(p[k], a, n, k)}
<1>14. SlowestOf(p[0], a, n, 0)
  <2>1. p[0] = <<>> /\ <<>> \in Seq(Nat) /\ Len(<<>>) = 0
    BY <1>13 DEF StepsOf
  <2>2. Len(p[0]) = IF n <= 0 THEN n ELSE 0
    BY <2>1
  <2> QED
    BY <2>1, <2>2 DEF SlowestOf
<1>15. T = {}
  <2> SUFFICES ASSUME T # {} PROVE FALSE
    OBVIOUS
  <2>1. T \in SUBSET Nat
    BY <1>1
  <2>2. PICK m \in T : \A k \in T : m <= k
    <3> HIDE DEF T
    <3> QED
      BY <2>1, LeastNat
  <2>3. m # 0
    BY <1>14
  <2>4. m \in 1 .. l /\ m - 1 \in 0 .. l /\ ~(m <= m - 1) /\ m \in Nat \ {0}
    BY <1>1, <2>3
  <2>5. SlowestOf(p[m - 1], a, n, m - 1)
    BY <2>2, <2>4
  <2>6. p[m] = PlaceTop(p[m - 1], a, m, n)
    BY <1>6, <1>13, <2>4 DEF StepsOf
  <2>7. \A i \in 1 .. m : a[i] \in Nat
    BY <1>1, <1>3, <2>4
  <2>8. SlowestOf(p[m], a, n, m)
    BY <2>4, <2>5, <2>6, <2>7, PlacedSlowest
  <2> QED
    BY <2>8
<1>16. SlowestOf(h[1 .. l], a, n, l)
  <2>1. l \in 0 .. l
    BY <1>1
  <2> QED
    BY <1>13, <1>15, <2>1
<1> QED
  BY <1>2, <1>4, <1>16 DEF a, l

\* How many of all, and how many of the chosen, take at least d.
AllSlow(a, l, d) == Cardinality({i \in 1 .. l : a[i] >= d})

ChosenSlow(top, a, d) == Cardinality({j \in 1 .. Len(top) : a[top[j]] >= d})

\* As many of the chosen take long as of all, up to the limit.
LEMMA SlowestCounts ==
  ASSUME NEW l \in Nat, NEW n \in Nat, NEW a \in [1 .. l -> Nat], NEW top, SlowestOf(top, a, n, l),
         NEW d \in Nat
  PROVE  ChosenSlow(top, a, d) = Min({AllSlow(a, l, d), n})
<1> DEFINE m == Len(top)
           J == {j \in 1 .. m : a[top[j]] >= d}
           K == {i \in 1 .. l : a[i] >= d}
           f == [j \in J |-> top[j]]
<1>0. ChosenSlow(top, a, d) = Cardinality(J) /\ AllSlow(a, l, d) = Cardinality(K)
  BY DEF ChosenSlow, AllSlow
<1>1. m \in Nat /\ m <= n /\ \A j \in 1 .. m : top[j] \in 1 .. l
  BY DEF SlowestOf
<1> HIDE DEF m
<1>2. IsFiniteSet(1 .. m) /\ Cardinality(1 .. m) = m /\ IsFiniteSet(1 .. l) /\ Cardinality(1 .. l) = l
  BY <1>1, UpTo
<1>3. J \subseteq 1 .. m /\ K \subseteq 1 .. l
  OBVIOUS
<1> HIDE DEF J, K
<1>4. IsFiniteSet(J) /\ IsFiniteSet(K) /\ Cardinality(J) <= m
  <2>1. IsFiniteSet(K)
    BY <1>2, <1>3, FS_Subset
  <2>2. IsFiniteSet(J) /\ Cardinality(J) <= Cardinality(1 .. m)
    BY <1>2, <1>3, FS_Subset
  <2> QED
    BY <1>2, <2>1, <2>2
<1>5. Cardinality(J) \in Nat /\ Cardinality(K) \in Nat
  BY <1>4, FS_CardinalityType
<1>6. f \in Injection(J, K)
  <2>1. \A j \in J : top[j] \in K
    BY <1>1, <1>3 DEF J, K
  <2>2. \A i \in J : \A j \in J : top[i] = top[j] => i = j
    BY <1>3 DEF SlowestOf, m
  <2> QED
    BY <2>1, <2>2 DEF Injection, IsInjective
<1> HIDE DEF f
<1>7. Cardinality(J) <= Cardinality(K) /\ (Cardinality(J) = Cardinality(K) <=> f \in Surjection(J, K))
  BY <1>4, <1>6, FS_Injection
<1>8. CASE \A e \in K : \E j \in 1 .. m : top[j] = e
  <2>1. f \in Surjection(J, K)
    <3>1. f \in [J -> K]
      BY <1>6 DEF Injection
    <3>2. \A e \in K : \E j \in J : f[j] = e
      <4> TAKE e \in K
      <4>1. PICK j \in 1 .. m : top[j] = e
        BY <1>8
      <4>2. j \in J
        BY <4>1 DEF J, K
      <4> QED
        BY <4>1, <4>2 DEF f
    <3> QED
      BY <3>1, <3>2 DEF Surjection
  <2>2. Cardinality(J) = Cardinality(K) /\ Cardinality(K) <= n
    BY <1>1, <1>4, <1>5, <1>7, <2>1
  <2> QED
    BY <1>0, <1>1, <1>5, <2>2, MinOfTwo
<1>9. CASE \E e \in K : ~\E j \in 1 .. m : top[j] = e
  <2>1. PICK e \in K : ~\E j \in 1 .. m : top[j] = e
    BY <1>9
  <2>2. m = n /\ \A j \in 1 .. m : a[top[j]] >= a[e]
    BY <1>3, <2>1 DEF SlowestOf, m
  <2>3. a[e] >= d /\ a[e] \in Nat
    BY <1>3 DEF K
  <2>4. \A j \in 1 .. m : a[top[j]] >= d
    BY <1>1, <2>2, <2>3
  <2>5. J = 1 .. m
    BY <2>4 DEF J
  <2>6. Cardinality(J) = n
    BY <1>2, <2>2, <2>5
  <2> QED
    BY <1>0, <1>5, <1>7, <2>6, MinOfTwo
<1> QED
  BY <1>8, <1>9

-----------------------------------------------------------------------------
(* The parts of a sequence.                                                *)

\* The sequence s is in data, from pos on.
Holds(data, pos, s) ==
  \A i \in 1 .. Len(s) : pos + i - 1 \in 1 .. Len(data) /\ data[pos + i - 1] = s[i]

\* A sequence holds itself, and what holds a whole holds its two halves.
LEMMA HoldsParts ==
  ASSUME NEW S, NEW a \in Seq(S), NEW b \in Seq(S), NEW data, NEW pos \in Nat,
         Holds(data, pos, a \o b)
  PROVE  /\ a \o b \in Seq(S) /\ Len(a \o b) = Len(a) + Len(b)
         /\ Holds(data, pos, a) /\ Holds(data, pos + Len(a), b)
<1> DEFINE c == a \o b
           m == Len(a)
           n == Len(b)
<1>1. /\ m \in Nat /\ n \in Nat /\ c \in Seq(S) /\ Len(c) = m + n
      /\ \A i \in 1 .. m : c[i] = a[i]
      /\ \A i \in 1 .. n : c[m + i] = b[i]
  OBVIOUS
<1> HIDE DEF c, m, n
<1>2. \A i \in 1 .. m + n : pos + i - 1 \in 1 .. Len(data) /\ data[pos + i - 1] = c[i]
  BY <1>1 DEF Holds, c
<1>3. \A i \in 1 .. m : i \in 1 .. m + n
  BY <1>1
<1>4. \A i \in 1 .. n : m + i \in 1 .. m + n /\ pos + (m + i) - 1 = pos + m + i - 1
  BY <1>1
<1>5. Holds(data, pos, a)
  BY <1>1, <1>2, <1>3 DEF Holds, m
<1>6. Holds(data, pos + m, b)
  <2> SUFFICES ASSUME NEW i \in 1 .. n
               PROVE  pos + m + i - 1 \in 1 .. Len(data) /\ data[pos + m + i - 1] = b[i]
    BY DEF Holds, n
  <2>1. m + i \in 1 .. m + n /\ pos + (m + i) - 1 = pos + m + i - 1
    BY <1>4
  <2>2. pos + (m + i) - 1 \in 1 .. Len(data) /\ data[pos + (m + i) - 1] = c[m + i]
    BY <1>2, <2>1
  <2> QED
    BY <1>1, <2>1, <2>2
<1> QED
  BY <1>1, <1>5, <1>6 DEF c, m, n

\* A sequence holds itself.
LEMMA HoldsWhole ==
  ASSUME NEW S, NEW s \in Seq(S)
  PROVE  Holds(s, 1, s)
<1>1. \A i \in 1 .. Len(s) : 1 + i - 1 = i
  OBVIOUS
<1> QED
  BY <1>1 DEF Holds

\* What is in a part of data is in data.
LEMMA HoldsWithin ==
  ASSUME NEW data, NEW pos \in Nat, NEW s, Holds(data, pos, s),
         NEW at \in Nat \ {0}, NEW x, Holds(s, at, x), Len(s) \in Nat, Len(x) \in Nat
  PROVE  Holds(data, pos + at - 1, x)
<1> SUFFICES ASSUME NEW i \in 1 .. Len(x)
             PROVE  /\ pos + at - 1 + i - 1 \in 1 .. Len(data)
                    /\ data[pos + at - 1 + i - 1] = x[i]
  BY DEF Holds
<1> DEFINE k == at + i - 1
<1>1. k \in 1 .. Len(s) /\ s[k] = x[i]
  BY DEF Holds
<1>2. pos + at - 1 + i - 1 = pos + k - 1
  OBVIOUS
<1> HIDE DEF k
<1>3. pos + k - 1 \in 1 .. Len(data) /\ data[pos + k - 1] = s[k]
  BY <1>1 DEF Holds
<1> QED
  BY <1>1, <1>2, <1>3

\* A sequence of sequences, put together: the next begins where the last ended.
FlatTo(f, q, n) == \A i \in 1 .. n : f[i] = IF i = 1 THEN q[i] ELSE f[i - 1] \o q[i]

\* FlattenSeq, item by item.
LEMMA FlattenIs ==
  ASSUME NEW S, NEW q \in Seq(Seq(S)), q # <<>>
  PROVE  \E f : FlatTo(f, q, Len(q)) /\ FlattenSeq(q) = f[Len(q)]
<1> DEFINE n == Len(q)
           Flat(h, m) == h = [i \in 1 .. m |-> IF i = 1 THEN q[i] ELSE h[i - 1] \o q[i]]
<1>1. n \in Nat \ {0} /\ DOMAIN q = 1 .. n
  BY EmptySeq
<1> HIDE DEF n
<1>2. \E h : Flat(h, n)
  <2> DEFINE T == {m \in 1 .. n : ~ \E h : Flat(h, m)}
  <2> SUFFICES ASSUME T # {} PROVE FALSE
    <3>1. n \in 1 .. n
      BY <1>1
    <3> HIDE DEF Flat
    <3> QED
      BY <3>1
  <2>1. T \in SUBSET Nat
    <3>1. 1 .. n \subseteq Nat
      BY <1>1
    <3> HIDE DEF Flat
    <3> QED
      BY <3>1
  <2>2. PICK m \in T : \A k \in T : m <= k
    <3> HIDE DEF T
    <3> QED
      BY <2>1, LeastNat
  <2>3. m \in 1 .. n /\ ~ \E h : Flat(h, m)
    OBVIOUS
  <2>4. CASE m = 1
    <3> DEFINE g == [i \in 1 .. 1 |-> q[1]]
    <3>1. Flat(g, m)
      BY <2>4
    <3> QED
      BY <2>3, <3>1
  <2>5. CASE m # 1
    <3>1. m - 1 \in 1 .. n /\ ~(m <= m - 1)
      BY <1>1, <2>3, <2>5
    <3>2. PICK h : Flat(h, m - 1)
      BY <2>2, <3>1
    <3> DEFINE g == [i \in 1 .. m |-> IF i = m THEN h[m - 1] \o q[m] ELSE h[i]]
    <3>3. \A i \in 1 .. m : g[i] = IF i = 1 THEN q[i] ELSE g[i - 1] \o q[i]
      <4> TAKE i \in 1 .. m
      <4>1. CASE i = m
        <5>1. g[m] = h[m - 1] \o q[m] /\ g[m - 1] = h[m - 1]
          BY <1>1, <2>3, <2>5, <3>1
        <5> QED
          BY <2>5, <4>1, <5>1
      <4>2. CASE i # m
        <5>1. i \in 1 .. m - 1 /\ g[i] = h[i]
          BY <1>1, <2>3, <4>2
        <5>2. i # 1 => g[i - 1] = h[i - 1]
          BY <1>1, <2>3, <5>1
        <5>3. h[i] = IF i = 1 THEN q[i] ELSE h[i - 1] \o q[i]
          BY <3>2, <5>1
        <5> QED
          BY <5>1, <5>2, <5>3
      <4> QED
        BY <4>1, <4>2
    <3>4. Flat(g, m)
      <4>1. g = [i \in 1 .. m |-> g[i]]
        OBVIOUS
      <4> HIDE DEF g
      <4> QED
        BY <3>3, <4>1
    <3> QED
      BY <2>3, <3>4
  <2> QED
    BY <2>4, <2>5
<1> DEFINE f == CHOOSE h : Flat(h, n)
<1>3. Flat(f, n)
  BY <1>2
<1>4. FlattenSeq(q) = f[n]
  BY <1>1 DEF FlattenSeq, n
<1> HIDE DEF f
<1>5. FlatTo(f, q, n)
  BY <1>3 DEF FlatTo
<1> QED
  BY <1>4, <1>5 DEF n

\* Where each of them is in the whole.
SpreadOver(o, q, s) ==
  /\ o \in [0 .. Len(q) -> Nat] /\ o[0] = 0 /\ o[Len(q)] = Len(s)
  /\ \A k \in 1 .. Len(q) : o[k] = o[k - 1] + Len(q[k]) /\ Holds(s, o[k - 1] + 1, q[k])

\* Items of one length, laid one after the other, stand at the multiples of it.
LEMMA FlattenHolds ==
  ASSUME NEW S, NEW q \in Seq(Seq(S))
  PROVE  FlattenSeq(q) \in Seq(S) /\ \E o : SpreadOver(o, q, FlattenSeq(q))
<1> DEFINE n == Len(q)
<1>1. n \in Nat /\ DOMAIN q = 1 .. n /\ \A i \in 1 .. n : q[i] \in Seq(S)
  OBVIOUS
<1>2. CASE q = <<>>
  <2> DEFINE o == [k \in 0 .. 0 |-> 0]
  <2>1. FlattenSeq(q) = <<>> /\ Len(q) = 0
    BY <1>2 DEF FlattenSeq
  <2>2. o \in [0 .. 0 -> Nat] /\ o[0] = 0
    OBVIOUS
  <2> HIDE DEF o
  <2>3. SpreadOver(o, q, <<>>)
    BY <2>1, <2>2 DEF SpreadOver
  <2> QED
    BY <2>1, <2>3
<1>3. CASE q # <<>>
  <2>1. PICK f : FlatTo(f, q, n) /\ FlattenSeq(q) = f[n]
    BY <1>3, FlattenIs
  <2>2. n \in Nat \ {0}
    BY <1>1, <1>3, EmptySeq
  <2> HIDE DEF n
  <2> DEFINE Good(m) == f[m] \in Seq(S)
             T == {m \in 1 .. n : ~Good(m)}
  <2>3. f[1] = q[1] /\ f[1] \in Seq(S)
    BY <1>1, <2>1, <2>2 DEF FlatTo
  <2>4. \A m \in 2 .. n : f[m] = f[m - 1] \o q[m] /\ m - 1 \in 1 .. n /\ m \in 1 .. n
    <3> TAKE m \in 2 .. n
    <3>1. m - 1 \in 1 .. n /\ m \in 1 .. n /\ m # 1
      BY <2>2
    <3> QED
      BY <2>1, <3>1 DEF FlatTo
  <2>5. T = {}
    <3> SUFFICES ASSUME T # {} PROVE FALSE
      OBVIOUS
    <3>1. T \in SUBSET Nat
      BY <2>2
    <3>2. PICK m \in T : \A k \in T : m <= k
      <4> HIDE DEF T
      <4> QED
        BY <3>1, LeastNat
    <3>3. m # 1
      BY <2>3
    <3>4. m \in 2 .. n /\ ~(m <= m - 1)
      BY <2>2, <3>3
    <3>5. f[m - 1] \in Seq(S)
      BY <2>4, <3>2, <3>4
    <3>6. f[m] = f[m - 1] \o q[m] /\ q[m] \in Seq(S)
      BY <1>1, <2>4, <3>4
    <3>7. f[m] \in Seq(S)
      BY <3>5, <3>6
    <3> QED
      BY <3>7
  <2>6. \A m \in 1 .. n : f[m] \in Seq(S) /\ Len(f[m]) \in Nat
    BY <2>5
  <2> HIDE DEF Good, T
  <2> DEFINE o == [k \in 0 .. n |-> IF k = 0 THEN 0 ELSE Len(f[k])]
  <2>7. o \in [0 .. n -> Nat] /\ o[0] = 0 /\ o[n] = Len(f[n]) /\ \A k \in 1 .. n : o[k] = Len(f[k])
    BY <2>2, <2>6
  <2> HIDE DEF o
  <2>8. ASSUME NEW k \in 1 .. n
        PROVE  o[k] = o[k - 1] + Len(q[k]) /\ Holds(f[k], o[k - 1] + 1, q[k])
    <3>1. q[k] \in Seq(S) /\ Len(q[k]) \in Nat
      BY <1>1
    <3>2. CASE k = 1
      <4>1. Holds(q[1], 1, q[1])
        BY <3>1, <3>2, HoldsWhole
      <4> QED
        BY <2>3, <2>7, <3>1, <3>2, <4>1
    <3>3. CASE k # 1
      <4>1. k \in 2 .. n /\ k - 1 \in 1 .. n
        BY <2>2, <3>3
      <4>2. f[k] = f[k - 1] \o q[k] /\ f[k - 1] \in Seq(S) /\ f[k] \in Seq(S)
            /\ o[k - 1] = Len(f[k - 1]) /\ o[k] = Len(f[k]) /\ Len(f[k - 1]) \in Nat
        BY <2>4, <2>6, <2>7, <4>1
      <4>3. Holds(f[k], 1, f[k - 1] \o q[k])
        BY <4>2, HoldsWhole
      <4>4. Len(f[k]) = Len(f[k - 1]) + Len(q[k]) /\ Holds(f[k], 1 + Len(f[k - 1]), q[k])
        BY <3>1, <4>2, <4>3, HoldsParts
      <4>5. 1 + Len(f[k - 1]) = Len(f[k - 1]) + 1
        BY <4>2
      <4> QED
        BY <4>2, <4>4, <4>5
    <3> QED
      BY <3>2, <3>3
  <2>9. \A k \in 1 .. n : \A m \in 1 .. n : k <= m => Holds(f[m], o[k - 1] + 1, q[k])
    <3> TAKE k \in 1 .. n
    <3> DEFINE U == {m \in 1 .. n : k <= m /\ ~Holds(f[m], o[k - 1] + 1, q[k])}
    <3> SUFFICES ASSUME U # {} PROVE FALSE
      OBVIOUS
    <3>1. U \in SUBSET Nat
      BY <2>2
    <3>2. PICK m \in U : \A j \in U : m <= j
      <4> HIDE DEF U
      <4> QED
        BY <3>1, LeastNat
    <3>3. m # k
      BY <2>8
    <3>4. m \in 2 .. n /\ m - 1 \in 1 .. n /\ k <= m - 1 /\ ~(m <= m - 1)
      BY <2>2, <3>3
    <3>5. Holds(f[m - 1], o[k - 1] + 1, q[k])
      BY <3>2, <3>4
    <3>6. f[m] = f[m - 1] \o q[m] /\ f[m - 1] \in Seq(S) /\ q[m] \in Seq(S) /\ f[m] \in Seq(S)
      BY <1>1, <2>4, <2>6, <3>4
    <3>7. Holds(f[m], 1, f[m - 1])
      <4>1. Holds(f[m], 1, f[m - 1] \o q[m])
        BY <3>6, HoldsWhole
      <4> QED
        BY <3>6, <4>1, HoldsParts
    <3>8. o[k - 1] \in Nat /\ q[k] \in Seq(S)
      <4>1. k - 1 \in 0 .. n
        BY <2>2
      <4> QED
        BY <1>1, <2>7, <4>1
    <3>9. Holds(f[m], 1 + (o[k - 1] + 1) - 1, q[k])
      <4>1. o[k - 1] + 1 \in Nat \ {0} /\ Len(f[m - 1]) \in Nat /\ Len(q[k]) \in Nat
        BY <3>6, <3>8
      <4> QED
        BY <3>5, <3>7, <4>1, HoldsWithin
    <3>10. 1 + (o[k - 1] + 1) - 1 = o[k - 1] + 1
      BY <3>8
    <3>11. m \in U
      OBVIOUS
    <3> QED
      BY <3>9, <3>10, <3>11
  <2>10. SpreadOver(o, q, f[n])
    <3>1. n \in 1 .. n /\ \A k \in 1 .. n : k <= n
      BY <2>2
    <3> QED
      BY <2>7, <2>8, <2>9, <3>1 DEF SpreadOver, n
  <2> QED
    BY <2>1, <2>2, <2>6, <2>10
<1> QED
  BY <1>2, <1>3

\* The first k of a function on 1 .. n, and one more.
LEMMA OneMoreItem ==
  ASSUME NEW n \in Nat, NEW k \in 1 .. n, NEW f, DOMAIN f = 1 .. n
  PROVE  Append([i \in 1 .. k - 1 |-> f[i]], f[k]) = [i \in 1 .. k |-> f[i]]
<1> DEFINE S == {f[i] : i \in 1 .. n}
           a == [i \in 1 .. k - 1 |-> f[i]]
           b == [i \in 1 .. k |-> f[i]]
           x == f[k]
           c == Append(a, x)
<1>1. \A i \in 1 .. n : f[i] \in S
  OBVIOUS
<1>2. x \in S
  OBVIOUS
<1> HIDE DEF S
<1>3. a \in [1 .. k - 1 -> S] /\ b \in [1 .. k -> S]
  BY <1>1
<1>4. /\ \A i \in 1 .. k - 1 : a[i] = b[i]
      /\ b[k] = x
  OBVIOUS
<1> HIDE DEF a, b, x
<1>5. a \in Seq(S) /\ Len(a) = k - 1 /\ b \in Seq(S) /\ Len(b) = k
  BY <1>3
<1>6. c \in Seq(S) /\ Len(c) = k /\ c[k] = x /\ \A i \in 1 .. k - 1 : c[i] = a[i]
  BY <1>2, <1>5
<1> HIDE DEF c
<1>7. \A i \in 1 .. k : c[i] = b[i]
  <2> TAKE i \in 1 .. k
  <2>1. i \in 1 .. k - 1 \/ i = k
    OBVIOUS
  <2> QED
    BY <1>4, <1>6, <2>1
<1>8. c = b
  BY <1>5, <1>6, <1>7, SeqEqual
<1> QED
  BY <1>8 DEF a, b, c, x

Joined(data, a, b, c, d, e, f, g) == data = a \o b \o c \o d \o e \o f \o g

PartsAt(data, a, b, c, d, e, f, g) ==
  /\ Holds(data, 1, a) /\ Holds(data, 1 + Len(a), b)
  /\ Holds(data, 1 + Len(a) + Len(b), c)
  /\ Holds(data, 1 + Len(a) + Len(b) + Len(c), d)
  /\ Holds(data, 1 + Len(a) + Len(b) + Len(c) + Len(d), e)
  /\ Holds(data, 1 + Len(a) + Len(b) + Len(c) + Len(d) + Len(e), f)
  /\ Holds(data, 1 + Len(a) + Len(b) + Len(c) + Len(d) + Len(e) + Len(f), g)

\* Where the seven parts of a record are in it.
LEMMA SevenParts ==
  ASSUME NEW S, NEW a \in Seq(S), NEW b \in Seq(S), NEW c \in Seq(S), NEW d \in Seq(S),
         NEW e \in Seq(S), NEW f \in Seq(S), NEW g \in Seq(S),
         NEW data, Joined(data, a, b, c, d, e, f, g)
  PROVE  data \in Seq(S) /\ PartsAt(data, a, b, c, d, e, f, g)
<1> DEFINE x2 == a \o b
           x3 == x2 \o c
           x4 == x3 \o d
           x5 == x4 \o e
           x6 == x5 \o f
           x7 == x6 \o g
           l == Len(a)
<1>1. x7 = data
  BY DEF Joined
<1>2. x2 \in Seq(S) /\ Len(x2) = Len(a) + Len(b)
  OBVIOUS
<1> HIDE DEF x2
<1>3. x3 \in Seq(S) /\ Len(x3) = Len(x2) + Len(c)
  BY <1>2, JoinTyped
<1> HIDE DEF x3
<1>4. x4 \in Seq(S) /\ Len(x4) = Len(x3) + Len(d)
  BY <1>3, JoinTyped
<1> HIDE DEF x4
<1>5. x5 \in Seq(S) /\ Len(x5) = Len(x4) + Len(e)
  BY <1>4, JoinTyped
<1> HIDE DEF x5
<1>6. x6 \in Seq(S) /\ Len(x6) = Len(x5) + Len(f)
  BY <1>5, JoinTyped
<1> HIDE DEF x6
<1>7. x7 \in Seq(S) /\ Len(x7) = Len(x6) + Len(g)
  BY <1>6, JoinTyped
<1> HIDE DEF x7
<1>8. Holds(data, 1, x7)
  BY <1>1, <1>7, HoldsWhole
<1>9. Holds(data, 1, x6) /\ Holds(data, 1 + Len(x6), g)
  BY <1>6, <1>8, HoldsParts DEF x7
<1>10. Holds(data, 1, x5) /\ Holds(data, 1 + Len(x5), f)
  BY <1>5, <1>9, HoldsParts DEF x6
<1>11. Holds(data, 1, x4) /\ Holds(data, 1 + Len(x4), e)
  BY <1>4, <1>10, HoldsParts DEF x5
<1>12. Holds(data, 1, x3) /\ Holds(data, 1 + Len(x3), d)
  BY <1>3, <1>11, HoldsParts DEF x4
<1>13. Holds(data, 1, x2) /\ Holds(data, 1 + Len(x2), c)
  BY <1>2, <1>12, HoldsParts DEF x3
<1>14. Holds(data, 1, a) /\ Holds(data, 1 + Len(a), b)
  BY <1>13, HoldsParts DEF x2
<1>15. /\ Len(a) \in Nat /\ Len(b) \in Nat /\ Len(c) \in Nat /\ Len(d) \in Nat /\ Len(e) \in Nat
       /\ Len(f) \in Nat
  OBVIOUS
<1>16. /\ 1 + Len(x2) = 1 + Len(a) + Len(b)
       /\ 1 + Len(x3) = 1 + Len(a) + Len(b) + Len(c)
       /\ 1 + Len(x4) = 1 + Len(a) + Len(b) + Len(c) + Len(d)
       /\ 1 + Len(x5) = 1 + Len(a) + Len(b) + Len(c) + Len(d) + Len(e)
       /\ 1 + Len(x6) = 1 + Len(a) + Len(b) + Len(c) + Len(d) + Len(e) + Len(f)
  BY <1>2, <1>3, <1>4, <1>5, <1>6, <1>15
<1> QED
  BY <1>1, <1>7, <1>9, <1>10, <1>11, <1>12, <1>13, <1>14, <1>16 DEF PartsAt

=============================================================================
