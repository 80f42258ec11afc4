---------------------------------- MODULE Sums ---------------------------------
(***************************************************************************)
(* What the proofs need to know of the sum of a function over a finite     *)
(* set (SumFunctionOnSet of the community modules): it is an integer, any  *)
(* element can be taken out of it, and it changes as its terms do.         *)
(*                                                                         *)
(* The sum is defined by choosing elements one by one, so each fact asks   *)
(* for an induction on the set.  The induction theorems of the library     *)
(* take a predicate and cannot be instantiated; the proofs go by the       *)
(* smallest counterexample instead: the subsets for which the fact fails   *)
(* are a set, strict inclusion of finite sets is well founded, and so one  *)
(* of them has no smaller one (SmallestSet).                               *)
(***************************************************************************)
EXTENDS Integers, Functions, FiniteSetTheorems, TLAPS

\* The element that the sum takes out first.
Pick(s) == CHOOSE x \in s : TRUE

\* F is the table of the sums over the subsets of S.
SumTable(F, f, S) ==
    F = [s \in SUBSET S |-> IF s = {} THEN 0 ELSE f[Pick(s)] + F[s \ {Pick(s)}]]

\* The sum is read from such a table.
LEMMA Unfold ==
  ASSUME NEW f, NEW S PROVE SumFunctionOnSet(f, S) = (CHOOSE F : SumTable(F, f, S))[S]
BY DEF SumFunctionOnSet, FoldFunctionOnSet, MapThenFoldSet, SumTable, Pick

\* A non-empty set of subsets of a finite set has a smallest member.
LEMMA SmallestSet ==
  ASSUME NEW S, IsFiniteSet(S), NEW Bad \in SUBSET SUBSET S, Bad # {}
  PROVE  \E T \in Bad : \A U \in SUBSET T : U \in Bad => U = T
<1>1. \A T \in SUBSET S : IsFiniteSet(T)  BY FS_Subset
<1>2. Bad \subseteq FiniteSubsetsOf(S)  BY <1>1 DEF FiniteSubsetsOf
<1>3. IsWellFoundedOn(StrictSubsetOrdering(S), FiniteSubsetsOf(S))
  BY FS_StrictSubsetOrderingWellFounded
<1>4. PICK T \in Bad : \A U \in Bad : <<U, T>> \notin StrictSubsetOrdering(S)
  BY <1>2, <1>3, WFMin
<1>5. QED BY <1>4 DEF StrictSubsetOrdering

\* Two tables agree where both are defined.
LEMMA TablesAgree ==
  ASSUME NEW f, NEW S, NEW R, NEW F, NEW G, SumTable(F, f, S), SumTable(G, f, R),
         NEW T, T \subseteq S, T \subseteq R, IsFiniteSet(T)
  PROVE  F[T] = G[T]
<1> DEFINE Bad == {U \in SUBSET T : F[U] # G[U]}
<1>1. SUFFICES ASSUME Bad # {} PROVE FALSE  OBVIOUS
<1>2. PICK U \in Bad : \A W \in SUBSET U : W \in Bad => W = U
  <2>1. Bad \in SUBSET SUBSET T  OBVIOUS
  <2> HIDE DEF Bad
  <2>2. QED  BY <1>1, <2>1, SmallestSet
<1>3. CASE U = {}  BY <1>2, <1>3 DEF SumTable
<1>4. CASE U # {}
  <2>1. Pick(U) \in U  BY <1>4 DEF Pick
  <2>2. F[U \ {Pick(U)}] = G[U \ {Pick(U)}]  BY <1>2, <2>1
  <2>3. U \in SUBSET S /\ U \in SUBSET R  OBVIOUS
  <2>4. F[U] = f[Pick(U)] + F[U \ {Pick(U)}]  BY <1>4, <2>3 DEF SumTable
  <2>5. G[U] = f[Pick(U)] + G[U \ {Pick(U)}]  BY <1>4, <2>3 DEF SumTable
  <2>6. QED  BY <2>2, <2>4, <2>5
<1>5. QED BY <1>3, <1>4

\* The recursion the definition stands for: one element, and the sum of the rest.
LEMMA SumPick ==
  ASSUME NEW f, NEW S, IsFiniteSet(S)
  PROVE  SumFunctionOnSet(f, S) =
           IF S = {} THEN 0 ELSE f[Pick(S)] + SumFunctionOnSet(f, S \ {Pick(S)})
<1> DEFINE V(s) == SumFunctionOnSet(f, s)
           Step(s) == IF s = {} THEN 0 ELSE f[Pick(s)] + V(s \ {Pick(s)})
           Bad == {T \in SUBSET S : V(T) # Step(T)}
<1>1. SUFFICES ASSUME Bad # {} PROVE FALSE  OBVIOUS
<1>2. PICK T \in Bad : \A U \in SUBSET T : U \in Bad => U = T
  <2>1. Bad \in SUBSET SUBSET S  OBVIOUS
  <2> HIDE DEF Bad
  <2>2. QED  BY <1>1, <2>1, SmallestSet
<1> DEFINE F == [s \in SUBSET T |-> Step(s)]
<1>3. SumTable(F, f, T)
  <2>1. \A s \in SUBSET T : s # {} => Pick(s) \in s  BY DEF Pick
  <2>2. ASSUME NEW s \in SUBSET T, s # {} PROVE F[s \ {Pick(s)}] = V(s \ {Pick(s)})
    <3>1. s \ {Pick(s)} \in SUBSET T /\ s \ {Pick(s)} # T  BY <2>1, <2>2
    <3>2. s \ {Pick(s)} \notin Bad  BY <1>2, <3>1
    <3>3. V(s \ {Pick(s)}) = Step(s \ {Pick(s)})  BY <3>1, <3>2
    <3> HIDE DEF V, Step
    <3>4. QED  BY <3>1, <3>3
  <2>3. F = [s \in SUBSET T |-> IF s = {} THEN 0 ELSE f[Pick(s)] + V(s \ {Pick(s)})]  OBVIOUS
  <2> HIDE DEF F, V
  <2>4. F = [s \in SUBSET T |-> IF s = {} THEN 0 ELSE f[Pick(s)] + F[s \ {Pick(s)}]]
    BY <2>2, <2>3
  <2>5. QED  BY <2>4 DEF SumTable
<1> DEFINE C == CHOOSE G : SumTable(G, f, T)
<1>4. SumTable(C, f, T)  BY <1>3
<1>5. V(T) = C[T]  BY Unfold
<1>6. CASE T = {}
  <2> HIDE DEF C
  <2> QED BY <1>2, <1>4, <1>5, <1>6 DEF SumTable
<1>7. CASE T # {}
  <2> DEFINE U == T \ {Pick(T)}
  <2>1. Pick(T) \in T  BY <1>7 DEF Pick
  <2>2. U \in SUBSET T /\ U # T /\ IsFiniteSet(U)
    BY <2>1, FS_Subset
  <2> DEFINE D == CHOOSE G : SumTable(G, f, U)
             H == [s \in SUBSET U |-> C[s]]
  <2>3. SumTable(H, f, U)
    <3> HIDE DEF C, U, D
    <3>1. \A s \in SUBSET U : s \in SUBSET T /\ s \ {Pick(s)} \in SUBSET U  BY <2>2
    <3>2. \A s \in SUBSET T : C[s] = IF s = {} THEN 0 ELSE f[Pick(s)] + C[s \ {Pick(s)}]
      BY <1>4 DEF SumTable
    <3>3. H = [s \in SUBSET U |-> IF s = {} THEN 0 ELSE f[Pick(s)] + H[s \ {Pick(s)}]]
      BY <3>1, <3>2
    <3>4. QED  BY <3>3 DEF SumTable
  <2>4. SumTable(D, f, U)  BY <2>3
  <2>5. V(U) = D[U]  BY Unfold
  <2>6. D[U] = C[U]
    <3> HIDE DEF C, D, U
    <3> QED  BY <1>4, <2>2, <2>4, TablesAgree
  <2>7. C[T] = f[Pick(T)] + C[U]
    <3> HIDE DEF C
    <3> QED  BY <1>4, <1>7 DEF SumTable
  <2>8. V(T) = Step(T)
    <3>1. V(T) = f[Pick(T)] + V(U)
      <4> HIDE DEF V, U, C, D
      <4> QED BY <1>5, <2>5, <2>6, <2>7
    <3>2. QED  BY <3>1, <1>7
  <2>9. QED  BY <1>2, <2>8
<1>8. QED  BY <1>6, <1>7

\* The sum is an integer, and any element, not only the one chosen, can be taken out.
LEMMA SumOne ==
  ASSUME NEW S, IsFiniteSet(S), NEW f, \A x \in S : f[x] \in Int
  PROVE  /\ SumFunctionOnSet(f, S) \in Int
         /\ \A x \in S : SumFunctionOnSet(f, S) = f[x] + SumFunctionOnSet(f, S \ {x})
<1> DEFINE V(s) == SumFunctionOnSet(f, s)
           Good(T) == V(T) \in Int /\ \A x \in T : V(T) = f[x] + V(T \ {x})
           Bad == {T \in SUBSET S : ~Good(T)}
<1>1. SUFFICES ASSUME Bad # {} PROVE FALSE  OBVIOUS
<1>2. PICK T \in Bad : \A U \in SUBSET T : U \in Bad => U = T
  <2>1. Bad \in SUBSET SUBSET S  OBVIOUS
  <2> HIDE DEF Bad
  <2>2. QED  BY <1>1, <2>1, SmallestSet
<1>3. \A U \in SUBSET T : U # T => Good(U)
  <2> HIDE DEF Good
  <2> QED  BY <1>2
<1>4. IsFiniteSet(T) /\ \A x \in T : f[x] \in Int  BY FS_Subset
<1>5. CASE T = {}
  <2>1. V(T) = 0  BY <1>4, <1>5, SumPick
  <2> HIDE DEF V
  <2>2. Good(T)  BY <1>5, <2>1
  <2>3. QED  BY <1>2, <2>2
<1>6. CASE T # {}
  <2> DEFINE p == Pick(T)
  <2>1. p \in T  BY <1>6 DEF Pick
  <2>2. V(T) = f[p] + V(T \ {p})  BY <1>4, <1>6, SumPick
  <2> HIDE DEF p, V
  <2>3. V(T) \in Int  BY <1>3, <1>4, <2>1, <2>2
  <2>4. ASSUME NEW x \in T, x # p PROVE V(T) = f[x] + V(T \ {x})
    <3> DEFINE R == (T \ {p}) \ {x}
    <3>1. V(T \ {p}) = f[x] + V(R)  BY <1>3, <2>1, <2>4
    <3>2. V(T \ {x}) = f[p] + V((T \ {x}) \ {p})  BY <1>3, <2>1, <2>4
    <3>3. (T \ {x}) \ {p} = R /\ R \in SUBSET T /\ R # T  BY <2>1
    <3>4. V(R) \in Int  BY <1>3, <3>3
    <3>5. f[x] \in Int /\ f[p] \in Int  BY <1>4, <2>1
    <3>6. V(T \ {x}) = f[p] + V(R)  BY <3>2, <3>3
    <3> DEFINE r == V(R)
    <3>7. f[p] + (f[x] + r) = f[x] + (f[p] + r)
      <4>1. r \in Int  BY <3>4
      <4> HIDE DEF r
      <4>2. QED  BY <3>5, <4>1
    <3>8. QED  BY <2>2, <3>1, <3>6, <3>7
  <2>5. Good(T)  BY <2>2, <2>3, <2>4
  <2>6. QED  BY <1>2, <2>5
<1>7. QED  BY <1>5, <1>6

\* The sum of nothing.
LEMMA SumEmpty == \A f : SumFunctionOnSet(f, {}) = 0
BY SumPick, FS_EmptySet

\* The sum over one element more.
LEMMA SumAdd ==
  ASSUME NEW S, IsFiniteSet(S), NEW x, x \notin S,
         NEW f, \A y \in S \cup {x} : f[y] \in Int
  PROVE  SumFunctionOnSet(f, S \cup {x}) = f[x] + SumFunctionOnSet(f, S)
<1>1. IsFiniteSet(S \cup {x})  BY FS_AddElement
<1>2. (S \cup {x}) \ {x} = S  OBVIOUS
<1>3. SumFunctionOnSet(f, S \cup {x}) = f[x] + SumFunctionOnSet(f, (S \cup {x}) \ {x})
  BY <1>1, SumOne
<1>4. QED  BY <1>2, <1>3

\* Larger terms, larger sum.
LEMMA SumLeq ==
  ASSUME NEW S, IsFiniteSet(S), NEW f, NEW g,
         \A x \in S : f[x] \in Int /\ g[x] \in Int /\ f[x] <= g[x]
  PROVE  SumFunctionOnSet(f, S) <= SumFunctionOnSet(g, S)
<1> DEFINE A(s) == SumFunctionOnSet(f, s)
           B(s) == SumFunctionOnSet(g, s)
           Bad == {T \in SUBSET S : ~(A(T) <= B(T))}
<1>1. SUFFICES ASSUME Bad # {} PROVE FALSE  OBVIOUS
<1>2. PICK T \in Bad : \A U \in SUBSET T : U \in Bad => U = T
  <2>1. Bad \in SUBSET SUBSET S  OBVIOUS
  <2> HIDE DEF Bad
  <2>2. QED  BY <1>1, <2>1, SmallestSet
<1>3. IsFiniteSet(T)  BY FS_Subset
<1>4. CASE T = {}
  <2>1. A(T) = 0 /\ B(T) = 0  BY <1>4, SumEmpty
  <2>2. A(T) <= B(T)
    <3> HIDE DEF A, B
    <3> QED  BY <2>1
  <2>3. QED  BY <1>2, <2>2
<1>5. ASSUME NEW x \in T PROVE FALSE
  <2>1. A(T) = f[x] + A(T \ {x}) /\ B(T) = g[x] + B(T \ {x})  BY <1>3, SumOne
  <2>2. IsFiniteSet(T \ {x})  BY <1>3, FS_RemoveElement
  <2>3. A(T \ {x}) \in Int /\ B(T \ {x}) \in Int  BY <2>2, SumOne
  <2>4. A(T \ {x}) <= B(T \ {x})
    <3>1. T \ {x} \in SUBSET T /\ T \ {x} # T  BY <1>5
    <3>2. QED  BY <1>2, <3>1
  <2> DEFINE a == A(T \ {x})
             b == B(T \ {x})
  <2>5. f[x] + a <= g[x] + b
    <3>1. a \in Int /\ b \in Int /\ a <= b /\ f[x] \in Int /\ g[x] \in Int /\ f[x] <= g[x]
      BY <2>3, <2>4
    <3> HIDE DEF a, b
    <3>2. QED  BY <3>1
  <2>6. A(T) <= B(T)  BY <2>1, <2>5
  <2>7. QED  BY <1>2, <2>6
<1>6. QED  BY <1>4, <1>5

\* Equal terms, equal sum.
LEMMA SumSame ==
  ASSUME NEW S, IsFiniteSet(S), NEW f, NEW g, \A x \in S : f[x] \in Int /\ f[x] = g[x]
  PROVE  SumFunctionOnSet(f, S) = SumFunctionOnSet(g, S)
<1> DEFINE a == SumFunctionOnSet(f, S)
           b == SumFunctionOnSet(g, S)
<1>1. a \in Int /\ b \in Int  BY SumOne
<1>2. a <= b /\ b <= a  BY SumLeq
<1> HIDE DEF a, b
<1>3. a = b  BY <1>1, <1>2
<1>4. QED  BY <1>3 DEF a, b

\* A step that changes one term changes the sum by as much.
LEMMA SumChange ==
  ASSUME NEW S, IsFiniteSet(S), NEW f, NEW g, NEW x \in S,
         \A y \in S : f[y] \in Int /\ g[y] \in Int /\ (y # x => f[y] = g[y])
  PROVE  SumFunctionOnSet(g, S) = SumFunctionOnSet(f, S) + (g[x] - f[x])
<1> DEFINE R == S \ {x}
           a == SumFunctionOnSet(f, R)
           b == SumFunctionOnSet(g, R)
<1>1. IsFiniteSet(R)  BY FS_RemoveElement
<1>2. a \in Int /\ a = b  BY <1>1, SumOne, SumSame
<1>3. SumFunctionOnSet(f, S) = f[x] + a /\ SumFunctionOnSet(g, S) = g[x] + b  BY SumOne
<1> HIDE DEF a, b
<1>4. g[x] + a = (f[x] + a) + (g[x] - f[x])
  <2> DEFINE p == f[x]
             q == g[x]
  <2>1. p \in Int /\ q \in Int  OBVIOUS
  <2> HIDE DEF p, q
  <2>2. q + a = (p + a) + (q - p)  BY <1>2, <2>1
  <2>3. QED  BY <2>2 DEF p, q
<1>5. QED  BY <1>2, <1>3, <1>4

\* A term that grows by one.
LEMMA OneMore ==
  ASSUME NEW H, IsFiniteSet(H), NEW f, NEW g, NEW m \in H, g[m] = f[m] + 1,
         \A t \in H : f[t] \in Int /\ g[t] \in Int /\ (t # m => f[t] = g[t])
  PROVE  SumFunctionOnSet(g, H) = SumFunctionOnSet(f, H) + 1
<1>1. SumFunctionOnSet(g, H) = SumFunctionOnSet(f, H) + (g[m] - f[m])  BY SumChange
<1>2. g[m] - f[m] = 1
  <2> DEFINE k == f[m]
             n == g[m]
  <2>1. k \in Int /\ n = k + 1  OBVIOUS
  <2> HIDE DEF k, n
  <2>2. n - k = 1  BY <2>1
  <2>3. QED  BY <2>2 DEF k, n
<1>3. QED  BY <1>1, <1>2

\* Nothing but zeros.
LEMMA SumZero ==
  ASSUME NEW S, IsFiniteSet(S), NEW f, \A x \in S : f[x] = 0
  PROVE  SumFunctionOnSet(f, S) = 0
<1> DEFINE Bad == {T \in SUBSET S : SumFunctionOnSet(f, T) # 0}
<1>1. SUFFICES ASSUME Bad # {} PROVE FALSE  OBVIOUS
<1>2. PICK T \in Bad : \A U \in SUBSET T : U \in Bad => U = T
  <2>1. Bad \in SUBSET SUBSET S  OBVIOUS
  <2> HIDE DEF Bad
  <2>2. QED  BY <1>1, <2>1, SmallestSet
<1>3. IsFiniteSet(T)  BY FS_Subset
<1>4. T # {}  BY <1>2, SumEmpty
<1>5. PICK x \in T : TRUE  BY <1>4
<1>6. SumFunctionOnSet(f, T) = f[x] + SumFunctionOnSet(f, T \ {x})  BY <1>3, SumOne
<1>7. SumFunctionOnSet(f, T \ {x}) = 0
  <2>1. T \ {x} \in SUBSET T /\ T \ {x} # T  BY <1>5
  <2>2. QED  BY <1>2, <2>1
<1>8. SumFunctionOnSet(f, T) = 0  BY <1>6, <1>7
<1>9. QED  BY <1>2, <1>8

\* A sum of natural numbers is one.
LEMMA SumNatural ==
  ASSUME NEW S, IsFiniteSet(S), NEW f, \A x \in S : f[x] \in Nat
  PROVE  SumFunctionOnSet(f, S) \in Nat
<1> DEFINE z == [x \in S |-> 0]
           a == SumFunctionOnSet(f, S)
<1>1. SumFunctionOnSet(z, S) = 0  BY SumZero
<1>2. SumFunctionOnSet(z, S) <= a  BY SumLeq
<1>3. a \in Int  BY SumOne
<1> HIDE DEF a
<1>4. a \in Nat  BY <1>1, <1>2, <1>3
<1>5. QED  BY <1>4 DEF a

\* Part of the summands adds up to no more than all of them.
LEMMA SumPart ==
  ASSUME NEW S, IsFiniteSet(S), NEW T, T \subseteq S, NEW f, \A x \in S : f[x] \in Nat
  PROVE  SumFunctionOnSet(f, T) <= SumFunctionOnSet(f, S)
<1> DEFINE Bad == {R \in SUBSET S : T \subseteq R /\ ~(SumFunctionOnSet(f, T) <= SumFunctionOnSet(f, R))}
<1>1. SUFFICES ASSUME Bad # {} PROVE FALSE
  <2>1. S \notin Bad  OBVIOUS
  <2>2. S \in SUBSET S  OBVIOUS
  <2>3. QED  BY <2>1, <2>2
<1>2. PICK R \in Bad : \A U \in SUBSET R : U \in Bad => U = R
  <2>1. Bad \in SUBSET SUBSET S  OBVIOUS
  <2> HIDE DEF Bad
  <2>2. QED  BY <1>1, <2>1, SmallestSet
<1>3. IsFiniteSet(R) /\ R \subseteq S /\ T \subseteq R  BY FS_Subset
<1>4. IsFiniteSet(T)  BY <1>3, FS_Subset
<1>5. CASE T = R
  <2>1. SumFunctionOnSet(f, T) \in Int  BY <1>4, <1>3, SumOne
  <2>2. QED  BY <2>1, <1>5
<1>6. CASE T # R
  <2>1. PICK x \in R : x \notin T  BY <1>3, <1>6
  <2> DEFINE U == R \ {x}
  <2>2. U \in SUBSET R /\ U # R /\ T \subseteq U /\ U \in SUBSET S  BY <1>3, <2>1
  <2>3. SumFunctionOnSet(f, T) <= SumFunctionOnSet(f, U)  BY <1>2, <2>2
  <2>4. SumFunctionOnSet(f, R) = f[x] + SumFunctionOnSet(f, U)
    BY <1>3, SumOne
  <2>5. f[x] \in Nat  BY <1>3
  <2>u. IsFiniteSet(U) /\ (\A y \in U : f[y] \in Int) /\ (\A y \in T : f[y] \in Int)
    BY <1>3, <2>2, FS_Subset
  <2>6. SumFunctionOnSet(f, T) \in Int /\ SumFunctionOnSet(f, U) \in Int
    <3> HIDE DEF U
    <3>1. QED  BY <1>4, <2>u, SumOne
  <2>7. SumFunctionOnSet(f, T) <= SumFunctionOnSet(f, R)
    <3> DEFINE a == SumFunctionOnSet(f, T)
               b == SumFunctionOnSet(f, U)
               c == SumFunctionOnSet(f, R)
               d == f[x]
    <3>1. a \in Int /\ b \in Int /\ d \in Nat /\ c = d + b /\ a <= b  BY <2>3, <2>4, <2>5, <2>6
    <3> HIDE DEF a, b, c, d
    <3>2. a <= c  BY <3>1
    <3>3. QED  BY <3>2 DEF a, c
  <2>8. QED  BY <2>7
<1>7. QED  BY <1>5, <1>6
=============================================================================
