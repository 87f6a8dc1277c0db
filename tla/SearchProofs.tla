---------------------------- MODULE SearchProofs ----------------------------
(***************************************************************************)
(* Theorems about what the search finds: the scores of the states and the  *)
(* best translation, for all instances whose language model is complete    *)
(* (LmClosed). DecoderProofs gives the types and the loaded tables.        *)
(*                                                                         *)
(* ScoresInv says of every state what IsScored says: it knows the last     *)
(* words of its derivation, as far as the language model looks back, how   *)
(* many of them have been scored and the last phrase's weights, and its    *)
(* partial score is the derivation's. A query sums what Katz back-off      *)
(* gives for its words (QueryIsKatz), so asking for a few words at a time  *)
(* scores the whole; the estimate is the best cutting of the rest          *)
(* (FutureIsBestCutting).                                                  *)
(*                                                                         *)
(* BestInv says that what an expanded state makes was given to its level.  *)
(* Two states of one sub-problem go on alike (SameContinuation), so if     *)
(* nothing is lost but by recombination, some state of the stack stands    *)
(* for each derivation, by induction over its phrases, and the first of    *)
(* the last level is no worse than any of them.                            *)
(***************************************************************************)
EXTENDS DecoderProofs

-----------------------------------------------------------------------------
(* Sums and sequences                                                        *)

\* How a sum over S is made up: the element that CHOOSE takes first, then the rest.
IsSumOver(fun, S, f) ==
  /\ f \in [SUBSET S -> Int]
  /\ \A T \in SUBSET S :
       f[T] = IF T = {} THEN 0 ELSE fun[CHOOSE x \in T : TRUE] + f[T \ {CHOOSE x \in T : TRUE}]
\* A sum over a finite set of numbers is made up like that.
LEMMA SumRecursion ==
  ASSUME NEW S, IsFiniteSet(S), NEW fun, \A x \in S : fun[x] \in Int
  PROVE  \E f : IsSumOver(fun, S, f) /\ SumFunctionOnSet(fun, S) = f[S]
<1> DEFINE op == [p \in S \X Int |-> fun[p[1]] + p[2]]
           pick == [T \in SUBSET S |-> CHOOSE x \in T : TRUE]
           IsIter(h) == h = [T \in SUBSET S |->
                               IF T = {} THEN 0
                               ELSE LET x == CHOOSE x \in T : TRUE IN fun[x] + h[T \ {x}]]
           iter == CHOOSE h : IsIter(h)
<1>1. op \in [S \X Int -> Int] /\ \A x \in S, k \in Int : op[<<x, k>>] = fun[x] + k
  OBVIOUS
<1>2. /\ \A T \in SUBSET S : T # {} => pick[T] \in T
      /\ \A T \in SUBSET S : pick[T] = CHOOSE x \in T : TRUE
  OBVIOUS
<1> HIDE DEF op, pick
<1>3. IsFold(S, Int, 0, op, pick)
  BY <1>1, <1>2 DEF IsFold
<1>4. PICK f : FoldsTo(S, Int, 0, op, pick, f)
  BY <1>3, FoldExists
<1>5. /\ f \in [SUBSET S -> Int]
      /\ \A T \in SUBSET S : f[T] = IF T = {} THEN 0 ELSE op[<<pick[T], f[T \ {pick[T]}]>>]
  BY <1>4 DEF FoldsTo
<1>6. ASSUME NEW T \in SUBSET S
      PROVE  f[T] = IF T = {} THEN 0 ELSE fun[CHOOSE x \in T : TRUE] + f[T \ {CHOOSE x \in T : TRUE}]
  <2>1. CASE T # {}
    <3>1. pick[T] \in S /\ T \ {pick[T]} \in SUBSET S
      BY <1>2, <2>1
    <3>2. f[T \ {pick[T]}] \in Int
      BY <1>5, <3>1
    <3>3. f[T] = op[<<pick[T], f[T \ {pick[T]}]>>]
      BY <1>5, <2>1
    <3>4. f[T] = fun[pick[T]] + f[T \ {pick[T]}]
      BY <1>1, <3>1, <3>2, <3>3
    <3>5. QED
      BY <1>2, <2>1, <3>4
  <2>2. QED
    BY <1>5, <2>1
<1>7. IsIter(f)
  BY <1>5, <1>6
<1>8. IsIter(iter)
  <2> HIDE DEF IsIter
  <2>1. QED
    BY <1>7
<1>9. SumFunctionOnSet(fun, S) = iter[S]
  BY DEF SumFunctionOnSet, FoldFunctionOnSet, MapThenFoldSet
<1> HIDE DEF iter
<1>10. \A T \in SUBSET S : iter[T] = IF T = {} THEN 0 ELSE fun[CHOOSE x \in T : TRUE] + iter[T \ {CHOOSE x \in T : TRUE}]
  BY <1>8
<1> DEFINE P == {T \in SUBSET S : iter[T] = f[T]}
<1>11. SUBSET S \subseteq P
  <2>1. ASSUME NEW T \in SUBSET S, \A x \in T : T \ {x} \in P PROVE T \in P
    <3>1. T # {} => iter[T \ {CHOOSE x \in T : TRUE}] = f[T \ {CHOOSE x \in T : TRUE}]
      BY <2>1
    <3>2. QED
      BY <1>6, <1>10, <3>1
  <2> HIDE DEF P
  <2>2. IsSubsetInductive(S, P)
    BY <2>1 DEF IsSubsetInductive
  <2>3. QED
    BY <2>2, SubsetInduction
<1>12. IsSumOver(fun, S, f)
  BY <1>5, <1>6 DEF IsSumOver
<1>13. iter[S] = f[S]
  BY <1>11
<1>14. QED
  BY <1>9, <1>12, <1>13

\* The element that is added first does not matter.
LEMMA SumStep ==
  ASSUME NEW S, IsFiniteSet(S), NEW fun, \A x \in S : fun[x] \in Int, NEW e \in S
  PROVE  SumFunctionOnSet(fun, S) = fun[e] + SumFunctionOnSet(fun, S \ {e})
<1>1. PICK f : IsSumOver(fun, S, f) /\ SumFunctionOnSet(fun, S) = f[S]
  BY SumRecursion
<1> DEFINE R == S \ {e}
<1>2. IsFiniteSet(R) /\ R \in SUBSET S /\ \A x \in R : fun[x] \in Int
  BY FS_Subset
<1>3. PICK g : IsSumOver(fun, R, g) /\ SumFunctionOnSet(fun, R) = g[R]
  <2> HIDE DEF R
  <2>1. QED
    BY <1>2, SumRecursion
<1> DEFINE First(T) == CHOOSE x \in T : TRUE
<1>4. /\ f \in [SUBSET S -> Int]
      /\ \A T \in SUBSET S : f[T] = IF T = {} THEN 0 ELSE fun[First(T)] + f[T \ {First(T)}]
  BY <1>1 DEF IsSumOver
<1>5. \A T \in SUBSET R : g[T] = IF T = {} THEN 0 ELSE fun[First(T)] + g[T \ {First(T)}]
  BY <1>3 DEF IsSumOver
<1>6. \A T : T # {} => First(T) \in T
  OBVIOUS
<1> HIDE DEF First
<1> DEFINE P == {T \in SUBSET R : f[T] = g[T]}
<1>7. SUBSET R \subseteq P
  <2>1. ASSUME NEW T \in SUBSET R, \A x \in T : T \ {x} \in P PROVE T \in P
    <3>1. T # {} => f[T \ {First(T)}] = g[T \ {First(T)}]
      BY <1>6, <2>1
    <3>2. T \in SUBSET S
      OBVIOUS
    <3>3. QED
      BY <1>4, <1>5, <3>1, <3>2
  <2> HIDE DEF P, R
  <2>2. IsSubsetInductive(R, P)
    BY <1>2, <2>1 DEF IsSubsetInductive
  <2>3. QED
    BY <2>2, SubsetInduction
<1> DEFINE Q == {T \in SUBSET S : \A x \in T : f[T] = fun[x] + f[T \ {x}]}
<1>8. SUBSET S \subseteq Q
  <2>1. ASSUME NEW T \in SUBSET S, \A x \in T : T \ {x} \in Q PROVE T \in Q
    <3>1. ASSUME NEW x \in T PROVE f[T] = fun[x] + f[T \ {x}]
      <4> DEFINE p == First(T)
      <4>1. p \in T /\ f[T] = fun[p] + f[T \ {p}]
        BY <1>4, <1>6
      <4>2. CASE x = p
        BY <4>1, <4>2
      <4>3. CASE x # p
        <5>1. T \ {p} \in Q /\ x \in T \ {p} /\ T \ {x} \in Q /\ p \in T \ {x}
          BY <2>1, <4>1, <4>3
        <5> HIDE DEF p
        <5>2. f[T \ {p}] = fun[x] + f[(T \ {p}) \ {x}]
          BY <5>1
        <5>3. f[T \ {x}] = fun[p] + f[(T \ {x}) \ {p}]
          BY <5>1
        <5>4. (T \ {x}) \ {p} = (T \ {p}) \ {x} /\ (T \ {p}) \ {x} \in SUBSET S
          OBVIOUS
        <5>5. fun[x] \in Int /\ fun[p] \in Int /\ f[(T \ {p}) \ {x}] \in Int
          BY <1>4, <4>1, <5>4
        <5> DEFINE w == f[(T \ {p}) \ {x}]
        <5>6. f[T] = fun[p] + (fun[x] + w) /\ f[T \ {x}] = fun[p] + w /\ w \in Int
          BY <4>1, <5>2, <5>3, <5>4, <5>5
        <5> HIDE DEF w
        <5>7. fun[p] + (fun[x] + w) = fun[x] + (fun[p] + w)
          BY <5>5, <5>6
        <5>8. QED
          BY <5>6, <5>7
      <4>4. QED
        BY <4>2, <4>3
    <3>2. QED
      BY <3>1
  <2> HIDE DEF Q
  <2>2. IsSubsetInductive(S, Q)
    BY <2>1 DEF IsSubsetInductive
  <2>3. QED
    BY <2>2, SubsetInduction
<1>9. S \in Q
  BY <1>8
<1>10. f[S] = fun[e] + f[R]
  BY <1>9
<1>11. R \in P
  BY <1>7
<1>12. QED
  BY <1>1, <1>3, <1>10, <1>11

\* A sum over nothing is zero,
LEMMA SumEmpty ==
  ASSUME NEW fun
  PROVE  SumFunctionOnSet(fun, {}) = 0
<1>1. IsFiniteSet({}) /\ \A x \in {} : fun[x] \in Int
  BY FS_EmptySet
<1>2. PICK f : IsSumOver(fun, {}, f) /\ SumFunctionOnSet(fun, {}) = f[{}]
  BY <1>1, SumRecursion
<1>3. {} \in SUBSET {}
  OBVIOUS
<1>4. QED
  BY <1>2, <1>3 DEF IsSumOver

\* and a sum is that of the elements that count, each by itself or not.
LEMMA SumSame ==
  ASSUME NEW S, IsFiniteSet(S), NEW fun, NEW gun, NEW T \in SUBSET S,
         \A x \in S : gun[x] \in Int,
         \A x \in S : gun[x] = IF x \in T THEN fun[x] ELSE 0
  PROVE  SumFunctionOnSet(gun, S) = SumFunctionOnSet(fun, T)
<1> DEFINE P == {U \in SUBSET S : SumFunctionOnSet(gun, U) = SumFunctionOnSet(fun, U \cap T)}
<1>1. SUBSET S \subseteq P
  <2>1. ASSUME NEW U \in SUBSET S, \A x \in U : U \ {x} \in P PROVE U \in P
    <3>1. CASE U = {}
      <4>1. U \cap T = {}
        BY <3>1
      <4>2. QED
        BY <3>1, <4>1, SumEmpty
    <3>2. CASE U # {}
      <4>1. PICK x \in U : TRUE
        BY <3>2
      <4> DEFINE V == U \cap T
      <4>2. IsFiniteSet(U) /\ IsFiniteSet(V)
        BY FS_Subset
      <4>3. SumFunctionOnSet(gun, U) = gun[x] + SumFunctionOnSet(gun, U \ {x})
        BY <4>2, SumStep
      <4>4. U \ {x} \in P
        BY <2>1
      <4>5. SumFunctionOnSet(gun, U \ {x}) = SumFunctionOnSet(fun, (U \ {x}) \cap T)
        BY <4>4
      <4>6. CASE x \in T
        <5>1. \A y \in V : fun[y] \in Int
          OBVIOUS
        <5>2. x \in V /\ (U \ {x}) \cap T = V \ {x} /\ gun[x] = fun[x]
          BY <4>6
        <5> HIDE DEF V
        <5>3. SumFunctionOnSet(fun, V) = fun[x] + SumFunctionOnSet(fun, V \ {x})
          BY <4>2, <5>1, <5>2, SumStep
        <5>4. QED
          BY <4>3, <4>5, <5>2, <5>3 DEF V
      <4>7. CASE x \notin T
        <5>1. (U \ {x}) \cap T = V /\ gun[x] = 0
          BY <4>7
        <5>2. SumFunctionOnSet(gun, U \ {x}) \in Int
          <6>1. IsFiniteSet(U \ {x})
            BY <4>2, FS_Subset
          <6>2. QED
            BY <6>1, SumType
        <5>3. SumFunctionOnSet(gun, U) = SumFunctionOnSet(gun, U \ {x})
          BY <4>3, <5>1, <5>2
        <5>4. QED
          BY <4>5, <5>1, <5>3
      <4>8. QED
        BY <4>6, <4>7
    <3>3. QED
      BY <3>1, <3>2
  <2> HIDE DEF P
  <2>2. IsSubsetInductive(S, P)
    BY <2>1 DEF IsSubsetInductive
  <2>3. QED
    BY <2>2, SubsetInduction
<1>2. S \in P /\ S \cap T = T
  BY <1>1
<1>3. QED
  BY <1>2

\* The last term of a sum over an interval.
LEMMA SumLast ==
  ASSUME NEW a \in Int, NEW b \in Int, a <= b, NEW fun, \A i \in a..b : fun[i] \in Int
  PROVE  SumFunctionOnSet(fun, a..b) = SumFunctionOnSet(fun, a..(b - 1)) + fun[b]
<1> DEFINE S == a..b
<1>1. IsFiniteSet(S) /\ b \in S /\ S \ {b} = a..(b - 1)
  BY FS_Interval
<1>2. \A x \in S : fun[x] \in Int
  OBVIOUS
<1>3. IsFiniteSet(S \ {b}) /\ \A x \in S \ {b} : fun[x] \in Int
  BY <1>1, FS_Subset
<1>4. SumFunctionOnSet(fun, S \ {b}) \in Int /\ fun[b] \in Int
  <2> DEFINE R == S \ {b}
  <2> HIDE DEF S
  <2>1. IsFiniteSet(R) /\ \A x \in R : fun[x] \in Int
    BY <1>3
  <2> HIDE DEF R
  <2>2. SumFunctionOnSet(fun, R) \in Int
    BY <2>1, SumType
  <2>3. QED
    BY <1>1, <1>2, <2>2 DEF R
<1> HIDE DEF S
<1>5. SumFunctionOnSet(fun, S) = fun[b] + SumFunctionOnSet(fun, S \ {b})
  BY <1>1, <1>2, SumStep
<1> DEFINE rest == SumFunctionOnSet(fun, S \ {b})
<1>6. rest \in Int /\ fun[b] \in Int
  BY <1>4
<1> HIDE DEF rest
<1>7. fun[b] + rest = rest + fun[b]
  BY <1>6
<1>8. QED
  BY <1>1, <1>5, <1>7 DEF S, rest

\* Two sums over intervals of the same terms, one moved by d.
IsMoved(a, b, d, fun, gun) ==
  /\ a \in Int /\ b \in Int /\ d \in Int
  /\ \A i \in a..b : fun[i] \in Int /\ gun[i + d] = fun[i]
\* They are equal.
LEMMA SumMoved ==
  ASSUME NEW a, NEW b, NEW d, NEW fun, NEW gun, IsMoved(a, b, d, fun, gun)
  PROVE  SumFunctionOnSet(gun, (a + d)..(b + d)) = SumFunctionOnSet(fun, a..b)
<1>0. /\ a \in Int /\ b \in Int /\ d \in Int
      /\ \A i \in a..b : fun[i] \in Int /\ gun[i + d] = fun[i]
  BY DEF IsMoved
<1> USE <1>0
<1> DEFINE P == {k \in (a - 1)..b :
                   SumFunctionOnSet(gun, (a + d)..(k + d)) = SumFunctionOnSet(fun, a..k)}
<1>1. IsRangeInductive(a - 1, b, P)
  <2>1. ASSUME NEW k \in (a - 1)..b, k = a - 1 \/ k - 1 \in P PROVE k \in P
    <3>1. CASE k = a - 1
      <4>1. (a + d)..(k + d) = {} /\ a..k = {}
        BY <3>1
      <4>2. QED
        BY <4>1, SumEmpty
    <3>2. CASE k # a - 1
      <4>1. k \in Int /\ a <= k /\ k <= b
        BY <3>2
      <4>2. \A i \in a..k : fun[i] \in Int
        BY <4>1
      <4>3. \A i \in (a + d)..(k + d) : gun[i] \in Int
        <5>1. ASSUME NEW i \in (a + d)..(k + d) PROVE gun[i] \in Int
          <6>1. i - d \in a..b /\ (i - d) + d = i
            BY <4>1
          <6>2. QED
            BY <6>1
        <5>2. QED
          BY <5>1
      <4>4. SumFunctionOnSet(fun, a..k) = SumFunctionOnSet(fun, a..(k - 1)) + fun[k]
        BY <4>1, <4>2, SumLast
      <4> DEFINE x == a + d
                 y == k + d
      <4>5. x \in Int /\ y \in Int /\ x <= y /\ y - 1 = (k - 1) + d /\ gun[y] = fun[k]
        BY <4>1
      <4>6. \A i \in x..y : gun[i] \in Int
        BY <4>3
      <4> HIDE DEF x, y
      <4>7. SumFunctionOnSet(gun, x..y) = SumFunctionOnSet(gun, x..(y - 1)) + gun[y]
        BY <4>5, <4>6, SumLast
      <4>8. SumFunctionOnSet(gun, x..(y - 1)) = SumFunctionOnSet(fun, a..(k - 1))
        BY <2>1, <3>2, <4>5 DEF x
      <4>9. QED
        BY <4>4, <4>5, <4>7, <4>8 DEF x, y
    <3>3. QED
      BY <3>1, <3>2
  <2> HIDE DEF P
  <2>2. QED
    BY <2>1 DEF IsRangeInductive
<1>2. (a - 1)..b \subseteq P
  BY <1>1, RangeInduction
<1>3. CASE a - 1 <= b
  <2>1. b \in P
    BY <1>2, <1>3
  <2>2. QED
    BY <2>1
<1>4. CASE ~(a - 1 <= b)
  <2>1. (a + d)..(b + d) = {} /\ a..b = {}
    BY <1>4
  <2>2. QED
    BY <2>1, SumEmpty
<1>5. QED
  BY <1>3, <1>4

\* A sum over an interval in two parts.
LEMMA SumSplit ==
  ASSUME NEW a \in Int, NEW b \in Int, NEW m \in Int, a <= m + 1, m <= b, NEW fun,
         \A i \in a..b : fun[i] \in Int
  PROVE  SumFunctionOnSet(fun, a..b) = SumFunctionOnSet(fun, a..m) + SumFunctionOnSet(fun, (m + 1)..b)
<1> DEFINE P == {k \in m..b :
                   SumFunctionOnSet(fun, a..k) = SumFunctionOnSet(fun, a..m) + SumFunctionOnSet(fun, (m + 1)..k)}
<1>1. \A k \in m..b : \A c \in {a, m + 1} : SumFunctionOnSet(fun, c..k) \in Int
  <2>1. ASSUME NEW k \in m..b, NEW c \in {a, m + 1} PROVE SumFunctionOnSet(fun, c..k) \in Int
    <3> DEFINE T == c..k
    <3>1. IsFiniteSet(T) /\ \A i \in T : fun[i] \in Int
      BY FS_Interval
    <3> HIDE DEF T
    <3>2. SumFunctionOnSet(fun, T) \in Int
      BY <3>1, SumType
    <3>3. QED
      BY <3>2 DEF T
  <2>2. QED
    BY <2>1
<1>2. IsRangeInductive(m, b, P)
  <2>1. ASSUME NEW k \in m..b, k = m \/ k - 1 \in P PROVE k \in P
    <3>1. CASE k = m
      <4>1. (m + 1)..k = {}
        BY <3>1
      <4>2. SumFunctionOnSet(fun, a..m) \in Int /\ SumFunctionOnSet(fun, (m + 1)..k) = 0
        BY <1>1, <3>1, <4>1, SumEmpty
      <4>3. QED
        BY <3>1, <4>2
    <3>2. CASE k # m
      <4>1. k \in Int /\ a <= k /\ m + 1 <= k /\ k <= b /\ k - 1 \in m..b /\ m \in m..b
        BY <3>2
      <4>2. \A i \in a..k : fun[i] \in Int
        BY <4>1
      <4>3. SumFunctionOnSet(fun, a..k) = SumFunctionOnSet(fun, a..(k - 1)) + fun[k]
        BY <4>1, <4>2, SumLast
      <4>4. SumFunctionOnSet(fun, (m + 1)..k) = SumFunctionOnSet(fun, (m + 1)..(k - 1)) + fun[k]
        <5> DEFINE c == m + 1
        <5>1. c \in Int /\ c <= k /\ \A i \in c..k : fun[i] \in Int
          BY <4>1, <4>2
        <5> HIDE DEF c
        <5>2. SumFunctionOnSet(fun, c..k) = SumFunctionOnSet(fun, c..(k - 1)) + fun[k]
          BY <4>1, <5>1, SumLast
        <5>3. QED
          BY <5>2 DEF c
      <4>5. SumFunctionOnSet(fun, a..(k - 1)) = SumFunctionOnSet(fun, a..m) + SumFunctionOnSet(fun, (m + 1)..(k - 1))
        BY <2>1, <3>2
      <4>6. /\ SumFunctionOnSet(fun, a..m) \in Int /\ SumFunctionOnSet(fun, (m + 1)..(k - 1)) \in Int
            /\ fun[k] \in Int
        BY <1>1, <4>1, <4>2
      <4>7. QED
        BY <4>3, <4>4, <4>5, <4>6
    <3>3. QED
      BY <3>1, <3>2
  <2> HIDE DEF P
  <2>2. QED
    BY <2>1 DEF IsRangeInductive
<1>3. m..b \subseteq P
  BY <1>2, RangeInduction
<1>4. b \in P
  BY <1>3
<1>5. QED
  BY <1>4

\* Flattening goes through the sequences one by one.
LEMMA FlattenUnfold ==
  ASSUME NEW S, NEW seqs \in Seq(Seq(S))
  PROVE  \E f : /\ f \in [1..Len(seqs) -> Seq(S)]
                /\ \A k \in 1..Len(seqs) : f[k] = IF k = 1 THEN seqs[k] ELSE f[k - 1] \o seqs[k]
                /\ seqs # <<>> => FlattenSeq(seqs) = f[Len(seqs)]
<1> DEFINE n == Len(seqs)
           IsFlat(h) == h = [i \in 1..n |-> IF i = 1 THEN seqs[i] ELSE h[i - 1] \o seqs[i]]
           flatten == CHOOSE h : IsFlat(h)
           V == Seq(S)
           step == [p \in (1..n) \X V |-> IF p[1] = 1 THEN seqs[p[1]] ELSE p[2] \o seqs[p[1]]]
<1>1. n \in Nat /\ \A i \in 1..n : seqs[i] \in V
  OBVIOUS
<1>2. \A x \in V, y \in V : x \o y \in V
  OBVIOUS
<1>e. <<>> \in V /\ (seqs # <<>> => n # 0)
  OBVIOUS
<1> HIDE DEF V, n
<1>3. step \in [(1..n) \X V -> V]
  BY <1>1, <1>2
<1>4. \A k \in 1..n, x \in V : step[<<k, x>>] = IF k = 1 THEN seqs[k] ELSE x \o seqs[k]
  OBVIOUS
<1> HIDE DEF step
<1>5. IsChain(1, n, V, <<>>, step)
  BY <1>1, <1>e, <1>3 DEF IsChain
<1>6. PICK f : IsChained(1, n, V, <<>>, step, f)
  BY <1>5, ChainExists
<1>7. f \in [1..n -> V] /\ \A k \in 1..n : f[k] = step[<<k, IF k = 1 THEN <<>> ELSE f[k - 1]>>]
  BY <1>6 DEF IsChained
<1>8. IsFlat(f)
  <2>1. ASSUME NEW k \in 1..n PROVE f[k] = IF k = 1 THEN seqs[k] ELSE f[k - 1] \o seqs[k]
    <3>1. k # 1 => k - 1 \in 1..n
      BY <1>1
    <3>2. (IF k = 1 THEN <<>> ELSE f[k - 1]) \in V
      BY <1>7, <1>e, <3>1
    <3>3. QED
      BY <1>4, <1>7, <3>2
  <2>2. QED
    BY <1>7, <2>1
<1>9. IsFlat(flatten)
  <2> HIDE DEF IsFlat
  <2>1. QED
    BY <1>8
<1>10. n # 0 => FlattenSeq(seqs) = flatten[n]
  BY DEF FlattenSeq, n
<1> HIDE DEF flatten
<1>11. \A k \in 1..n : flatten[k] = IF k = 1 THEN seqs[k] ELSE flatten[k - 1] \o seqs[k]
  BY <1>9
<1> DEFINE P == {k \in 1..n : flatten[k] \in V}
<1>12. IsRangeInductive(1, n, P)
  <2>1. \A k \in 1..n : k = 1 \/ k - 1 \in P => k \in P
    BY <1>1, <1>2, <1>11
  <2> HIDE DEF P
  <2>2. QED
    BY <1>1, <2>1 DEF IsRangeInductive
<1>13. 1..n \subseteq P
  BY <1>12, RangeInduction
<1>14. flatten \in [1..n -> V]
  BY <1>9, <1>13
<1>15. QED
  BY <1>e, <1>10, <1>11, <1>14 DEF n, V

\* Flattening one sequence more appends it.
LEMMA FlattenAppend ==
  ASSUME NEW S, NEW seqs \in Seq(Seq(S)), NEW x \in Seq(S)
  PROVE  FlattenSeq(Append(seqs, x)) = FlattenSeq(seqs) \o x
<1> DEFINE n == Len(seqs)
           more == Append(seqs, x)
<1>1. /\ n \in Nat /\ more \in Seq(Seq(S)) /\ Len(more) = n + 1 /\ more # <<>> /\ more[n + 1] = x
      /\ \A k \in 1..n : more[k] = seqs[k] /\ k \in 1..(n + 1)
      /\ (seqs = <<>> <=> n = 0)
  <2>1. n \in Nat /\ more \in Seq(Seq(S)) /\ Len(more) = n + 1 /\ more[n + 1] = x
    OBVIOUS
  <2>2. \A k \in 1..n : more[k] = seqs[k] /\ k \in 1..(n + 1)
    OBVIOUS
  <2>3. seqs = <<>> <=> n = 0
    OBVIOUS
  <2> HIDE DEF more, n
  <2>4. more # <<>>
    <3>1. Len(<<>>) = 0 /\ n + 1 # 0
      BY <2>1
    <3>2. QED
      BY <2>1, <3>1
  <2>5. QED
    BY <2>1, <2>2, <2>3, <2>4
<1> HIDE DEF more
<1>2. PICK f : /\ f \in [1..n -> Seq(S)]
               /\ \A k \in 1..n : f[k] = IF k = 1 THEN seqs[k] ELSE f[k - 1] \o seqs[k]
               /\ seqs # <<>> => FlattenSeq(seqs) = f[n]
  BY FlattenUnfold
<1>3. PICK g : /\ g \in [1..Len(more) -> Seq(S)]
               /\ \A k \in 1..Len(more) : g[k] = IF k = 1 THEN more[k] ELSE g[k - 1] \o more[k]
               /\ more # <<>> => FlattenSeq(more) = g[Len(more)]
  BY <1>1, FlattenUnfold
<1>a. \A k \in 1..(n + 1) : g[k] = IF k = 1 THEN more[k] ELSE g[k - 1] \o more[k]
  BY <1>1, <1>3
<1> DEFINE P == {k \in 1..n : f[k] = g[k]}
<1> HIDE DEF n
<1>4. IsRangeInductive(1, n, P)
  <2>1. ASSUME NEW k \in 1..n, k = 1 \/ k - 1 \in P PROVE f[k] = g[k]
    <3>1. k \in 1..(n + 1) /\ more[k] = seqs[k]
      BY <1>1
    <3>2. f[k] = IF k = 1 THEN seqs[k] ELSE f[k - 1] \o seqs[k]
      BY <1>2
    <3>3. g[k] = IF k = 1 THEN seqs[k] ELSE g[k - 1] \o seqs[k]
      BY <1>a, <3>1
    <3>4. k # 1 => f[k - 1] = g[k - 1]
      BY <2>1
    <3>5. QED
      BY <3>2, <3>3, <3>4
  <2>2. \A k \in 1..n : k = 1 \/ k - 1 \in P => k \in P
    BY <2>1
  <2> HIDE DEF P
  <2>3. QED
    BY <1>1, <2>2 DEF IsRangeInductive
<1>5. 1..n \subseteq P
  BY <1>4, RangeInduction
<1>6. FlattenSeq(more) = g[n + 1] /\ n + 1 \in 1..(n + 1)
  BY <1>1, <1>3
<1>7. CASE n = 0
  <2>1. FlattenSeq(seqs) = <<>>
    BY <1>1, <1>7 DEF FlattenSeq
  <2>2. FlattenSeq(more) = x
    BY <1>1, <1>6, <1>7, <1>a
  <2>3. <<>> \o x = x
    OBVIOUS
  <2>4. QED
    BY <2>1, <2>2, <2>3 DEF more
<1>8. CASE n # 0
  <2>1. n \in 1..n /\ n + 1 # 1 /\ (n + 1) - 1 = n
    BY <1>1, <1>8
  <2>2. g[n + 1] = g[n] \o x
    BY <1>1, <1>6, <1>a, <2>1
  <2>3. FlattenSeq(seqs) = f[n] /\ f[n] = g[n]
    BY <1>1, <1>2, <1>5, <1>8, <2>1
  <2>4. QED
    BY <1>6, <2>2, <2>3 DEF more
<1>9. QED
  BY <1>7, <1>8

\* A sequence with one element more, and two sequences that have the same elements.
LEMMA AppendProps ==
  ASSUME NEW S, NEW seq \in Seq(S), NEW x \in S
  PROVE  /\ Append(seq, x) \in Seq(S) /\ Len(Append(seq, x)) = Len(seq) + 1 /\ Len(seq) \in Nat
         /\ Append(seq, x)[Len(seq) + 1] = x
         /\ \A i \in 1..Len(seq) : Append(seq, x)[i] = seq[i]
OBVIOUS

\* Sequences with the same elements are equal.
LEMMA SeqsEqual ==
  ASSUME NEW S, NEW a \in Seq(S), NEW b \in Seq(S), Len(a) = Len(b), \A i \in 1..Len(a) : a[i] = b[i]
  PROVE  a = b
OBVIOUS

\* The words of a path with one phrase more.
WordsOf(path) == BeginTag \o FlattenSeq([i \in 1..Len(path) |-> path[i].target.words])
\* They are those of the path, then the phrase's.
LEMMA WordsOfAppend ==
  ASSUME NEW path \in Seq(Phrases), NEW phrase \in Phrases
  PROVE  /\ WordsOf(path) \in Seq(Words)
         /\ WordsOf(Append(path, phrase)) = WordsOf(path) \o phrase.target.words
         /\ phrase.target.words \in Seq(Words)
<1> DEFINE n == Len(path)
           more == Append(path, phrase)
           seqs == [i \in 1..n |-> path[i].target.words]
           moreSeqs == [i \in 1..Len(more) |-> more[i].target.words]
           x == phrase.target.words
<1>1. \A p \in Phrases : p.target.words \in Seq(Words)
  BY DEF Phrases, Targets
<1>2. /\ n \in Nat /\ \A i \in 1..n : path[i] \in Phrases
      /\ Len(more) = n + 1 /\ more[n + 1] = phrase /\ \A i \in 1..n : more[i] = path[i]
  OBVIOUS
<1> HIDE DEF more, n
<1>3. seqs \in Seq(Seq(Words)) /\ Len(seqs) = n /\ \A i \in 1..n : seqs[i] = path[i].target.words
  <2>1. seqs \in [1..n -> Seq(Words)] /\ \A i \in 1..n : seqs[i] = path[i].target.words
    BY <1>1, <1>2
  <2> HIDE DEF seqs
  <2>2. QED
    BY <1>2, <2>1, SeqOfFunction
<1>4. x \in Seq(Words)
  BY <1>1
<1>5. moreSeqs = Append(seqs, x)
  <2>1. moreSeqs = [i \in 1..(n + 1) |-> IF i = n + 1 THEN x ELSE seqs[i]]
    <3>1. \A i \in 1..(n + 1) : i \in 1..n \/ i = n + 1
      BY <1>2
    <3>2. \A i \in 1..(n + 1) : more[i].target.words = IF i = n + 1 THEN x ELSE seqs[i]
      BY <1>2, <1>3, <3>1
    <3> HIDE DEF seqs, x
    <3>3. QED
      BY <1>2, <3>2
  <2> HIDE DEF seqs, x, moreSeqs
  <2>2. Append(seqs, x) = [i \in 1..(n + 1) |-> IF i = n + 1 THEN x ELSE seqs[i]]
    <3> DEFINE app == Append(seqs, x)
               fun == [i \in 1..(n + 1) |-> IF i = n + 1 THEN x ELSE seqs[i]]
    <3>1. /\ app \in Seq(Seq(Words)) /\ Len(app) = n + 1
          /\ \A i \in 1..(n + 1) : app[i] = IF i = n + 1 THEN x ELSE seqs[i]
      <4>1. /\ app \in Seq(Seq(Words)) /\ Len(app) = n + 1 /\ app[n + 1] = x
            /\ \A i \in 1..n : app[i] = seqs[i]
        BY <1>3, <1>4, AppendProps
      <4> HIDE DEF app
      <4>2. \A i \in 1..(n + 1) : i = n + 1 \/ i \in 1..n
        BY <1>2
      <4>3. \A i \in 1..n : i # n + 1
        BY <1>2
      <4>4. QED
        BY <4>1, <4>2, <4>3
    <3>2. /\ fun \in [1..(n + 1) -> Seq(Words)] /\ n + 1 \in Nat
          /\ \A i \in 1..(n + 1) : fun[i] = IF i = n + 1 THEN x ELSE seqs[i]
      <4>1. \A i \in 1..(n + 1) : (IF i = n + 1 THEN x ELSE seqs[i]) \in Seq(Words)
        BY <1>2, <1>3, <1>4
      <4>2. QED
        BY <1>2, <4>1
    <3> HIDE DEF app, fun
    <3> DEFINE m == n + 1
    <3> HIDE DEF m
    <3>3. fun \in Seq(Seq(Words)) /\ Len(fun) = m
      BY <3>2, SeqOfFunction DEF m
    <3>4. app = fun
      <4>1. app \in Seq(Seq(Words)) /\ Len(app) = m /\ \A i \in 1..m : app[i] = fun[i]
        BY <3>1, <3>2 DEF m
      <4>2. QED
        BY <3>3, <4>1, SeqsEqual
    <3>5. QED
      BY <3>4 DEF app, fun
  <2>3. QED
    BY <2>1, <2>2
<1>6. WordsOf(path) = BeginTag \o FlattenSeq(seqs) /\ WordsOf(more) = BeginTag \o FlattenSeq(moreSeqs)
  BY DEF WordsOf, n
<1> HIDE DEF seqs, moreSeqs, x
<1>7. FlattenSeq(moreSeqs) = FlattenSeq(seqs) \o x /\ FlattenSeq(seqs) \in Seq(Words)
  BY <1>3, <1>4, <1>5, FlattenAppend, FlattenProps
<1>8. BeginTag \in Seq(Words)
  BY PhrasesAssumption
<1>9. \A a, b, c \in Seq(Words) : a \o b \in Seq(Words) /\ a \o (b \o c) = (a \o b) \o c
  OBVIOUS
<1> DEFINE flat == FlattenSeq(seqs)
<1> HIDE DEF flat
<1>10. /\ BeginTag \o flat \in Seq(Words) /\ BeginTag \o (flat \o x) = (BeginTag \o flat) \o x
  BY <1>4, <1>7, <1>8, <1>9 DEF flat
<1>11. WordsOf(path) = BeginTag \o flat /\ WordsOf(more) = BeginTag \o (flat \o x)
  BY <1>6, <1>7 DEF flat
<1>12. QED
  BY <1>4, <1>10, <1>11 DEF x, more

\* The last n words, one by one.
LEMMA LastWordsProps ==
  ASSUME NEW words \in Seq(Words), NEW n \in Nat
  PROVE  /\ LastWords(words, n) \in Seq(Words)
         /\ Len(LastWords(words, n)) = MinOf(Len(words), n)
         /\ \A i \in 1..MinOf(Len(words), n) :
              LastWords(words, n)[i] = words[Len(words) - MinOf(Len(words), n) + i]
<1> DEFINE m == MinOf(Len(words), n)
           k == Len(words) - m
<1>1. Len(words) \in Nat /\ m \in Nat /\ m <= Len(words) /\ k \in 0..Len(words) /\ Len(words) - k = m
  BY DEF MinOf
<1> HIDE DEF m, k
<1>2. /\ SubSeq(words, k + 1, Len(words)) \in Seq(Words) /\ Len(SubSeq(words, k + 1, Len(words))) = m
      /\ \A i \in 1..m : SubSeq(words, k + 1, Len(words))[i] = words[k + i]
  BY <1>1, SuffixProps
<1>3. LastWords(words, n) = SubSeq(words, k + 1, Len(words))
  BY DEF LastWords, k, m
<1>4. QED
  BY <1>2, <1>3 DEF k, m

\* What is not among the last words does not matter to the last words of more.
LEMMA LastWordsOfMore ==
  ASSUME NEW words \in Seq(Words), NEW more \in Seq(Words), NEW n \in Nat
  PROVE  LastWords(LastWords(words, n) \o more, n) = LastWords(words \o more, n)
<1> DEFINE last == LastWords(words, n)
           a == LastWords(last \o more, n)
           b == LastWords(words \o more, n)
           k == MinOf(Len(words), n)
<1>1. /\ last \in Seq(Words) /\ Len(last) = k
      /\ \A i \in 1..k : last[i] = words[Len(words) - k + i]
  BY LastWordsProps
<1>2. Len(words) \in Nat /\ Len(more) \in Nat /\ k \in Nat /\ k <= Len(words)
  BY DEF MinOf
<1> HIDE DEF last
<1>3. /\ last \o more \in Seq(Words) /\ Len(last \o more) = k + Len(more)
      /\ words \o more \in Seq(Words) /\ Len(words \o more) = Len(words) + Len(more)
  <2>1. last \o more \in Seq(Words) /\ Len(last \o more) = Len(last) + Len(more)
    BY <1>1, ConcatProperties
  <2>2. words \o more \in Seq(Words) /\ Len(words \o more) = Len(words) + Len(more)
    BY ConcatProperties
  <2>3. QED
    BY <1>1, <2>1, <2>2
<1>4. MinOf(k + Len(more), n) = MinOf(Len(words) + Len(more), n)
  BY <1>2 DEF MinOf
<1> DEFINE m == MinOf(k + Len(more), n)
<1>5. /\ a \in Seq(Words) /\ Len(a) = m /\ \A i \in 1..m : a[i] = (last \o more)[k + Len(more) - m + i]
      /\ b \in Seq(Words) /\ Len(b) = m /\ \A i \in 1..m : b[i] = (words \o more)[Len(words) + Len(more) - m + i]
  <2>1. /\ a \in Seq(Words) /\ Len(a) = MinOf(Len(last \o more), n)
        /\ \A i \in 1..MinOf(Len(last \o more), n) :
             a[i] = (last \o more)[Len(last \o more) - MinOf(Len(last \o more), n) + i]
    BY <1>3, LastWordsProps
  <2>2. /\ b \in Seq(Words) /\ Len(b) = MinOf(Len(words \o more), n)
        /\ \A i \in 1..MinOf(Len(words \o more), n) :
             b[i] = (words \o more)[Len(words \o more) - MinOf(Len(words \o more), n) + i]
    BY <1>3, LastWordsProps
  <2>3. MinOf(Len(last \o more), n) = m /\ MinOf(Len(words \o more), n) = m
    BY <1>3, <1>4
  <2>4. Len(last \o more) = k + Len(more) /\ Len(words \o more) = Len(words) + Len(more)
    BY <1>3
  <2> DEFINE p == last \o more
             q == words \o more
  <2>5. Len(a) = m /\ \A i \in 1..m : a[i] = p[k + Len(more) - m + i]
    <3>1. Len(p) = k + Len(more) /\ MinOf(Len(p), n) = m
      BY <2>3, <2>4
    <3>2. Len(a) = MinOf(Len(p), n) /\ \A i \in 1..MinOf(Len(p), n) : a[i] = p[Len(p) - MinOf(Len(p), n) + i]
      BY <2>1
    <3>3. k \in Nat /\ Len(more) \in Nat /\ m \in Nat
      BY <1>2 DEF MinOf
    <3> HIDE DEF a, b, m, k, p
    <3>4. QED
      BY <3>1, <3>2, <3>3
  <2>6. Len(b) = m /\ \A i \in 1..m : b[i] = q[Len(words) + Len(more) - m + i]
    <3> DEFINE l == Len(words) + Len(more)
    <3>1. Len(q) = l /\ MinOf(Len(q), n) = m
      BY <2>3, <2>4
    <3>2. Len(b) = MinOf(Len(q), n) /\ \A i \in 1..MinOf(Len(q), n) : b[i] = q[Len(q) - MinOf(Len(q), n) + i]
      BY <2>2
    <3>3. l \in Nat /\ m \in Nat
      BY <1>2 DEF MinOf
    <3> HIDE DEF a, b, m, k, q, l
    <3>4. Len(b) = m /\ \A i \in 1..m : b[i] = q[l - m + i]
      BY <3>1, <3>2, <3>3
    <3>5. QED
      BY <3>4 DEF l
  <2> HIDE DEF a, b, m, k
  <2>7. QED
    BY <2>1, <2>2, <2>5, <2>6
<1> HIDE DEF a, b
<1>6. m \in Nat /\ m <= k + Len(more)
  BY <1>2 DEF MinOf
<1> HIDE DEF m, k
<1>7. ASSUME NEW i \in 1..m PROVE a[i] = b[i]
  <2> DEFINE x == k + Len(more) - m + i
             y == Len(words) + Len(more) - m + i
  <2>1. x \in 1..(k + Len(more)) /\ y \in 1..(Len(words) + Len(more)) /\ y = x + (Len(words) - k)
    BY <1>2, <1>6
  <2>2. a[i] = (last \o more)[x] /\ b[i] = (words \o more)[y]
    BY <1>5
  <2> HIDE DEF x, y
  <2>3. CASE x <= k
    <3>1. (last \o more)[x] = last[x] /\ x \in 1..k
      BY <1>1, <1>2, <2>1, <2>3
    <3>2. (words \o more)[y] = words[y] /\ y = Len(words) - k + x
      BY <1>2, <2>1, <2>3
    <3>3. QED
      BY <1>1, <2>2, <3>1, <3>2
  <2>4. CASE x > k
    <3>1. x \in (k + 1)..(k + Len(more)) /\ Len(last) = k /\ last \in Seq(Words)
      BY <1>1, <1>2, <2>1, <2>4
    <3>2. (last \o more)[x] = more[x - k]
      BY ONLY <1>2, <3>1, more \in Seq(Words)
    <3>3. (words \o more)[y] = more[y - Len(words)] /\ y - Len(words) = x - k
      BY <1>2, <2>1, <2>4
    <3>4. QED
      BY <2>2, <3>2, <3>3
  <2>5. QED
    BY <1>2, <2>1, <2>3, <2>4
<1>8. a = b
  BY <1>5, <1>7
<1>9. QED
  BY <1>8 DEF a, b, last

\* The last words of the last words.
LEMMA LastWordsOfLast ==
  ASSUME NEW words \in Seq(Words), NEW n \in Nat, NEW k \in Nat, k <= n
  PROVE  LastWords(LastWords(words, n), k) = LastWords(words, k)
<1> DEFINE last == LastWords(words, n)
           m == MinOf(Len(words), n)
           l == MinOf(Len(words), k)
           a == LastWords(last, k)
           b == LastWords(words, k)
<1>1. /\ last \in Seq(Words) /\ Len(last) = m
      /\ \A i \in 1..m : last[i] = words[Len(words) - m + i]
  BY LastWordsProps
<1>2. Len(words) \in Nat /\ m \in Nat /\ m <= Len(words) /\ l \in Nat /\ l <= m /\ MinOf(m, k) = l
  BY DEF MinOf
<1>3. b \in Seq(Words) /\ Len(b) = l /\ \A i \in 1..l : b[i] = words[Len(words) - l + i]
  BY LastWordsProps
<1> HIDE DEF last, b, m, l
<1>4. a \in Seq(Words) /\ Len(a) = l /\ \A i \in 1..l : a[i] = last[m - l + i]
  <2>1. last \in Seq(Words) /\ Len(last) = m /\ MinOf(m, k) = l
    BY <1>1, <1>2
  <2>2. /\ a \in Seq(Words) /\ Len(a) = MinOf(Len(last), k)
        /\ \A i \in 1..MinOf(Len(last), k) : a[i] = last[Len(last) - MinOf(Len(last), k) + i]
    BY <2>1, LastWordsProps
  <2> HIDE DEF a
  <2>3. QED
    BY ONLY <2>1, <2>2
<1> HIDE DEF a
<1>5. ASSUME NEW i \in 1..l PROVE a[i] = b[i]
  <2>1. m - l + i \in 1..m /\ Len(words) - m + (m - l + i) = Len(words) - l + i
    BY <1>2
  <2>2. QED
    BY <1>1, <1>3, <1>4, <2>1
<1>6. a = b
  BY <1>3, <1>4, <1>5
<1>7. QED
  BY <1>6 DEF a, b, last

\* The queue of the last target words remembers what the language model has to see.
LEMMA PushBackLast ==
  ASSUME NEW frame \in Seq(Words), NEW before \in Seq(Words), NEW words \in Seq(Words),
         LastWords(frame, LmMax - 1) = LastWords(before, LmMax - 1)
  PROVE  LastWords(PushBack(frame, words), LmMax - 1) = LastWords(before \o words, LmMax - 1)
<1> DEFINE n == LmMax - 1
           k == FrameCapacity
<1>1. n \in Nat /\ k \in Nat /\ n <= k
  BY LmMaxAssumption, BoundsType DEF FrameCapacity
<1>2. frame \o words \in Seq(Words)
  OBVIOUS
<1> HIDE DEF n, k
<1>3. PushBack(frame, words) = LastWords(frame \o words, k)
  BY DEF PushBack, k
<1>4. LastWords(PushBack(frame, words), n) = LastWords(frame \o words, n)
  <2> DEFINE all == frame \o words
  <2>1. all \in Seq(Words) /\ PushBack(frame, words) = LastWords(all, k)
    BY <1>2, <1>3
  <2> HIDE DEF all
  <2>2. LastWords(LastWords(all, k), n) = LastWords(all, n)
    BY <1>1, <2>1, LastWordsOfLast
  <2>3. QED
    BY <2>1, <2>2 DEF all
<1>5. LastWords(frame \o words, n) = LastWords(LastWords(frame, n) \o words, n)
  BY <1>1, LastWordsOfMore
<1>6. LastWords(before \o words, n) = LastWords(LastWords(before, n) \o words, n)
  BY <1>1, LastWordsOfMore
<1>7. QED
  BY <1>4, <1>5, <1>6 DEF n

-----------------------------------------------------------------------------
(* The language model scores a sentence as a whole                           *)

\* The m-grams of a word sequence.
LEMMA SubGram ==
  ASSUME NEW w \in Seq(Words), NEW e \in 1..Len(w), NEW q \in 1..e
  PROVE  /\ SubSeq(w, q, e) \in Seq(Words) /\ Len(SubSeq(w, q, e)) = e - q + 1
         /\ \A j \in 1..(e - q + 1) : SubSeq(w, q, e)[j] = w[q + j - 1]
         /\ SubSeq(w, q, e)[1] = w[q] /\ Last(SubSeq(w, q, e)) = w[e]
         /\ q < e => Front(SubSeq(w, q, e)) = SubSeq(w, q, e - 1)
<1> DEFINE g == SubSeq(w, q, e)
<1>1. /\ g \in Seq(Words) /\ Len(g) = e - q + 1
      /\ \A j \in 1..(e - q + 1) : g[j] = w[q + j - 1]
  OBVIOUS
<1>2. e \in Nat /\ q \in Nat /\ q >= 1 /\ q <= e /\ e <= Len(w) /\ Len(w) \in Nat
  OBVIOUS
<1> HIDE DEF g
<1>3. g[1] = w[q] /\ Last(g) = w[e]
  <2>1. 1 \in 1..(e - q + 1) /\ q + 1 - 1 = q
    BY <1>2
  <2>2. e - q + 1 \in 1..(e - q + 1) /\ q + (e - q + 1) - 1 = e
    BY <1>2
  <2>3. g[e - q + 1] = w[e]
    <3> DEFINE j == e - q + 1
    <3>1. j \in 1..(e - q + 1) /\ q + j - 1 = e
      BY <2>2
    <3>2. g[j] = w[q + j - 1]
      BY <1>1, <3>1
    <3>3. QED
      BY <3>1, <3>2
  <2>4. QED
    BY <1>1, <2>1, <2>3 DEF Last
<1>4. ASSUME q < e PROVE Front(g) = SubSeq(w, q, e - 1)
  <2> DEFINE a == SubSeq(g, 1, e - q)
             b == SubSeq(w, q, e - 1)
  <2>1. Front(g) = a
    <3>1. Len(g) - 1 = e - q
      BY <1>1, <1>2
    <3>2. QED
      BY <3>1 DEF Front
  <2>2. a \in Seq(Words) /\ Len(a) = e - q /\ \A j \in 1..(e - q) : a[j] = g[j]
    <3>1. e - q \in 0..Len(g)
      BY <1>1, <1>2, <1>4
    <3>2. QED
      BY <1>1, <3>1, PrefixProps
  <2>3. b \in Seq(Words) /\ Len(b) = e - q /\ \A j \in 1..(e - q) : b[j] = w[q + j - 1]
    BY <1>2, <1>4
  <2> HIDE DEF a, b
  <2>4. \A j \in 1..(e - q) : a[j] = b[j]
    <3>1. \A j \in 1..(e - q) : j \in 1..(e - q + 1)
      BY <1>2
    <3>2. QED
      BY <1>1, <2>2, <2>3, <3>1
  <2>5. a = b
    BY <2>2, <2>3, <2>4, SeqsEqual
  <2>6. QED
    BY <2>1, <2>5 DEF b
<1>5. QED
  BY <1>1, <1>3, <1>4 DEF g

\* The cache never hides an m-gram that is there, and what is absent has no
\* longer ones and no back-off weight.
LEMMA FoundIsPresent ==
  ASSUME NEW lm, LmClosed(lm), NEW w \in Seq(Words), NEW e \in 1..Len(w), NEW q \in 1..e, q < e
  PROVE  /\ Found(lm, w, q, e) <=> SubSeq(w, q, e) \in DOMAIN lm.prob
         /\ SubSeq(w, q, e - 1) \notin DOMAIN lm.prob =>
              SubSeq(w, q, e) \notin DOMAIN lm.prob /\ SubSeq(w, q, e - 1) \notin DOMAIN lm.back
<1> DEFINE g == SubSeq(w, q, e)
<1>1. /\ Len(g) = e - q + 1 /\ g[1] = w[q] /\ Last(g) = w[e] /\ Front(g) = SubSeq(w, q, e - 1)
  BY SubGram
<1>2. e - q + 1 > 1
  OBVIOUS
<1> HIDE DEF g
<1>3. g \in DOMAIN lm.prob =>
        /\ SubSeq(w, q, e - 1) \in DOMAIN lm.prob
        /\ lm.cached => w[q] # UnkWord /\ w[e] # UnkWord
  BY <1>1, <1>2 DEF LmClosed
<1>4. DOMAIN lm.back \subseteq DOMAIN lm.prob
  BY DEF LmClosed
<1>5. Found(lm, w, q, e) <=> g \in DOMAIN lm.prob
  BY <1>3 DEF Found, IsMGramPotentiallyPresent, g
<1>6. QED
  BY <1>3, <1>4, <1>5 DEF g

\* Katz back-off, as a chain over the length of the context.
Context(i) == MinOf(i - 1, LmMax - 1)
\* The probability for a context of k words, given that for one word less.
KatzStep(lm, w, i, k, shorter) ==
  CASE k = 0 -> UniGramProb(lm, w, i)
    [] k > 0 /\ SubSeq(w, i - k, i) \in DOMAIN lm.prob -> lm.prob[SubSeq(w, i - k, i)]
    [] OTHER -> shorter + (IF SubSeq(w, i - k, i - 1) \in DOMAIN lm.back
                           THEN lm.back[SubSeq(w, i - k, i - 1)] ELSE 0)
\* f holds the probabilities for all contexts, up to the longest.
IsKatz(lm, w, i, f) ==
  /\ f \in [0..Context(i) -> Int]
  /\ \A k \in 0..Context(i) : f[k] = KatzStep(lm, w, i, k, f[k - 1])
\* There is such a chain, and KatzProb is its last element.
LEMMA KatzUnfold ==
  ASSUME NEW lm, LmFields(lm), NEW w, NEW i \in Nat \ {0}
  PROVE  \E f : IsKatz(lm, w, i, f) /\ KatzProb(lm, w, i) = f[Context(i)]
<1> DEFINE K == Context(i)
           D == 0..K
           IsProb(h) == h = [k \in 0..K |-> KatzStep(lm, w, i, k, h[k - 1])]
           prob == CHOOSE h : IsProb(h)
           step == [p \in D \X Int |-> KatzStep(lm, w, i, p[1], p[2])]
<1>1. K \in Nat
  BY LmMaxAssumption DEF Context, MinOf
<1> HIDE DEF K
<1>2. \A k \in D : \A x : k = 0 \/ x \in Int => KatzStep(lm, w, i, k, x) \in Int
  <2>1. ASSUME NEW k \in D, NEW x, k = 0 \/ x \in Int PROVE KatzStep(lm, w, i, k, x) \in Int
    <3>1. UniGramProb(lm, w, i) \in Int
      BY DEF LmFields, UniGramProb
    <3> DEFINE b == IF SubSeq(w, i - k, i - 1) \in DOMAIN lm.back
                    THEN lm.back[SubSeq(w, i - k, i - 1)] ELSE 0
    <3>2. b \in Int
      BY DEF LmFields
    <3>3. SubSeq(w, i - k, i) \in DOMAIN lm.prob => lm.prob[SubSeq(w, i - k, i)] \in Int
      BY DEF LmFields
    <3>4. KatzStep(lm, w, i, k, x) =
            CASE k = 0 -> UniGramProb(lm, w, i)
              [] k > 0 /\ SubSeq(w, i - k, i) \in DOMAIN lm.prob -> lm.prob[SubSeq(w, i - k, i)]
              [] OTHER -> x + b
      BY DEF KatzStep
    <3> HIDE DEF b
    <3>5. k \in Nat
      BY <1>1
    <3>6. QED
      BY <2>1, <3>1, <3>2, <3>3, <3>4, <3>5
  <2>2. QED
    BY <2>1
<1>3. step \in [D \X Int -> Int]
  <2>1. \A p \in D \X Int : KatzStep(lm, w, i, p[1], p[2]) \in Int
    BY <1>2
  <2>2. QED
    BY <2>1
<1>4. \A k \in D, x \in Int : step[<<k, x>>] = KatzStep(lm, w, i, k, x)
  OBVIOUS
<1> HIDE DEF step
<1>5. IsChain(0, K, Int, 0, step)
  BY <1>1, <1>3 DEF IsChain
<1>6. PICK f : IsChained(0, K, Int, 0, step, f)
  BY <1>5, ChainExists
<1>7. f \in [D -> Int] /\ \A k \in D : f[k] = step[<<k, IF k = 0 THEN 0 ELSE f[k - 1]>>]
  BY <1>6 DEF IsChained
<1>8. \A k \in D : f[k] = KatzStep(lm, w, i, k, f[k - 1])
  <2>1. ASSUME NEW k \in D PROVE f[k] = KatzStep(lm, w, i, k, f[k - 1])
    <3>1. CASE k = 0
      <4>0. f[k] = step[<<k, 0>>]
        BY <1>7, <3>1
      <4>1. f[k] = KatzStep(lm, w, i, k, 0)
        BY <1>4, <4>0
      <4>2. \A x, y : KatzStep(lm, w, i, k, x) = KatzStep(lm, w, i, k, y)
        BY <3>1 DEF KatzStep
      <4>3. QED
        BY <4>1, <4>2
    <3>2. CASE k # 0
      <4>1. k - 1 \in D
        BY <1>1, <3>2
      <4>2. f[k - 1] \in Int
        BY <1>7, <4>1
      <4>3. QED
        BY <1>4, <1>7, <3>2, <4>2
    <3>3. QED
      BY <3>1, <3>2
  <2>2. QED
    BY <2>1
<1>9. IsProb(f)
  BY <1>7, <1>8
<1>10. IsProb(prob)
  <2> HIDE DEF IsProb
  <2>1. QED
    BY <1>9
<1>11. KatzProb(lm, w, i) = prob[K]
  BY DEF KatzProb, KatzStep, K, Context
<1> HIDE DEF prob
<1>12. \A k \in D : prob[k] = KatzStep(lm, w, i, k, prob[k - 1])
  BY <1>10
<1> DEFINE P == {k \in D : prob[k] \in Int}
<1>13. IsRangeInductive(0, K, P)
  <2>1. ASSUME NEW k \in D, k = 0 \/ k - 1 \in P PROVE k \in P
    <3>1. k = 0 \/ prob[k - 1] \in Int
      BY <2>1
    <3>2. QED
      BY <1>2, <1>12, <3>1
  <2> HIDE DEF P
  <2>2. QED
    BY <1>1, <2>1 DEF IsRangeInductive
<1>14. prob \in [D -> Int]
  <2>1. D \subseteq P
    BY <1>13, RangeInduction
  <2>2. QED
    BY <1>10, <2>1
<1>15. IsKatz(lm, w, i, prob)
  BY <1>12, <1>14 DEF IsKatz, K
<1>16. QED
  BY <1>11, <1>15 DEF K

\* Where the walk down a column stops, from that row and from the next one.
LEMMA RowFoundFirst ==
  ASSUME NEW lm, NEW w, NEW from \in Nat, NEW e \in Nat, from <= e
  PROVE  LET r == RowFound(lm, w, from, e)
         IN /\ r \in from..e /\ (r = e \/ Found(lm, w, r, e))
            /\ \A q \in from..(r - 1) : ~Found(lm, w, q, e)
<1> DEFINE Ends(r) == r = e \/ Found(lm, w, r, e)
           T == {r \in from..e : Ends(r)}
           Good(r) == /\ r = e \/ Found(lm, w, r, e)
                      /\ \A q \in from..(r - 1) : ~Found(lm, w, q, e)
<1>1. T \in SUBSET Nat /\ T # {}
  <2>1. e \in T
    OBVIOUS
  <2>2. QED
    BY <2>1
<1>2. PICK r \in T : \A q \in T : r <= q
  BY <1>1, MinExists
<1>3. r \in from..e /\ Good(r)
  <2>1. ASSUME NEW q \in from..(r - 1), Found(lm, w, q, e) PROVE FALSE
    <3>1. q \in T /\ ~(r <= q)
      BY <1>2, <2>1
    <3>2. QED
      BY <1>2, <3>1
  <2>2. QED
    BY <1>2, <2>1
<1>4. RowFound(lm, w, from, e) = CHOOSE x \in from..e : Good(x)
  BY DEF RowFound
<1> HIDE DEF Good
<1>5. RowFound(lm, w, from, e) \in from..e /\ Good(RowFound(lm, w, from, e))
  BY <1>3, <1>4
<1>6. QED
  BY <1>5 DEF Good

\* The row is the first one, or the one that is found below it.
LEMMA RowFoundNext ==
  ASSUME NEW lm, NEW w, NEW from \in Nat, NEW e \in Nat, from < e
  PROVE  /\ Found(lm, w, from, e) => RowFound(lm, w, from, e) = from
         /\ ~Found(lm, w, from, e) => RowFound(lm, w, from, e) = RowFound(lm, w, from + 1, e)
<1> DEFINE r == RowFound(lm, w, from, e)
           n == RowFound(lm, w, from + 1, e)
<1>1. r \in from..e /\ (r = e \/ Found(lm, w, r, e)) /\ \A q \in from..(r - 1) : ~Found(lm, w, q, e)
  BY RowFoundFirst
<1>2. n \in (from + 1)..e /\ (n = e \/ Found(lm, w, n, e)) /\ \A q \in (from + 1)..(n - 1) : ~Found(lm, w, q, e)
  <2>1. from + 1 \in Nat /\ from + 1 <= e
    OBVIOUS
  <2> HIDE DEF n
  <2> DEFINE a == from + 1
  <2>2. n = RowFound(lm, w, a, e) /\ a \in Nat /\ a <= e
    BY <2>1 DEF n
  <2> HIDE DEF a
  <2>3. n \in a..e /\ (n = e \/ Found(lm, w, n, e)) /\ \A q \in a..(n - 1) : ~Found(lm, w, q, e)
    BY <2>2, RowFoundFirst
  <2>4. QED
    BY <2>3 DEF a
<1> HIDE DEF r, n
<1>3. Found(lm, w, from, e) => r = from
  <2>1. r > from => from \in from..(r - 1)
    BY <1>1
  <2>2. QED
    BY <1>1, <2>1
<1>4. ASSUME ~Found(lm, w, from, e) PROVE r = n
  <2>1. r # from
    BY <1>1, <1>4
  <2>2. ~(r < n)
    <3>1. r < n => r \in (from + 1)..(n - 1) /\ r # e
      BY <1>1, <1>2, <2>1
    <3>2. QED
      BY <1>1, <1>2, <3>1
  <2>3. ~(n < r)
    <3>1. n < r => n \in from..(r - 1) /\ n # e
      BY <1>1, <1>2
    <3>2. QED
      BY <1>1, <1>2, <3>1
  <2>4. QED
    BY <1>1, <1>2, <2>2, <2>3
<1>5. QED
  BY <1>3, <1>4 DEF r, n

\* One row more of a column.
LEMMA ColumnNext ==
  ASSUME NEW lm, LmFields(lm), NEW w \in Seq(Words), NEW e \in 1..Len(w), NEW from \in 1..e, from < e
  PROVE  ColumnProb(lm, w, from, e) =
           IF Found(lm, w, from, e) THEN lm.prob[SubSeq(w, from, e)]
           ELSE ColumnProb(lm, w, from + 1, e) + BackOff(lm, w, from, e - 1)
<1> DEFINE Prob(r) == IF r = e THEN UniGramProb(lm, w, e) ELSE lm.prob[SubSeq(w, r, e)]
           Costs(b, r) == [q \in b..(r - 1) |-> BackOff(lm, w, q, e - 1)]
           r1 == RowFound(lm, w, from, e)
           r2 == RowFound(lm, w, from + 1, e)
<1>1. e \in Nat /\ from \in Nat /\ from >= 1 /\ from + 1 \in 1..e
  OBVIOUS
<1>2. /\ ColumnProb(lm, w, from, e) = SumFunction(Costs(from, r1)) + Prob(r1)
      /\ ColumnProb(lm, w, from + 1, e) = SumFunction(Costs(from + 1, r2)) + Prob(r2)
  BY DEF ColumnProb
<1>3. /\ Found(lm, w, from, e) => r1 = from
      /\ ~Found(lm, w, from, e) => r1 = r2
  BY <1>1, RowFoundNext
<1>4. r2 \in (from + 1)..e
  <2> DEFINE a == from + 1
  <2>1. a \in Nat /\ a <= e
    BY <1>1
  <2> HIDE DEF a
  <2>2. RowFound(lm, w, a, e) \in a..e
    BY <1>1, <2>1, RowFoundFirst
  <2>3. QED
    BY <2>2 DEF a
<1>5. \A q : BackOff(lm, w, q, e - 1) \in Int
  BY DEF BackOff, LmFields
<1>6. \A b, r : DOMAIN Costs(b, r) = b..(r - 1) /\ \A q \in b..(r - 1) : Costs(b, r)[q] = BackOff(lm, w, q, e - 1)
  OBVIOUS
<1> HIDE DEF r1, r2, Costs
<1>7. CASE Found(lm, w, from, e)
  <2>1. DOMAIN Costs(from, from) = {}
    <3>1. from..(from - 1) = {}
      BY <1>1
    <3>2. QED
      BY <1>6, <3>1
  <2>2. SumFunction(Costs(from, from)) = 0
    BY <2>1, SumEmpty DEF SumFunction
  <2>3. Prob(from) = lm.prob[SubSeq(w, from, e)]
    BY <1>1
  <2>4. lm.prob[SubSeq(w, from, e)] \in Int
    BY <1>7 DEF Found, LmFields
  <2> HIDE DEF Prob
  <2>5. QED
    BY <1>2, <1>3, <1>7, <2>2, <2>3, <2>4
<1>8. CASE ~Found(lm, w, from, e)
  <2> DEFINE f == Costs(from, r2)
             g == Costs(from + 1, r2)
             S == from..(r2 - 1)
             T == (from + 1)..(r2 - 1)
  <2>1. S \ {from} = T /\ from \in S /\ T \subseteq S
    BY <1>1, <1>4
  <2>2. IsFiniteSet(S) /\ IsFiniteSet(T)
    BY <1>1, <1>4, FS_Interval
  <2>3. SumFunction(f) = SumFunctionOnSet(f, S) /\ SumFunction(g) = SumFunctionOnSet(g, T)
    BY <1>6 DEF SumFunction
  <2>4. /\ \A q \in S : f[q] = BackOff(lm, w, q, e - 1) /\ f[q] \in Int
        /\ \A q \in T : g[q] = BackOff(lm, w, q, e - 1) /\ g[q] \in Int
    BY <1>5, <1>6
  <2> HIDE DEF f, g, S, T
  <2>5. SumFunctionOnSet(f, S) = f[from] + SumFunctionOnSet(f, T)
    BY <2>1, <2>2, <2>4, SumStep
  <2>6. SumFunctionOnSet(g, T) = SumFunctionOnSet(f, T)
    <3>1. T \in SUBSET T /\ \A q \in T : g[q] \in Int /\ g[q] = IF q \in T THEN f[q] ELSE 0
      BY <2>1, <2>4
    <3>2. QED
      BY <2>2, <3>1, SumSame
  <2>7. SumFunctionOnSet(g, T) \in Int
    BY <2>2, <2>4, SumType
  <2>8. UniGramProb(lm, w, e) \in Int
    BY DEF UniGramProb, LmFields
  <2>9. Prob(r2) \in Int
    <3>1. r2 = e \/ Found(lm, w, r2, e)
      <4> DEFINE a == from + 1
      <4>1. a \in Nat /\ a <= e
        BY <1>1
      <4> HIDE DEF a
      <4>2. LET r == RowFound(lm, w, a, e) IN r = e \/ Found(lm, w, r, e)
        BY <1>1, <4>1, RowFoundFirst
      <4>3. QED
        BY <4>2 DEF a, r2
    <3>2. QED
      BY <2>8, <3>1 DEF Found, LmFields
  <2>10. ColumnProb(lm, w, from, e) = SumFunctionOnSet(f, S) + Prob(r2)
    BY <1>2, <1>3, <1>8, <2>3 DEF f
  <2>11. ColumnProb(lm, w, from + 1, e) = SumFunctionOnSet(g, T) + Prob(r2)
    BY <1>2, <2>3 DEF g
  <2>12. f[from] = BackOff(lm, w, from, e - 1) /\ BackOff(lm, w, from, e - 1) \in Int
    BY <1>5, <2>1, <2>4
  <2> HIDE DEF Prob
  <2> DEFINE c1 == ColumnProb(lm, w, from, e)
             c2 == ColumnProb(lm, w, from + 1, e)
             s == SumFunctionOnSet(g, T)
             p == Prob(r2)
             b == BackOff(lm, w, from, e - 1)
  <2>13. c1 = (b + s) + p /\ c2 = s + p /\ s \in Int /\ p \in Int /\ b \in Int
    BY <2>5, <2>6, <2>7, <2>9, <2>10, <2>11, <2>12
  <2> HIDE DEF c1, c2, s, p, b
  <2>14. c1 = c2 + b
    BY <2>13
  <2>15. QED
    BY <1>8, <2>14 DEF c1, c2, b
<1>9. QED
  BY <1>7, <1>8

\* A column from its k-th row above the uni-gram is the back-off with k words.
LEMMA ColumnIsKatz ==
  ASSUME NEW lm, LmFields(lm), LmClosed(lm), NEW w \in Seq(Words), NEW e \in 1..Len(w),
         NEW f, IsKatz(lm, w, e, f), NEW from \in 1..e, e - from <= Context(e)
  PROVE  ColumnProb(lm, w, from, e) = f[e - from]
<1> DEFINE K == Context(e)
           P == {k \in 0..K : e - k \in 1..e => ColumnProb(lm, w, e - k, e) = f[k]}
<1>1. K \in Nat /\ K <= e - 1 /\ e \in Nat
  BY LmMaxAssumption DEF Context, MinOf
<1>2. f \in [0..K -> Int] /\ \A k \in 0..K : f[k] = KatzStep(lm, w, e, k, f[k - 1])
  BY DEF IsKatz
<1> HIDE DEF K
<1>3. ASSUME NEW k \in 0..K, k = 0 \/ k - 1 \in P PROVE ColumnProb(lm, w, e - k, e) = f[k]
  <2>1. CASE k = 0
    <3>1. e - k = e /\ f[k] = UniGramProb(lm, w, e)
      BY <1>1, <1>2, <2>1 DEF KatzStep
    <3>2. RowFound(lm, w, e, e) = e
      <4>1. RowFound(lm, w, e, e) \in e..e
        BY <1>1, RowFoundFirst
      <4>2. QED
        BY <1>1, <4>1
    <3> DEFINE g == [q \in e..(e - 1) |-> BackOff(lm, w, q, e - 1)]
    <3>3. ColumnProb(lm, w, e, e) = SumFunction(g) + UniGramProb(lm, w, e)
      BY <3>2 DEF ColumnProb
    <3>4. DOMAIN g = {}
      <4>1. e..(e - 1) = {}
        BY <1>1
      <4>2. QED
        BY <4>1
    <3> HIDE DEF g
    <3>5. SumFunction(g) = 0
      BY <3>4, SumEmpty DEF SumFunction
    <3>6. UniGramProb(lm, w, e) \in Int
      BY DEF UniGramProb, LmFields
    <3>7. QED
      BY <3>1, <3>3, <3>5, <3>6
  <2>2. CASE k # 0
    <3> DEFINE q == e - k
    <3>1. k - 1 \in 0..K /\ k > 0 /\ q \in 1..e /\ q < e /\ q + 1 = e - (k - 1) /\ q + 1 \in 1..e
      BY <1>1, <2>2
    <3>2. ColumnProb(lm, w, e - (k - 1), e) = f[k - 1]
      BY <1>3, <2>2, <3>1
    <3>3. f[k] = IF SubSeq(w, e - k, e) \in DOMAIN lm.prob THEN lm.prob[SubSeq(w, e - k, e)]
                 ELSE f[k - 1] + BackOff(lm, w, e - k, e - 1)
      <4>1. f[k] = KatzStep(lm, w, e, k, f[k - 1])
        BY <1>2
      <4>2. k # 0 /\ k > 0
        BY <2>2, <3>1
      <4>3. KatzStep(lm, w, e, k, f[k - 1]) =
              IF SubSeq(w, e - k, e) \in DOMAIN lm.prob THEN lm.prob[SubSeq(w, e - k, e)]
              ELSE f[k - 1] + BackOff(lm, w, e - k, e - 1)
        BY <4>2 DEF KatzStep, BackOff
      <4>4. QED
        BY <4>1, <4>3
    <3> HIDE DEF q
    <3>4. Found(lm, w, q, e) <=> SubSeq(w, q, e) \in DOMAIN lm.prob
      BY <3>1, FoundIsPresent
    <3>5. ColumnProb(lm, w, q, e) =
            IF Found(lm, w, q, e) THEN lm.prob[SubSeq(w, q, e)]
            ELSE ColumnProb(lm, w, q + 1, e) + BackOff(lm, w, q, e - 1)
      BY <3>1, ColumnNext
    <3>6. ColumnProb(lm, w, q + 1, e) = f[k - 1]
      BY <3>1, <3>2
    <3>7. QED
      BY <3>3, <3>4, <3>5, <3>6 DEF q
  <2>3. QED
    BY <2>1, <2>2
<1>4. IsRangeInductive(0, K, P)
  <2>1. \A k \in 0..K : k = 0 \/ k - 1 \in P => k \in P
    BY <1>3
  <2> HIDE DEF P
  <2>2. QED
    BY <1>1, <2>1 DEF IsRangeInductive
<1>5. 0..K \subseteq P
  BY <1>4, RangeInduction
<1>6. e - from \in 0..K /\ e - (e - from) = from
  BY <1>1 DEF K
<1>7. QED
  BY <1>5, <1>6

\* Rows in which nothing is found and no context has a weight add nothing.
LEMMA KatzBelow ==
  ASSUME NEW lm, NEW w, NEW e \in Nat \ {0}, NEW f, IsKatz(lm, w, e, f),
         NEW n \in 0..Context(e),
         \A k \in (n + 1)..Context(e) : /\ SubSeq(w, e - k, e) \notin DOMAIN lm.prob
                                        /\ SubSeq(w, e - k, e - 1) \notin DOMAIN lm.back
  PROVE  f[Context(e)] = f[n]
<1> DEFINE K == Context(e)
           P == {k \in n..K : f[k] = f[n]}
<1>1. K \in Nat /\ n \in Nat /\ n <= K
  BY LmMaxAssumption DEF Context, MinOf
<1>2. f \in [0..K -> Int] /\ \A k \in 0..K : f[k] = KatzStep(lm, w, e, k, f[k - 1])
  BY DEF IsKatz
<1>e. \A k \in (n + 1)..K : /\ SubSeq(w, e - k, e) \notin DOMAIN lm.prob
                            /\ SubSeq(w, e - k, e - 1) \notin DOMAIN lm.back
  OBVIOUS
<1> HIDE DEF K
<1>3. ASSUME NEW k \in n..K, k = n \/ k - 1 \in P PROVE k \in P
  <2>1. CASE k = n
    BY <1>1, <2>1
  <2>2. CASE k # n
    <3>1. k \in (n + 1)..K /\ k \in 0..K /\ k - 1 \in 0..K /\ k > 0
      BY <1>1, <2>2
    <3>2. f[k - 1] = f[n] /\ f[k - 1] \in Int
      BY <1>2, <1>3, <2>2, <3>1
    <3>3. f[k] = f[k - 1] + 0
      BY <1>2, <1>e, <3>1 DEF KatzStep
    <3>4. QED
      BY <3>2, <3>3
  <2>3. QED
    BY <2>1, <2>2
<1>4. IsRangeInductive(n, K, P)
  <2> HIDE DEF P
  <2>1. QED
    BY <1>1, <1>3 DEF IsRangeInductive
<1>5. K \in P
  <2>1. n..K \subseteq P
    BY <1>4, RangeInduction
  <2>2. K \in n..K
    BY <1>1
  <2>3. QED
    BY <2>1, <2>2
<1>6. QED
  BY <1>5 DEF K

\* The same words before two positions give them the same probability.
LEMMA KatzLocal ==
  ASSUME NEW lm, LmFields(lm), NEW w \in Seq(Words), NEW v \in Seq(Words),
         NEW e \in 1..Len(w), NEW i \in 1..Len(v), Context(e) = Context(i),
         \A k \in 0..Context(e) : w[e - k] = v[i - k]
  PROVE  KatzProb(lm, w, e) = KatzProb(lm, v, i)
<1> DEFINE K == Context(e)
<1>1. K \in Nat /\ K <= e - 1 /\ K <= i - 1 /\ e \in Nat /\ i \in Nat /\ e >= 1 /\ i >= 1
      /\ e <= Len(w) /\ i <= Len(v)
  BY LmMaxAssumption DEF Context, MinOf
<1>2. PICK f : IsKatz(lm, w, e, f) /\ KatzProb(lm, w, e) = f[K]
  BY KatzUnfold
<1>3. PICK g : IsKatz(lm, v, i, g) /\ KatzProb(lm, v, i) = g[Context(i)]
  <2>1. i \in Nat \ {0}
    BY <1>1
  <2>2. \E g : IsKatz(lm, v, i, g) /\ KatzProb(lm, v, i) = g[Context(i)]
    BY <2>1, KatzUnfold
  <2>3. QED
    BY <2>2
<1>4. K = Context(e) /\ K = Context(i) /\ \A k \in 0..K : w[e - k] = v[i - k]
  OBVIOUS
<1> HIDE DEF K
<1>5. ASSUME NEW k \in 0..K
      PROVE  /\ SubSeq(w, e - k, e) = SubSeq(v, i - k, i)
             /\ k > 0 => SubSeq(w, e - k, e - 1) = SubSeq(v, i - k, i - 1)
  <2> DEFINE a == SubSeq(w, e - k, e)
             b == SubSeq(v, i - k, i)
             c == SubSeq(w, e - k, e - 1)
             d == SubSeq(v, i - k, i - 1)
  <2>1. e - k \in 1..e /\ i - k \in 1..i /\ e - (e - k) + 1 = k + 1 /\ i - (i - k) + 1 = k + 1
    BY <1>1
  <2>2. a \in Seq(Words) /\ Len(a) = k + 1 /\ \A j \in 1..(k + 1) : a[j] = w[e - k + j - 1]
    BY <1>1, <2>1
  <2>3. b \in Seq(Words) /\ Len(b) = k + 1 /\ \A j \in 1..(k + 1) : b[j] = v[i - k + j - 1]
    BY <1>1, <2>1
  <2>4. c \in Seq(Words) /\ Len(c) = k /\ \A j \in 1..k : c[j] = w[e - k + j - 1]
    BY <1>1, <2>1
  <2>5. d \in Seq(Words) /\ Len(d) = k /\ \A j \in 1..k : d[j] = v[i - k + j - 1]
    BY <1>1, <2>1
  <2>6. ASSUME NEW j \in 1..(k + 1) PROVE w[e - k + j - 1] = v[i - k + j - 1]
    <3> DEFINE m == k + 1 - j
    <3>1. m \in 0..K /\ e - m = e - k + j - 1 /\ i - m = i - k + j - 1
      BY <1>1
    <3> HIDE DEF m
    <3>2. w[e - m] = v[i - m]
      BY <1>4, <3>1
    <3>3. QED
      BY <3>1, <3>2
  <2>7. k \in Nat
    BY <1>1
  <2> HIDE DEF a, b, c, d
  <2>8. a = b
    <3>1. a \in Seq(Words) /\ b \in Seq(Words) /\ Len(a) = Len(b) /\ \A j \in 1..Len(a) : a[j] = b[j]
      BY <2>2, <2>3, <2>6
    <3>2. QED
      BY ONLY <3>1, SeqsEqual
  <2>9. c = d
    <3>1. \A j \in 1..k : j \in 1..(k + 1)
      BY <2>7
    <3>2. c \in Seq(Words) /\ d \in Seq(Words) /\ Len(c) = Len(d) /\ \A j \in 1..Len(c) : c[j] = d[j]
      BY <2>4, <2>5, <2>6, <3>1
    <3>3. QED
      BY ONLY <3>2, SeqsEqual
  <2>10. QED
    BY <2>8, <2>9 DEF a, b, c, d
<1>6. UniGramProb(lm, w, e) = UniGramProb(lm, v, i)
  <2>1. w[e - 0] = v[i - 0] /\ e - 0 = e /\ i - 0 = i
    BY <1>1, <1>4
  <2>2. w[e] = v[i]
    BY <2>1
  <2>3. QED
    BY <2>2 DEF UniGramProb
<1>7. ASSUME NEW k \in 0..K, NEW x PROVE KatzStep(lm, w, e, k, x) = KatzStep(lm, v, i, k, x)
  <2>1. CASE k = 0
    BY <1>6, <2>1 DEF KatzStep
  <2>2. CASE k # 0
    <3>1. k > 0
      BY <1>1, <2>2
    <3>2. QED
      BY <1>5, <2>2, <3>1 DEF KatzStep
  <2>3. QED
    BY <2>1, <2>2
<1>8. /\ \A k \in 0..K : f[k] = KatzStep(lm, w, e, k, f[k - 1])
      /\ \A k \in 0..K : g[k] = KatzStep(lm, w, e, k, g[k - 1])
  BY <1>2, <1>3, <1>4, <1>7 DEF IsKatz
<1> DEFINE P == {k \in 0..K : f[k] = g[k]}
<1>9. ASSUME NEW k \in 0..K, k = 0 \/ k - 1 \in P PROVE k \in P
  <2>1. CASE k = 0
    <3>1. \A x, y : KatzStep(lm, w, e, k, x) = KatzStep(lm, w, e, k, y)
      BY <2>1 DEF KatzStep
    <3>2. QED
      BY <1>8, <3>1
  <2>2. CASE k # 0
    BY <1>8, <1>9, <2>2
  <2>3. QED
    BY <2>1, <2>2
<1>10. IsRangeInductive(0, K, P)
  <2> HIDE DEF P
  <2>1. QED
    BY <1>1, <1>9 DEF IsRangeInductive
<1>11. K \in P
  <2>1. 0..K \subseteq P
    BY <1>10, RangeInduction
  <2>2. K \in 0..K
    BY <1>1
  <2>3. QED
    BY <2>1, <2>2
<1>12. QED
  BY <1>2, <1>3, <1>4, <1>11

\* The rows in which a query enters its columns, and what it is made of.
FirstRow(lm, w, minLevel, e, before) ==
  CASE e >= LmMax + 1 -> e - LmMax + 1
    [] e = minLevel /\ e <= LmMax -> 1
    [] OTHER -> RowFound(lm, w, before, e - 1)
\* What the columns of a query give for its words.
QueryCosts(lm, w, minLevel, first) ==
  [e \in minLevel..Len(w) |-> ColumnProb(lm, w, first[e], e)]
\* A query with these first rows, its cost and its level.
IsQuery(lm, w, minLevel, first) ==
  /\ \A e \in minLevel..Len(w) :
       /\ first[e] \in 1..e /\ first[e] = FirstRow(lm, w, minLevel, e, first[e - 1])
       /\ e # minLevel => first[e - 1] \in 1..(e - 1)
  /\ ExecuteQuery(lm, w, minLevel) =
       [cost |-> SumFunctionOnSet(QueryCosts(lm, w, minLevel, first),
                                  {e \in minLevel..Len(w) :
                                     QueryCosts(lm, w, minLevel, first)[e] >= ZeroWeight}),
        level |-> MinOf(MinOf(Len(w), LmMax) + 1, LmMax)]
\* There are such rows for every query.
LEMMA QueryRows ==
  ASSUME NEW lm, LmFields(lm), NEW w \in Seq(Words), NEW minLevel \in 1..LmMax
  PROVE  \E first : IsQuery(lm, w, minLevel, first)
<1> DEFINE D == minLevel..Len(w)
           Row(e, before) == FirstRow(lm, w, minLevel, e, before)
           IsFirst(h) == h = [e \in D |-> Row(e, h[e - 1])]
           first == CHOOSE h : IsFirst(h)
           step == [p \in D \X Int |-> IF Row(p[1], p[2]) \in Int THEN Row(p[1], p[2]) ELSE 0]
           probs == [e \in D |-> ColumnProb(lm, w, first[e], e)]
           counted == {e \in D : probs[e] >= ZeroWeight}
<1>1. /\ LmMax \in Nat /\ LmMax > 1 /\ minLevel \in Nat /\ minLevel >= 1 /\ minLevel <= LmMax
      /\ Len(w) \in Nat
  BY LmMaxAssumption
<1>2. ExecuteQuery(lm, w, minLevel) =
        [cost |-> SumFunctionOnSet(probs, counted), level |-> MinOf(MinOf(Len(w), LmMax) + 1, LmMax)]
  BY DEF ExecuteQuery, FirstRow
<1>3. ASSUME NEW e \in D, NEW before, e # minLevel => before \in 1..e - 1
      PROVE  Row(e, before) \in 1..e
  <2>1. e \in Nat /\ e >= minLevel
    BY <1>1
  <2>2. CASE e >= LmMax + 1
    BY <1>1, <2>1, <2>2 DEF FirstRow
  <2>3. CASE ~(e >= LmMax + 1) /\ e = minLevel
    <3>1. e <= LmMax
      BY <1>1, <2>1, <2>3
    <3>2. Row(e, before) = 1
      BY <2>3, <3>1 DEF FirstRow
    <3>3. QED
      BY <1>1, <2>1, <3>2
  <2>4. CASE ~(e >= LmMax + 1) /\ e # minLevel
    <3>1. before \in 1..e - 1 /\ before \in Nat /\ e - 1 \in Nat /\ before <= e - 1
      BY <1>3, <2>1, <2>4
    <3>2. RowFound(lm, w, before, e - 1) \in before..e - 1
      BY <3>1, RowFoundProps
    <3>3. Row(e, before) = RowFound(lm, w, before, e - 1)
      BY <2>4 DEF FirstRow
    <3>4. QED
      BY <2>1, <3>1, <3>2, <3>3
  <2>5. QED
    BY <2>2, <2>3, <2>4
<1> HIDE DEF Row
<1>4. step \in [D \X Int -> Int]
  <2>1. ASSUME NEW p \in D \X Int
        PROVE  (IF Row(p[1], p[2]) \in Int THEN Row(p[1], p[2]) ELSE 0) \in Int
    OBVIOUS
  <2>2. QED
    BY <2>1
<1>5. \A e \in D, x \in Int : step[<<e, x>>] = IF Row(e, x) \in Int THEN Row(e, x) ELSE 0
  OBVIOUS
<1> HIDE DEF step
<1>6. IsChain(minLevel, Len(w), Int, 0, step)
  BY <1>1, <1>4 DEF IsChain
<1>7. PICK f : IsChained(minLevel, Len(w), Int, 0, step, f)
  BY <1>6, ChainExists
<1>8. f \in [D -> Int] /\ \A e \in D : f[e] = step[<<e, IF e = minLevel THEN 0 ELSE f[e - 1]>>]
  BY <1>7 DEF IsChained
<1>9. ASSUME NEW e \in D, e = minLevel \/ f[e - 1] \in 1..e - 1
      PROVE  f[e] = Row(e, f[e - 1]) /\ f[e] \in 1..e
  <2> DEFINE x == IF e = minLevel THEN 0 ELSE f[e - 1]
  <2>1. x \in Int
    BY <1>9
  <2>2. Row(e, x) \in 1..e /\ Row(e, f[e - 1]) \in 1..e
    BY <1>3, <1>9
  <2>3. f[e] = Row(e, x)
    <3>1. f[e] = step[<<e, x>>]
      BY <1>8
    <3>2. Row(e, x) \in Int
      BY <2>2
    <3> HIDE DEF x
    <3>3. QED
      BY <1>5, <2>1, <3>1, <3>2
  <2>4. Row(e, x) = Row(e, f[e - 1])
    <3>1. CASE e = minLevel
      BY <1>1, <3>1 DEF Row, FirstRow
    <3>2. QED
      BY <3>1
  <2>5. QED
    BY <2>2, <2>3, <2>4
<1>10. D \subseteq {e \in D : f[e] \in 1..e}
  <2> DEFINE P == {e \in D : f[e] \in 1..e}
  <2>1. ASSUME NEW e \in D, e = minLevel \/ e - 1 \in P PROVE e \in P
    BY <1>9, <2>1
  <2> HIDE DEF P
  <2>2. IsRangeInductive(minLevel, Len(w), P)
    BY <1>1, <2>1 DEF IsRangeInductive
  <2>3. minLevel..Len(w) \subseteq P
    BY <2>2, RangeInduction
  <2>4. QED
    BY <2>3 DEF P
<1>11. \A e \in D : e # minLevel => e - 1 \in D
  BY <1>1
<1>12. IsFirst(f)
  <2>1. \A e \in D : f[e] = Row(e, f[e - 1])
    BY <1>9, <1>10, <1>11
  <2>2. QED
    BY <1>8, <2>1
<1>13. IsFirst(first)
  <2> HIDE DEF IsFirst
  <2>1. QED
    BY <1>12
<1> HIDE DEF first
<1>14. \A e \in D : first[e] \in 1..e
  <2> DEFINE P == {e \in D : first[e] \in 1..e}
  <2>1. ASSUME NEW e \in D, e = minLevel \/ e - 1 \in P PROVE e \in P
    <3>1. first[e] = Row(e, first[e - 1])
      BY <1>13
    <3>2. e # minLevel => first[e - 1] \in 1..e - 1
      BY <2>1
    <3>3. QED
      BY <1>3, <3>1, <3>2
  <2> HIDE DEF P
  <2>2. IsRangeInductive(minLevel, Len(w), P)
    BY <1>1, <2>1 DEF IsRangeInductive
  <2>3. minLevel..Len(w) \subseteq P
    BY <2>2, RangeInduction
  <2>4. QED
    BY <2>3 DEF P
<1>15. ASSUME NEW e \in D
       PROVE  /\ first[e] = FirstRow(lm, w, minLevel, e, first[e - 1])
              /\ e # minLevel => first[e - 1] \in 1..(e - 1)
  <2>1. e # minLevel => e - 1 \in D
    BY <1>1
  <2>2. first[e] = Row(e, first[e - 1])
    BY <1>13
  <2>3. e # minLevel => first[e - 1] \in 1..(e - 1)
    BY <1>14, <2>1
  <2>4. QED
    BY <2>2, <2>3 DEF Row
<1>16. probs = QueryCosts(lm, w, minLevel, first)
  BY DEF QueryCosts
<1>17. counted = {e \in minLevel..Len(w) : QueryCosts(lm, w, minLevel, first)[e] >= ZeroWeight}
  BY <1>16
<1> HIDE DEF probs, counted
<1>18. ExecuteQuery(lm, w, minLevel) =
         [cost |-> SumFunctionOnSet(QueryCosts(lm, w, minLevel, first),
                                    {e \in minLevel..Len(w) :
                                       QueryCosts(lm, w, minLevel, first)[e] >= ZeroWeight}),
          level |-> MinOf(MinOf(Len(w), LmMax) + 1, LmMax)]
  BY <1>2, <1>16, <1>17
<1>19. \A e \in minLevel..Len(w) :
         /\ first[e] \in 1..e /\ first[e] = FirstRow(lm, w, minLevel, e, first[e - 1])
         /\ e # minLevel => first[e - 1] \in 1..(e - 1)
  BY <1>14, <1>15
<1>20. QED
  BY <1>18, <1>19 DEF IsQuery

\* The rows above the one in which a column is entered hold nothing: what is not
\* there for the words before it is not there for one word more.
RowsAboveEmpty(lm, w, first, e) ==
  e <= LmMax => \A q \in 1..(first[e] - 1) : q < e - 1 /\ SubSeq(w, q, e - 1) \notin DOMAIN lm.prob
\* So it is in every column of a query.
LEMMA RowsAbove ==
  ASSUME NEW lm, LmFields(lm), LmClosed(lm), NEW w \in Seq(Words), NEW minLevel \in 1..LmMax,
         NEW first, IsQuery(lm, w, minLevel, first), NEW e \in minLevel..Len(w)
  PROVE  RowsAboveEmpty(lm, w, first, e)
<1> DEFINE n == Len(w)
           P == {x \in minLevel..n : RowsAboveEmpty(lm, w, first, x)}
<1>1. LmMax \in Nat /\ minLevel \in Nat /\ minLevel >= 1 /\ minLevel <= LmMax /\ n \in Nat
  BY LmMaxAssumption
<1>2. \A x \in minLevel..n : /\ first[x] \in 1..x /\ first[x] = FirstRow(lm, w, minLevel, x, first[x - 1])
                             /\ x # minLevel => first[x - 1] \in 1..(x - 1)
  BY DEF IsQuery
<1>e. e \in minLevel..n
  OBVIOUS
<1>w. \A x \in minLevel..n : x \in 1..Len(w)
  BY <1>1
<1> HIDE DEF n
<1>3. ASSUME NEW x \in minLevel..n, x = minLevel \/ x - 1 \in P PROVE x \in P
  <2>1. SUFFICES ASSUME x <= LmMax, NEW q \in 1..(first[x] - 1)
                 PROVE  q < x - 1 /\ SubSeq(w, q, x - 1) \notin DOMAIN lm.prob
    BY DEF RowsAboveEmpty
  <2>a. first[x] \in 1..x /\ first[x] = FirstRow(lm, w, minLevel, x, first[x - 1])
    BY <1>1, <1>2
  <2>b. x # minLevel => first[x - 1] \in 1..(x - 1)
    BY <1>1, <1>2
  <2>2. x \in Nat /\ x >= minLevel /\ ~(x >= LmMax + 1) /\ first[x] \in Nat /\ first[x] <= x
    BY <1>1, <2>1, <2>a
  <2>3. CASE x = minLevel
    <3>1. first[x] = 1
      BY <2>1, <2>2, <2>3, <2>a DEF FirstRow
    <3>2. QED
      BY <3>1
  <2>4. CASE x # minLevel
    <3> DEFINE b == first[x - 1]
               r == RowFound(lm, w, b, x - 1)
    <3>1. b \in 1..(x - 1) /\ first[x] = r
      BY <2>2, <2>4, <2>a, <2>b DEF FirstRow
    <3>2. /\ r \in b..(x - 1)
          /\ \A p \in b..(r - 1) : ~Found(lm, w, p, x - 1)
      <4> DEFINE y == x - 1
      <4>1. b \in Nat /\ y \in Nat /\ b <= y
        BY <2>2, <3>1
      <4> HIDE DEF b, y
      <4>2. LET z == RowFound(lm, w, b, y)
            IN z \in b..y /\ \A p \in b..(z - 1) : ~Found(lm, w, p, y)
        BY <4>1, RowFoundFirst
      <4>3. QED
        BY <4>2 DEF b, y
    <3>3. x - 1 \in P /\ x - 1 \in minLevel..n
      BY <1>3, <2>4
    <3>4. \A p \in 1..(b - 1) : p < x - 2 /\ SubSeq(w, p, x - 2) \notin DOMAIN lm.prob
      <4>1. RowsAboveEmpty(lm, w, first, x - 1) /\ x - 1 <= LmMax
        BY <1>1, <2>1, <2>2, <3>3
      <4>2. x - 1 - 1 = x - 2
        BY <2>2
      <4>3. QED
        BY <4>1, <4>2 DEF RowsAboveEmpty
    <3>5. q < x - 1 /\ q \in Nat /\ q >= 1 /\ b \in Nat /\ x - 1 \in 1..Len(w) /\ q \in 1..(x - 1)
      <4>1. x - 1 \in 1..Len(w)
        BY <1>w, <3>3
      <4> HIDE DEF r, b
      <4>2. QED
        BY <2>1, <2>2, <3>1, <3>2, <4>1
    <3> HIDE DEF b, r
    <3>6. CASE q < b
      <4>1. q \in 1..(b - 1)
        BY <3>5, <3>6
      <4>2. SubSeq(w, q, x - 2) \notin DOMAIN lm.prob
        BY <3>4, <4>1
      <4> DEFINE y == x - 1
      <4>3. y \in 1..Len(w) /\ q \in 1..y /\ q < y /\ y - 1 = x - 2
        BY <2>2, <3>5
      <4>4. SubSeq(w, q, y - 1) \notin DOMAIN lm.prob
        BY <4>2, <4>3
      <4> HIDE DEF y
      <4>5. SubSeq(w, q, y) \notin DOMAIN lm.prob
        BY <4>3, <4>4, FoundIsPresent
      <4>6. QED
        BY <3>5, <4>5 DEF y
    <3>7. CASE ~(q < b)
      <4>1. q \in b..(r - 1)
        BY <2>1, <2>2, <3>1, <3>2, <3>5, <3>7
      <4>2. ~Found(lm, w, q, x - 1)
        BY <3>2, <4>1
      <4> DEFINE y == x - 1
      <4>3. y \in 1..Len(w) /\ q \in 1..y /\ q < y /\ ~Found(lm, w, q, y)
        BY <3>5, <4>2
      <4> HIDE DEF y
      <4>4. SubSeq(w, q, y) \notin DOMAIN lm.prob
        BY <4>3, FoundIsPresent
      <4>5. QED
        BY <3>5, <4>4 DEF y
    <3>8. QED
      BY <3>6, <3>7
  <2>5. QED
    BY <2>3, <2>4
<1>4. IsRangeInductive(minLevel, n, P)
  <2> HIDE DEF P
  <2>1. QED
    BY <1>1, <1>3 DEF IsRangeInductive
<1>5. minLevel..n \subseteq P
  BY <1>4, RangeInduction
<1>6. QED
  BY <1>5, <1>e

\* Every column of a query is the Katz probability of its last word.
LEMMA QueryColumn ==
  ASSUME NEW lm, LmFields(lm), LmClosed(lm), NEW w \in Seq(Words), NEW minLevel \in 1..LmMax,
         NEW first, IsQuery(lm, w, minLevel, first), NEW e \in minLevel..Len(w)
  PROVE  ColumnProb(lm, w, first[e], e) = KatzProb(lm, w, e)
<1> DEFINE K == Context(e)
           n == e - first[e]
<1>1. LmMax \in Nat /\ LmMax > 1 /\ minLevel \in Nat /\ minLevel >= 1 /\ minLevel <= LmMax /\ e \in 1..Len(w)
      /\ e >= minLevel /\ e \in Nat
  BY LmMaxAssumption
<1>2. first[e] \in 1..e /\ first[e] = FirstRow(lm, w, minLevel, e, first[e - 1])
  BY DEF IsQuery
<1>3. RowsAboveEmpty(lm, w, first, e)
  BY RowsAbove
<1>4. CASE e >= LmMax + 1
  <2>1. first[e] = e - LmMax + 1 /\ Context(e) = LmMax - 1 /\ n = Context(e)
    BY <1>1, <1>2, <1>4 DEF FirstRow, Context, MinOf
  <2>2. PICK f : IsKatz(lm, w, e, f) /\ KatzProb(lm, w, e) = f[Context(e)]
    BY <1>1, KatzUnfold
  <2>3. e - first[e] <= Context(e)
    BY <1>1, <2>1
  <2>4. ColumnProb(lm, w, first[e], e) = f[e - first[e]]
    BY <1>1, <1>2, <2>2, <2>3, ColumnIsKatz
  <2>5. QED
    BY <2>1, <2>2, <2>4
<1>5. CASE ~(e >= LmMax + 1)
  <2>1. Context(e) = e - 1 /\ n \in 0..Context(e)
    BY <1>1, <1>2, <1>5 DEF Context, MinOf
  <2>2. PICK f : IsKatz(lm, w, e, f) /\ KatzProb(lm, w, e) = f[Context(e)]
    BY <1>1, KatzUnfold
  <2>3. e - first[e] <= Context(e)
    BY <1>1, <2>1
  <2>4. ColumnProb(lm, w, first[e], e) = f[e - first[e]]
    BY <1>1, <1>2, <2>2, <2>3, ColumnIsKatz
  <2>5. ASSUME NEW k \in (n + 1)..Context(e)
        PROVE  /\ SubSeq(w, e - k, e) \notin DOMAIN lm.prob
               /\ SubSeq(w, e - k, e - 1) \notin DOMAIN lm.back
    <3> DEFINE q == e - k
    <3>1. q \in 1..(first[e] - 1) /\ q \in 1..e /\ q < e
      BY <1>1, <1>2, <2>1
    <3>2. SubSeq(w, q, e - 1) \notin DOMAIN lm.prob
      BY <1>1, <1>3, <1>5, <3>1 DEF RowsAboveEmpty
    <3> HIDE DEF q
    <3>3. SubSeq(w, q, e) \notin DOMAIN lm.prob /\ SubSeq(w, q, e - 1) \notin DOMAIN lm.back
      BY <1>1, <3>1, <3>2, FoundIsPresent
    <3>4. QED
      BY <3>3 DEF q
  <2> HIDE DEF n
  <2>6. f[Context(e)] = f[n]
    <3>1. e \in Nat \ {0} /\ n \in 0..Context(e)
      BY <1>1, <2>1
    <3>2. \A k \in (n + 1)..Context(e) : /\ SubSeq(w, e - k, e) \notin DOMAIN lm.prob
                                         /\ SubSeq(w, e - k, e - 1) \notin DOMAIN lm.back
      BY <2>5
    <3>3. IsKatz(lm, w, e, f)
      BY <2>2
    <3>4. QED
      BY <3>1, <3>2, <3>3, KatzBelow
  <2>7. QED
    BY <2>2, <2>4, <2>6 DEF n
<1>6. QED
  BY <1>4, <1>5

\* What the joint probability counts of a word: nothing below the weight of a zero.
Clipped(lm, words, i) == IF KatzProb(lm, words, i) >= ZeroWeight THEN KatzProb(lm, words, i) ELSE 0
\* A query sums, over the words from its first level on, what Katz back-off gives
\* for them, without what is below the weight of a zero.
THEOREM QueryIsKatz ==
  ASSUME NEW lm, LmFields(lm), LmClosed(lm), NEW w \in Seq(Words), NEW minLevel \in 1..LmMax
  PROVE  /\ ExecuteQuery(lm, w, minLevel).cost =
              SumFunctionOnSet([e \in minLevel..Len(w) |-> Clipped(lm, w, e)], minLevel..Len(w))
         /\ ExecuteQuery(lm, w, minLevel).level = MinOf(MinOf(Len(w), LmMax) + 1, LmMax)
         /\ \A e \in 1..Len(w) : Clipped(lm, w, e) \in Int
<1> DEFINE D == minLevel..Len(w)
<1>1. PICK first : IsQuery(lm, w, minLevel, first)
  BY QueryRows
<1> DEFINE probs == QueryCosts(lm, w, minLevel, first)
           counted == {e \in D : probs[e] >= ZeroWeight}
           clipped == [e \in D |-> Clipped(lm, w, e)]
<1>2. ExecuteQuery(lm, w, minLevel) =
        [cost |-> SumFunctionOnSet(probs, counted), level |-> MinOf(MinOf(Len(w), LmMax) + 1, LmMax)]
  BY <1>1 DEF IsQuery
<1>3. \A e \in D : probs[e] = KatzProb(lm, w, e)
  BY <1>1, QueryColumn DEF QueryCosts
<1>4. \A e \in 1..Len(w) : KatzProb(lm, w, e) \in Int
  <2>1. ASSUME NEW e \in 1..Len(w) PROVE KatzProb(lm, w, e) \in Int
    <3>1. e \in Nat \ {0} /\ Context(e) \in 0..Context(e)
      BY LmMaxAssumption DEF Context, MinOf
    <3>2. PICK f : IsKatz(lm, w, e, f) /\ KatzProb(lm, w, e) = f[Context(e)]
      BY <3>1, KatzUnfold
    <3>3. QED
      BY <3>1, <3>2 DEF IsKatz
  <2>2. QED
    BY <2>1
<1>5. \A e \in 1..Len(w) : Clipped(lm, w, e) \in Int
  BY <1>4 DEF Clipped
<1>6. minLevel \in Nat /\ Len(w) \in Nat /\ \A e \in D : e \in 1..Len(w)
  BY LmMaxAssumption
<1>7. IsFiniteSet(D)
  BY <1>6, FS_Interval
<1>8. \A e \in D : clipped[e] \in Int /\ clipped[e] = IF e \in counted THEN probs[e] ELSE 0
  BY <1>3, <1>5, <1>6 DEF Clipped
<1>9. counted \in SUBSET D
  OBVIOUS
<1> HIDE DEF D, probs, counted, clipped
<1>10. SumFunctionOnSet(clipped, D) = SumFunctionOnSet(probs, counted)
  BY <1>7, <1>8, <1>9, SumSame
<1>11. QED
  BY <1>2, <1>5, <1>10 DEF clipped, D

\* The score of a word sequence as a whole.
LmScore(words) == SumFunction([i \in 1..Len(words) |-> Clipped(inst.lm, words, i)])

\* What comes after a word does not change its score.
LEMMA LmPrefix ==
  ASSUME NEW lm, LmFields(lm), NEW w \in Seq(Words), NEW t \in Seq(Words), NEW i \in 1..Len(w)
  PROVE  Clipped(lm, w \o t, i) = Clipped(lm, w, i)
<1> DEFINE v == w \o t
<1>1. v \in Seq(Words) /\ i \in 1..Len(v) /\ \A j \in 1..Len(w) : v[j] = w[j]
  OBVIOUS
<1>2. Context(i) \in Nat /\ Context(i) <= i - 1
  BY LmMaxAssumption DEF Context, MinOf
<1>3. \A k \in 0..Context(i) : i - k \in 1..Len(w)
  BY <1>2
<1> HIDE DEF v
<1>4. \A k \in 0..Context(i) : v[i - k] = w[i - k]
  BY <1>1, <1>3
<1>5. KatzProb(lm, v, i) = KatzProb(lm, w, i)
  BY <1>1, <1>4, KatzLocal
<1>6. QED
  BY <1>5 DEF Clipped, v

\* A query for a state adds the score of the new words: those before them have
\* been scored, unless the state is the root.
LEMMA LmQueryScore ==
  ASSUME InstanceFields(inst), LmClosed(inst.lm), NEW prev, prev.frame \in Seq(Words),
         NEW w \in Seq(Words), LastWords(prev.frame, LmMax - 1) = LastWords(w, LmMax - 1),
         NEW t \in Seq(Words), NEW fresh \in BOOLEAN, fresh => Len(w) < LmMax,
         prev.lmLevel = MinOf((IF fresh THEN 0 ELSE Len(w)) + 1, LmMax)
  PROVE  /\ LmScore(w \o t) = (IF fresh THEN 0 ELSE LmScore(w)) + LmQuery(prev, t).cost
         /\ LmQuery(prev, t).level = MinOf(Len(w \o t) + 1, LmMax)
         /\ LmScore(w \o t) \in Int /\ LmScore(w) \in Int /\ LmQuery(prev, t).cost \in Int
<1> DEFINE n == IF fresh THEN 0 ELSE Len(w)
           lm == inst.lm
           hist == LastWords(w, LmMax - 1)
           q == hist \o t
           v == w \o t
           h == MinOf(Len(w), LmMax - 1)
           d == Len(w) - h
           lev == MinOf(n + 1, LmMax)
           f == [e \in lev..Len(q) |-> Clipped(lm, q, e)]
           g == [i \in 1..Len(v) |-> Clipped(lm, v, i)]
           gw == [i \in 1..Len(w) |-> Clipped(lm, w, i)]
<1>1. /\ LmMax \in Nat /\ LmMax > 1 /\ Len(w) \in Nat /\ Len(t) \in Nat /\ n \in Nat
      /\ n = 0 \/ n = Len(w)
      /\ n = Len(w) \/ Len(w) < LmMax
      /\ LmFields(lm) /\ LmClosed(lm)
      /\ (fresh => n = 0) /\ (~fresh => n = Len(w))
  <2>1. LmMax \in Nat /\ LmMax > 1 /\ Len(w) \in Nat /\ Len(t) \in Nat /\ 0 \in Nat
    BY LmMaxAssumption
  <2>2. LmFields(lm) /\ LmClosed(lm)
    BY DEF InstanceFields
  <2>3. CASE fresh
    <3>1. n = 0 /\ Len(w) < LmMax
      BY <2>3
    <3> HIDE DEF n, lm
    <3>2. QED
      BY <2>1, <2>2, <2>3, <3>1
  <2>4. CASE ~fresh
    <3>1. n = Len(w)
      BY <2>4
    <3> HIDE DEF n, lm
    <3>2. QED
      BY <2>1, <2>2, <2>4, <3>1
  <2>5. QED
    BY <2>3, <2>4
<1>2. /\ hist \in Seq(Words) /\ Len(hist) = h /\ \A i \in 1..h : hist[i] = w[Len(w) - h + i]
  <2>1. LmMax - 1 \in Nat
    BY <1>1
  <2>2. QED
    BY <2>1, LastWordsProps
<1>3. /\ h \in Nat /\ h <= Len(w) /\ d \in Nat /\ lev \in 1..LmMax /\ lev + d = n + 1 /\ lev >= 1
      /\ (d # 0 => h = LmMax - 1 /\ lev = LmMax)
  <2> DEFINE W == Len(w)
  <2>1. /\ LmMax \in Nat /\ LmMax > 1 /\ W \in Nat /\ n \in Nat
        /\ (n = 0 \/ n = W) /\ (n = W \/ W < LmMax)
        /\ h = MinOf(W, LmMax - 1) /\ d = W - h /\ lev = MinOf(n + 1, LmMax)
    BY <1>1
  <2> HIDE DEF W, h, d, lev, n
  <2>2. CASE W <= LmMax - 1
    <3>1. h = W /\ d = 0 /\ lev = n + 1
      BY <2>1, <2>2 DEF MinOf
    <3>2. QED
      BY <2>1, <2>2, <3>1 DEF W
  <2>3. CASE ~(W <= LmMax - 1)
    <3>1. h = LmMax - 1 /\ n = W /\ lev = LmMax
      BY <2>1, <2>3 DEF MinOf
    <3>2. h \in Nat /\ h <= W
      BY <2>1, <2>3, <3>1
    <3>3. d = W - h
      BY <2>1
    <3>4. d \in Nat
      BY <2>1, <3>2, <3>3
    <3>5. lev \in 1..LmMax /\ lev >= 1
      BY <2>1, <3>1
    <3>6. lev + d = n + 1
      BY <2>1, <3>1, <3>2, <3>3
    <3>7. QED
      BY <3>1, <3>2, <3>4, <3>5, <3>6 DEF W
  <2>4. QED
    BY <2>2, <2>3
<1>4. LmQuery(prev, t) = ExecuteQuery(lm, q, lev)
  BY DEF LmQuery
<1> HIDE DEF hist, h, lev, n
<1>5. /\ q \in Seq(Words) /\ Len(q) = h + Len(t)
      /\ \A j \in 1..h : q[j] = hist[j]
      /\ \A j \in (h + 1)..(h + Len(t)) : q[j] = t[j - h]
  <2>1. q \in Seq(Words) /\ Len(q) = Len(hist) + Len(t)
    <3>1. \A a, b \in Seq(Words) : a \o b \in Seq(Words) /\ Len(a \o b) = Len(a) + Len(b)
      OBVIOUS
    <3>2. QED
      BY <1>2, <3>1
  <2>2. \A j \in 1..Len(hist) : q[j] = hist[j]
    BY <1>2
  <2>3. \A j \in (Len(hist) + 1)..(Len(hist) + Len(t)) : q[j] = t[j - Len(hist)]
    BY <1>2
  <2> HIDE DEF q
  <2>4. QED
    BY <1>2, <2>1, <2>2, <2>3
<1>6. /\ v \in Seq(Words) /\ Len(v) = Len(w) + Len(t)
      /\ \A j \in 1..Len(w) : v[j] = w[j]
      /\ \A j \in (Len(w) + 1)..(Len(w) + Len(t)) : v[j] = t[j - Len(w)]
  OBVIOUS
<1> HIDE DEF q, v
<1>7. ASSUME NEW j \in 1..Len(q) PROVE q[j] = v[j + d]
  <2>1. CASE j <= h
    <3>1. j \in 1..h /\ j + d \in 1..Len(w) /\ Len(w) - h + j = j + d
      BY <1>3, <1>5, <2>1
    <3>2. q[j] = w[j + d]
      BY <1>2, <1>5, <3>1
    <3> HIDE DEF d
    <3>3. QED
      BY <1>6, <3>1, <3>2
  <2>2. CASE ~(j <= h)
    <3>1. /\ j \in (h + 1)..(h + Len(t)) /\ j + d \in (Len(w) + 1)..(Len(w) + Len(t))
          /\ j + d - Len(w) = j - h
      BY <1>1, <1>3, <1>5, <2>2
    <3>2. q[j] = t[j - h]
      BY <1>5, <3>1
    <3> HIDE DEF d
    <3> DEFINE i == j + d
    <3>3. i = j + d
      OBVIOUS
    <3> HIDE DEF i
    <3>4. i \in (Len(w) + 1)..(Len(w) + Len(t)) /\ i - Len(w) = j - h
      BY <1>3, <3>1, <3>3
    <3>5. v[i] = t[i - Len(w)]
      BY <1>6, <3>4
    <3>6. QED
      BY <3>2, <3>3, <3>4, <3>5
  <2>3. QED
    BY <2>1, <2>2
<1>8. Len(q) + d = Len(v) /\ Len(q) \in Nat /\ Len(v) \in Nat
  BY <1>1, <1>3, <1>5, <1>6
<1> HIDE DEF d
<1>9. ASSUME NEW e \in lev..Len(q)
      PROVE  f[e] \in Int /\ g[e + d] = f[e]
  <2>1. e \in 1..Len(q) /\ e + d \in 1..Len(v) /\ e >= lev
    BY <1>3, <1>8
  <2>2. Context(e) = Context(e + d) /\ Context(e) \in Nat /\ Context(e) <= e - 1
    BY <1>1, <1>3, <2>1 DEF Context, MinOf
  <2>3. \A k \in 0..Context(e) : q[e - k] = v[(e + d) - k]
    <3>1. ASSUME NEW k \in 0..Context(e) PROVE q[e - k] = v[(e + d) - k]
      <4>1. e - k \in 1..Len(q) /\ (e - k) + d = (e + d) - k
        BY <1>3, <2>1, <2>2
      <4>2. QED
        BY <1>7, <4>1
    <3>2. QED
      BY <3>1
  <2>4. KatzProb(lm, q, e) = KatzProb(lm, v, e + d)
    <3> DEFINE i == e + d
    <3>1. i \in 1..Len(v) /\ Context(e) = Context(i) /\ \A k \in 0..Context(e) : q[e - k] = v[i - k]
      BY <2>1, <2>2, <2>3
    <3>a. LmFields(lm) /\ q \in Seq(Words) /\ v \in Seq(Words) /\ e \in 1..Len(q)
      BY <1>1, <1>5, <1>6, <2>1
    <3> HIDE DEF i, lm
    <3>2. KatzProb(lm, q, e) = KatzProb(lm, v, i)
      BY <3>1, <3>a, KatzLocal
    <3>3. QED
      BY <3>2 DEF i
  <2>5. Clipped(lm, q, e) \in Int
    BY <1>1, <1>3, <1>5, <2>1, QueryIsKatz
  <2>6. Clipped(lm, q, e) = Clipped(lm, v, e + d)
    BY <2>4 DEF Clipped
  <2>7. QED
    BY <2>1, <2>5, <2>6
<1>10. /\ LmQuery(prev, t).cost = SumFunctionOnSet(f, lev..Len(q))
       /\ LmQuery(prev, t).level = MinOf(MinOf(Len(q), LmMax) + 1, LmMax)
  <2>1. LmFields(lm) /\ LmClosed(lm) /\ q \in Seq(Words) /\ lev \in 1..LmMax
    BY <1>1, <1>3, <1>5
  <2> HIDE DEF lm
  <2>2. /\ ExecuteQuery(lm, q, lev).cost = SumFunctionOnSet(f, lev..Len(q))
        /\ ExecuteQuery(lm, q, lev).level = MinOf(MinOf(Len(q), LmMax) + 1, LmMax)
    BY <2>1, QueryIsKatz
  <2>3. QED
    BY <1>4, <2>2
<1>11. LmQuery(prev, t).level = MinOf(Len(v) + 1, LmMax)
  <2>1. MinOf(MinOf(Len(q), LmMax) + 1, LmMax) = MinOf(Len(v) + 1, LmMax)
    <3> DEFINE T == Len(t)
               W == Len(w)
               lq == Len(q)
               lv == Len(v)
    <3>1. /\ T \in Nat /\ W \in Nat /\ lq = h + T /\ lv = W + T /\ h \in Nat /\ h <= W
          /\ LmMax \in Nat /\ LmMax > 1
          /\ (W - h = 0 \/ h = LmMax - 1)
      BY <1>1, <1>3, <1>5, <1>6 DEF d
    <3> HIDE DEF T, W, lq, lv
    <3>2. CASE W = h
      <4>1. lq = lv /\ lq \in Nat
        BY <3>1, <3>2
      <4>2. MinOf(MinOf(lq, LmMax) + 1, LmMax) = MinOf(lv + 1, LmMax)
        BY <3>1, <4>1 DEF MinOf
      <4>3. QED
        BY <4>2 DEF lq, lv
    <3>3. CASE h = LmMax - 1
      <4>1. lq >= LmMax - 1 /\ lv >= LmMax - 1 /\ lq \in Nat /\ lv \in Nat
        BY <3>1, <3>3
      <4>2. MinOf(MinOf(lq, LmMax) + 1, LmMax) = MinOf(lv + 1, LmMax)
        BY <3>1, <4>1 DEF MinOf
      <4>3. QED
        BY <4>2 DEF lq, lv
    <3>4. QED
      BY <3>1, <3>2, <3>3
  <2>2. QED
    BY <1>10, <2>1
<1>12. \A i \in 1..Len(v) : g[i] \in Int
  <2>1. 1 \in 1..LmMax
    BY <1>1
  <2>2. \A i \in 1..Len(v) : Clipped(lm, v, i) \in Int
    BY <1>1, <1>6, <2>1, QueryIsKatz
  <2>3. QED
    BY <2>2
<1>13. \A i \in 1..Len(w) : gw[i] \in Int /\ i \in 1..Len(v) /\ g[i] = gw[i]
  <2>1. ASSUME NEW i \in 1..Len(w) PROVE i \in 1..Len(v) /\ Clipped(lm, v, i) = Clipped(lm, w, i)
    BY <1>1, <1>6, LmPrefix DEF v
  <2>2. QED
    BY <1>12, <2>1
<1>14. LmScore(v) = SumFunctionOnSet(g, 1..Len(v)) /\ LmScore(w) = SumFunctionOnSet(gw, 1..Len(w))
  BY DEF LmScore, SumFunction
<1> HIDE DEF f, g, gw
<1>15. SumFunctionOnSet(g, (n + 1)..Len(v)) = SumFunctionOnSet(f, lev..Len(q))
  <2>1. SumFunctionOnSet(g, (lev + d)..(Len(q) + d)) = SumFunctionOnSet(f, lev..Len(q))
    <3>1. lev \in Int /\ Len(q) \in Int /\ d \in Int
      BY <1>3, <1>8
    <3>2. \A e \in lev..Len(q) : f[e] \in Int /\ g[e + d] = f[e]
      BY <1>9
    <3> DEFINE b == Len(q)
    <3>3. b \in Int /\ \A e \in lev..b : f[e] \in Int /\ g[e + d] = f[e]
      BY <3>1, <3>2
    <3> HIDE DEF b
    <3>4. SumFunctionOnSet(g, (lev + d)..(b + d)) = SumFunctionOnSet(f, lev..b)
      <4>1. lev \in Int
        BY <3>1
      <4>2. b \in Int
        BY <3>3
      <4>3. d \in Int
        BY <3>1
      <4>4. \A e \in lev..b : f[e] \in Int /\ g[e + d] = f[e]
        BY <3>3
      <4>5. IsMoved(lev, b, d, f, g)
        BY <4>1, <4>2, <4>3, <4>4 DEF IsMoved
      <4>6. QED
        BY <4>5, SumMoved
    <3>5. QED
      BY <3>4 DEF b
  <2>2. QED
    BY <1>3, <1>8, <2>1
<1>16. SumFunctionOnSet(g, 1..Len(v)) = SumFunctionOnSet(g, 1..n) + SumFunctionOnSet(g, (n + 1)..Len(v))
  <2>1. 1 <= n + 1 /\ n <= Len(v) /\ 1 \in Int /\ n \in Int /\ Len(v) \in Int
    BY <1>1, <1>6
  <2>2. QED
    BY <1>12, <2>1, SumSplit
<1>17. SumFunctionOnSet(g, 1..n) = IF fresh THEN 0 ELSE LmScore(w)
  <2>1. CASE fresh
    <3>1. 1..n = {}
      BY <1>1, <2>1
    <3>2. QED
      BY <2>1, <3>1, SumEmpty
  <2>2. CASE ~fresh
    <3> DEFINE S == 1..Len(w)
    <3>1. n = Len(w) /\ IsFiniteSet(S) /\ S \in SUBSET S
      BY <1>1, <2>2, FS_Interval
    <3>2. \A i \in S : g[i] \in Int /\ g[i] = IF i \in S THEN gw[i] ELSE 0
      BY <1>13
    <3> HIDE DEF S
    <3>3. SumFunctionOnSet(g, S) = SumFunctionOnSet(gw, S)
      BY ONLY <3>1, <3>2, SumSame
    <3>4. QED
      BY <1>14, <2>2, <3>1, <3>3 DEF S
  <2>3. QED
    BY <2>1, <2>2
<1>18. /\ SumFunctionOnSet(g, 1..Len(v)) \in Int /\ SumFunctionOnSet(gw, 1..Len(w)) \in Int
       /\ SumFunctionOnSet(f, lev..Len(q)) \in Int
  <2>1. IsFiniteSet(1..Len(v)) /\ IsFiniteSet(1..Len(w)) /\ IsFiniteSet(lev..Len(q))
    BY <1>1, <1>3, <1>8, FS_Interval
  <2> DEFINE A == 1..Len(v)
             B == 1..Len(w)
             C == lev..Len(q)
  <2>2. /\ IsFiniteSet(A) /\ IsFiniteSet(B) /\ IsFiniteSet(C)
        /\ \A i \in A : g[i] \in Int
        /\ \A i \in B : gw[i] \in Int
        /\ \A i \in C : f[i] \in Int
    BY <1>9, <1>12, <1>13, <2>1
  <2> HIDE DEF A, B, C
  <2>3. SumFunctionOnSet(g, A) \in Int /\ SumFunctionOnSet(gw, B) \in Int /\ SumFunctionOnSet(f, C) \in Int
    BY <2>2, SumType
  <2>4. QED
    BY <2>3 DEF A, B, C
<1>19. QED
  BY <1>10, <1>11, <1>14, <1>15, <1>16, <1>17, <1>18 DEF v

-----------------------------------------------------------------------------
(* The score of a derivation                                                 *)

\* A sum over a sequence with one element more.
IsExtended(n, fun, gun) ==
  /\ n \in Nat /\ DOMAIN fun = 1..n /\ DOMAIN gun = 1..(n + 1)
  /\ \A i \in 1..(n + 1) : gun[i] \in Int
  /\ \A i \in 1..n : gun[i] = fun[i]
\* It is the sum of the others and that element.
LEMMA SumExtended ==
  ASSUME NEW n, NEW fun, NEW gun, IsExtended(n, fun, gun)
  PROVE  /\ SumFunction(gun) = SumFunction(fun) + gun[n + 1]
         /\ SumFunction(fun) \in Int /\ gun[n + 1] \in Int
<1>1. /\ n \in Nat /\ DOMAIN fun = 1..n /\ DOMAIN gun = 1..(n + 1)
      /\ \A i \in 1..(n + 1) : gun[i] \in Int
      /\ \A i \in 1..n : gun[i] = fun[i]
  BY DEF IsExtended
<1> DEFINE m == n + 1
           S == 1..n
<1>2. m \in Int /\ 1 <= m /\ m - 1 = n /\ 1..m = 1..(n + 1) /\ m \in 1..m
  BY <1>1
<1>3. /\ SumFunction(gun) = SumFunctionOnSet(gun, 1..m)
      /\ SumFunction(fun) = SumFunctionOnSet(fun, S)
  BY <1>1 DEF SumFunction
<1>4. \A i \in 1..m : gun[i] \in Int
  BY <1>1
<1>5. \A i \in S : fun[i] \in Int /\ gun[i] \in Int /\ gun[i] = fun[i]
  BY <1>1
<1>6. IsFiniteSet(S) /\ S \in SUBSET S
  BY <1>1, FS_Interval
<1>7. gun[n + 1] = gun[m] /\ 1..(m - 1) = S
  BY <1>2
<1> HIDE DEF m, S
<1>8. SumFunctionOnSet(gun, 1..m) = SumFunctionOnSet(gun, 1..(m - 1)) + gun[m]
  BY <1>2, <1>4, SumLast
<1>9. SumFunctionOnSet(gun, S) = SumFunctionOnSet(fun, S)
  <2>1. \A i \in S : gun[i] \in Int /\ gun[i] = IF i \in S THEN fun[i] ELSE 0
    BY <1>5
  <2>2. QED
    BY <1>6, <2>1, SumSame
<1>10. SumFunctionOnSet(fun, S) \in Int
  BY <1>5, <1>6, SumType
<1>11. QED
  BY <1>2, <1>3, <1>4, <1>7, <1>8, <1>9, <1>10

\* The parts of a derivation's score.
TmScore(path) == SumFunction([i \in 1..Len(path) |-> path[i].target.weight])
\* How far the i-th step jumps.
DistanceAt(path, i) == Abs(SpanAt(path, i)[1] - SpanAt(path, i - 1)[2] - 1)
\* How far all steps jump.
DistScore(path, steps) == SumFunction([i \in 1..steps |-> DistanceAt(path, i)])
\* What the reordering model says of the i-th step.
ReorderingAt(path, i) ==
  LET orient == OrientationOf(SpanAt(path, i - 1), SpanAt(path, i))
  IN GetWeight(FromWeights(GetReordering(UidAt(path, i - 1))), orient)
     + GetWeight(ToWeights(GetReordering(UidAt(path, i))), orient)
\* What it says of all steps.
RmScore(path, steps) == SumFunction([i \in 1..steps |-> ReorderingAt(path, i)])
\* The score is made up of them.
LEMMA DerivationScoreParts ==
  ASSUME NEW path, NEW steps
  PROVE  DerivationScore(path, steps) =
           IF steps = 0 THEN 0
           ELSE LmScore(WordsOf(path) \o (IF steps > Len(path) THEN EndTag ELSE <<>>))
                + TmScore(path) - inst.params.penalty * DistScore(path, steps) + RmScore(path, steps)
BY DEF DerivationScore, LmScore, TmScore, DistScore, RmScore, Clipped, DistanceAt, ReorderingAt,
       WordsOf, SumUpTo

\* The steps of a path: the pairs of spans, and weights for each of them.
LEMMA PathSteps ==
  ASSUME HashIsNat, DataOK, NEW path \in Seq(Phrases), NEW i \in 0..(Len(path) + 1)
  PROVE  /\ SpanAt(path, i)[1] \in Int /\ SpanAt(path, i)[2] \in Int
         /\ GetReordering(UidAt(path, i)) \in Weights
<1>1. NumWords \in Nat /\ \A s \in Spans : s[1] \in Nat /\ s[2] \in Nat
  BY SentenceOK DEF DataOK
<1>2. \A uid \in Uids : GetReordering(uid) \in Weights
  BY GetReorderingType DEF DataOK, TablesInv
<1>3. <<BeginTag, BeginTag>> \in Uids /\ <<EndTag, EndTag>> \in Uids
  BY PhrasesAssumption DEF Uids
<1>4. Len(path) \in Nat /\ i \in Nat
  OBVIOUS
<1>5. CASE i = 0
  BY <1>2, <1>3, <1>5 DEF SpanAt, UidAt
<1>6. CASE i = Len(path) + 1
  <2>1. i # 0
    BY <1>4, <1>6
  <2>2. QED
    BY <1>1, <1>2, <1>3, <1>6, <2>1 DEF SpanAt, UidAt
<1>7. CASE i # 0 /\ i # Len(path) + 1
  <2>1. i \in 1..Len(path)
    BY <1>4, <1>7
  <2>2. path[i] \in Phrases
    BY <2>1
  <2>3. path[i].span \in Spans /\ path[i].target.uid \in Uids
    BY <2>2 DEF Phrases, Targets
  <2>4. SpanAt(path, i) = path[i].span /\ UidAt(path, i) = path[i].target.uid
    BY <1>7 DEF SpanAt, UidAt
  <2>5. QED
    BY <1>1, <1>2, <2>3, <2>4
<1>8. QED
  BY <1>5, <1>6, <1>7

\* The costs of each step are numbers.
LEMMA StepCosts ==
  ASSUME HashIsNat, DataOK, NEW path \in Seq(Phrases), NEW i \in 1..(Len(path) + 1)
  PROVE  DistanceAt(path, i) \in Int /\ ReorderingAt(path, i) \in Int
<1> DEFINE j == i - 1
           s == SpanAt(path, j)
           t == SpanAt(path, i)
           orient == OrientationOf(s, t)
<1>1. i \in 0..(Len(path) + 1) /\ j \in 0..(Len(path) + 1)
  OBVIOUS
<1> HIDE DEF j
<1>2. /\ s[2] \in Int /\ t[1] \in Int
      /\ GetReordering(UidAt(path, j)) \in Weights /\ GetReordering(UidAt(path, i)) \in Weights
  BY <1>1, PathSteps
<1>3. orient \in DOMAIN Orientations
  BY DEF OrientationOf, Orientations
<1> HIDE DEF s, t, orient
<1>4. Abs(t[1] - s[2] - 1) \in Int
  BY <1>2 DEF Abs
<1>5. /\ GetWeight(FromWeights(GetReordering(UidAt(path, j))), orient) \in Int
      /\ GetWeight(ToWeights(GetReordering(UidAt(path, i))), orient) \in Int
  BY <1>2, <1>3, HalvesType, WeightType
<1>6. DistanceAt(path, i) = Abs(t[1] - s[2] - 1)
  BY DEF DistanceAt, s, t, j
<1>7. ReorderingAt(path, i) = GetWeight(FromWeights(GetReordering(UidAt(path, j))), orient)
                              + GetWeight(ToWeights(GetReordering(UidAt(path, i))), orient)
  BY DEF ReorderingAt, orient, s, t, j
<1>8. QED
  BY <1>4, <1>5, <1>6, <1>7

\* What a path with one phrase more keeps, and its new step.
LEMMA PathNext ==
  ASSUME NEW path \in Seq(Phrases), NEW phrase \in Phrases
  PROVE  /\ Append(path, phrase) \in Seq(Phrases) /\ Len(path) \in Nat
         /\ Len(Append(path, phrase)) = Len(path) + 1
         /\ \A i \in 0..Len(path) : /\ SpanAt(Append(path, phrase), i) = SpanAt(path, i)
                                    /\ UidAt(Append(path, phrase), i) = UidAt(path, i)
         /\ SpanAt(Append(path, phrase), Len(path) + 1) = phrase.span
         /\ UidAt(Append(path, phrase), Len(path) + 1) = phrase.target.uid
         /\ \A i \in 1..Len(path) : Append(path, phrase)[i] = path[i]
         /\ Append(path, phrase)[Len(path) + 1] = phrase
<1> DEFINE more == Append(path, phrase)
           n == Len(path)
<1>1. /\ more \in Seq(Phrases) /\ Len(more) = n + 1 /\ n \in Nat
      /\ more[n + 1] = phrase /\ \A i \in 1..n : more[i] = path[i]
  BY AppendProps
<1> HIDE DEF more
<1>2. ASSUME NEW i \in 0..n PROVE SpanAt(more, i) = SpanAt(path, i) /\ UidAt(more, i) = UidAt(path, i)
  <2>1. CASE i = 0
    BY <2>1 DEF SpanAt, UidAt
  <2>2. CASE i # 0
    <3>1. i \in 1..n /\ i # n + 1 /\ i # Len(more) + 1
      BY <1>1, <2>2
    <3>2. more[i] = path[i]
      BY <1>1, <3>1
    <3>3. QED
      BY <2>2, <3>1, <3>2 DEF SpanAt, UidAt
  <2>3. QED
    BY <2>1, <2>2
<1>3. SpanAt(more, n + 1) = phrase.span /\ UidAt(more, n + 1) = phrase.target.uid
  <2>1. n + 1 # 0 /\ n + 1 # Len(more) + 1
    BY <1>1
  <2>2. QED
    BY <1>1, <2>1 DEF SpanAt, UidAt
<1>4. QED
  BY <1>1, <1>2, <1>3 DEF more

\* The steps of two paths that agree on them.
LEMMA SameSteps ==
  ASSUME NEW path, NEW more, NEW n \in Nat,
         \A i \in 0..n : SpanAt(more, i) = SpanAt(path, i) /\ UidAt(more, i) = UidAt(path, i),
         NEW i \in 1..n
  PROVE  DistanceAt(more, i) = DistanceAt(path, i) /\ ReorderingAt(more, i) = ReorderingAt(path, i)
<1>1. i \in 0..n /\ i - 1 \in 0..n
  OBVIOUS
<1>2. /\ SpanAt(more, i) = SpanAt(path, i) /\ UidAt(more, i) = UidAt(path, i)
      /\ SpanAt(more, i - 1) = SpanAt(path, i - 1) /\ UidAt(more, i - 1) = UidAt(path, i - 1)
  BY <1>1
<1>3. QED
  BY <1>2 DEF DistanceAt, ReorderingAt

\* The sums of a path's parts, of all its steps and of one less.
LEMMA PartsExtended ==
  ASSUME HashIsNat, DataOK, NEW path \in Seq(Phrases), NEW more \in Seq(Phrases),
         NEW n \in Nat, n <= Len(path), n + 1 <= Len(more) + 1,
         \A i \in 0..n : SpanAt(more, i) = SpanAt(path, i) /\ UidAt(more, i) = UidAt(path, i)
  PROVE  /\ DistScore(more, n + 1) = DistScore(path, n) + DistanceAt(more, n + 1)
         /\ RmScore(more, n + 1) = RmScore(path, n) + ReorderingAt(more, n + 1)
         /\ DistScore(path, n) \in Int /\ RmScore(path, n) \in Int
         /\ DistanceAt(more, n + 1) \in Int /\ ReorderingAt(more, n + 1) \in Int
<1> DEFINE m == n + 1
           fd == [i \in 1..n |-> DistanceAt(path, i)]
           gd == [i \in 1..(n + 1) |-> DistanceAt(more, i)]
           fr == [i \in 1..n |-> ReorderingAt(path, i)]
           gr == [i \in 1..(n + 1) |-> ReorderingAt(more, i)]
<1>1. \A i \in 1..m : DistanceAt(more, i) \in Int /\ ReorderingAt(more, i) \in Int
  <2>1. \A i \in 1..m : i \in 1..(Len(more) + 1)
    OBVIOUS
  <2>2. QED
    BY <2>1, StepCosts
<1>2. \A i \in 1..n : DistanceAt(more, i) = DistanceAt(path, i) /\ ReorderingAt(more, i) = ReorderingAt(path, i)
  BY SameSteps
<1>3. IsExtended(n, fd, gd) /\ IsExtended(n, fr, gr)
  BY <1>1, <1>2 DEF IsExtended
<1>4. /\ SumFunction(gd) = SumFunction(fd) + gd[n + 1] /\ SumFunction(fd) \in Int /\ gd[n + 1] \in Int
      /\ SumFunction(gr) = SumFunction(fr) + gr[n + 1] /\ SumFunction(fr) \in Int /\ gr[n + 1] \in Int
  <2> HIDE DEF fd, gd, fr, gr
  <2>1. QED
    BY <1>3, SumExtended
<1>5. gd[n + 1] = DistanceAt(more, n + 1) /\ gr[n + 1] = ReorderingAt(more, n + 1)
  OBVIOUS
<1>6. /\ DistScore(more, n + 1) = SumFunction(gd) /\ DistScore(path, n) = SumFunction(fd)
      /\ RmScore(more, n + 1) = SumFunction(gr) /\ RmScore(path, n) = SumFunction(fr)
  BY DEF DistScore, RmScore
<1> HIDE DEF fd, gd, fr, gr
<1>7. QED
  BY <1>4, <1>5, <1>6

\* The weights of the phrases.
LEMMA TmExtended ==
  ASSUME NEW path \in Seq(Phrases), NEW phrase \in Phrases
  PROVE  /\ TmScore(Append(path, phrase)) = TmScore(path) + phrase.target.weight
         /\ TmScore(path) \in Int /\ phrase.target.weight \in Int
<1> DEFINE n == Len(path)
           more == Append(path, phrase)
           f == [i \in 1..Len(path) |-> path[i].target.weight]
           g == [i \in 1..Len(more) |-> more[i].target.weight]
<1>1. /\ more \in Seq(Phrases) /\ n \in Nat /\ Len(more) = n + 1
      /\ more[n + 1] = phrase /\ \A i \in 1..n : more[i] = path[i]
  BY AppendProps
<1>2. \A p \in Phrases : p.target.weight \in Int
  BY DEF Phrases, Targets
<1> HIDE DEF more
<1>3. \A i \in 1..(n + 1) : more[i].target.weight \in Int
  BY <1>1, <1>2
<1>4. IsExtended(n, f, g)
  BY <1>1, <1>3 DEF IsExtended
<1>5. g[n + 1] = phrase.target.weight
  BY <1>1
<1>6. TmScore(more) = SumFunction(g) /\ TmScore(path) = SumFunction(f)
  BY DEF TmScore
<1> HIDE DEF f, g
<1>7. QED
  BY <1>4, <1>5, <1>6, SumExtended DEF more

\* The words of a path are words, and the score of the words is a number.
LEMMA WordsOfType ==
  ASSUME DataOK, NEW path \in Seq(Phrases)
  PROVE  WordsOf(path) \in Seq(Words)
<1> DEFINE seqs == [i \in 1..Len(path) |-> path[i].target.words]
<1>1. \A p \in Phrases : p.target.words \in Seq(Words)
  BY DEF Phrases, Targets
<1>2. Len(path) \in Nat /\ seqs \in [1..Len(path) -> Seq(Words)]
  BY <1>1
<1>3. seqs \in Seq(Seq(Words))
  BY <1>2
<1> HIDE DEF seqs
<1>4. FlattenSeq(seqs) \in Seq(Words)
  BY <1>3, FlattenProps
<1>5. BeginTag \in Seq(Words)
  BY PhrasesAssumption
<1>6. QED
  BY <1>4, <1>5 DEF WordsOf, seqs

\* The score of the words of a path, that of the root being nothing.
WordsScore(path) == IF path = <<>> THEN 0 ELSE LmScore(WordsOf(path))

\* The parts of the score of a whole path.
LEMMA DerivationNow ==
  ASSUME HashIsNat, DataOK, NEW path \in Seq(Phrases)
  PROVE  DerivationScore(path, Len(path)) =
           WordsScore(path) + TmScore(path) - inst.params.penalty * DistScore(path, Len(path))
             + RmScore(path, Len(path))
<1>1. inst.params.penalty \in Int
  BY SentenceOK DEF DataOK, InstanceFields, DecoderParams
<1>2. CASE path = <<>>
  <2>1. Len(path) = 0 /\ 1..0 = {}
    BY <1>2
  <2>2. TmScore(path) = 0 /\ DistScore(path, 0) = 0 /\ RmScore(path, 0) = 0
    <3> DEFINE ft == [i \in 1..0 |-> path[i].target.weight]
               fd == [i \in 1..0 |-> DistanceAt(path, i)]
               fr == [i \in 1..0 |-> ReorderingAt(path, i)]
    <3>1. DOMAIN ft = {} /\ DOMAIN fd = {} /\ DOMAIN fr = {}
      BY <2>1
    <3>2. TmScore(path) = SumFunction(ft) /\ DistScore(path, 0) = SumFunction(fd) /\ RmScore(path, 0) = SumFunction(fr)
      BY <2>1 DEF TmScore, DistScore, RmScore
    <3> HIDE DEF ft, fd, fr
    <3>3. SumFunction(ft) = 0 /\ SumFunction(fd) = 0 /\ SumFunction(fr) = 0
      BY <3>1, SumEmpty DEF SumFunction
    <3>4. QED
      BY <3>2, <3>3
  <2>3. DerivationScore(path, 0) = 0
    BY DerivationScoreParts
  <2>4. WordsScore(path) = 0
    BY <1>2 DEF WordsScore
  <2>5. QED
    BY <1>1, <2>1, <2>2, <2>3, <2>4
<1>3. CASE path # <<>>
  <2> DEFINE n == Len(path)
  <2>1. n \in Nat /\ n # 0 /\ ~(n > n)
    BY <1>3
  <2>2. WordsOf(path) \in Seq(Words)
    BY WordsOfType
  <2>3. WordsOf(path) \o <<>> = WordsOf(path)
    BY <2>2
  <2> HIDE DEF n
  <2>4. DerivationScore(path, n) =
          LmScore(WordsOf(path)) + TmScore(path) - inst.params.penalty * DistScore(path, n) + RmScore(path, n)
    BY <2>1, <2>3, DerivationScoreParts DEF n
  <2>5. QED
    BY <1>3, <2>4 DEF n, WordsScore
<1>4. QED
  BY <1>2, <1>3

\* The step from a path's last span to the next one, as the search sees it.
LEMMA OrientationIs ==
  ASSUME NEW a \in Int, NEW b \in Int, NEW c \in Int, NEW d \in Int, a <= b, c <= d, b < c \/ d < a
  PROVE  GetReorderingOrientation(a, b, c, d) = OrientationOf(<<a, b>>, <<c, d>>)
<1>1. CASE b < c
  BY <1>1 DEF GetReorderingOrientation, OrientationOf
<1>2. CASE d < a
  BY <1>2 DEF GetReorderingOrientation, OrientationOf
<1>3. QED
  BY <1>1, <1>2

\* What a state knows of its derivation.
IsScored(s) ==
  /\ SpanAt(s.path, Len(s.path)) = <<s.begin, s.end>>
  /\ s.from = FromWeights(GetReordering(UidAt(s.path, Len(s.path))))
  /\ s.history = LastWords(s.frame, LmMax - 1)
  /\ LastWords(s.frame, LmMax - 1) = LastWords(WordsOf(s.path), LmMax - 1)
  /\ s.lmLevel = MinOf((IF s.path = <<>> THEN 0 ELSE Len(WordsOf(s.path))) + 1, LmMax)
  /\ s.partial = DerivationScore(s.path, Len(s.path))
  /\ s.level > 0 => s.total = s.partial + FutureCost(s.covered)

\* The costs that a state adds are those of the next step.
LEMMA NextStepCosts ==
  ASSUME HashIsNat, DataOK, params = inst.params, NEW s \in States, IsScored(s),
         s.begin <= s.end, NEW path, NEW c \in Int, NEW d \in Int, c <= d,
         s.end < c \/ d < s.begin,
         SpanAt(path, Len(s.path)) = SpanAt(s.path, Len(s.path)),
         UidAt(path, Len(s.path)) = UidAt(s.path, Len(s.path)),
         SpanAt(path, Len(s.path) + 1) = <<c, d>>, NEW weights,
         weights = GetReordering(UidAt(path, Len(s.path) + 1))
  PROVE  /\ LinDistCost(s, c) = - (inst.params.penalty * DistanceAt(path, Len(s.path) + 1))
         /\ LexRmCost(s, c, d, weights) = ReorderingAt(path, Len(s.path) + 1)
<1> DEFINE n == Len(s.path)
           m == n + 1
           a == s.begin
           b == s.end
           dist == Abs(c - b - 1)
           orient == OrientationOf(<<a, b>>, <<c, d>>)
<1>1. /\ n \in Nat /\ m - 1 = n /\ a \in Int /\ b \in Int
      /\ inst.params.penalty \in Int
  <2>1. s.path \in Seq(Phrases) /\ s.begin \in Int /\ s.end \in Int
    BY DEF States
  <2>2. inst.params.penalty \in Int
    BY SentenceOK DEF DataOK, InstanceFields, DecoderParams
  <2>3. QED
    BY <2>1, <2>2
<1>2. /\ SpanAt(path, n) = <<a, b>> /\ SpanAt(path, m) = <<c, d>>
      /\ s.from = FromWeights(GetReordering(UidAt(path, n)))
      /\ weights = GetReordering(UidAt(path, m))
  BY DEF IsScored
<1>3. GetReorderingOrientation(a, b, c, d) = orient
  BY <1>1, OrientationIs
<1>4. LinDistCost(s, c) = inst.params.penalty * (- dist)
  BY DEF LinDistCost
<1>5. LexRmCost(s, c, d, weights) = GetWeight(s.from, orient) + GetWeight(ToWeights(weights), orient)
  BY <1>3 DEF LexRmCost
<1> HIDE DEF m, n
<1>6. DistanceAt(path, m) = dist
  BY <1>1, <1>2 DEF DistanceAt
<1>7. ReorderingAt(path, m) = GetWeight(s.from, orient) + GetWeight(ToWeights(weights), orient)
  BY <1>1, <1>2 DEF ReorderingAt
<1>8. dist \in Int
  BY <1>1 DEF Abs
<1> HIDE DEF dist, orient, a, b
<1>9. \A x, y \in Int : x * (- y) = - (x * y)
  OBVIOUS
<1>10. LinDistCost(s, c) = - (inst.params.penalty * DistanceAt(path, m))
  BY <1>1, <1>4, <1>6, <1>8, <1>9
<1>11. QED
  BY <1>5, <1>7, <1>10 DEF m, n

\* The query for the words after a state completes the score of them all.
LEMMA NextWords ==
  ASSUME DataOK, LmClosed(inst.lm), TagsAreWords, NEW s \in States, IsScored(s), NEW t \in Seq(Words)
  PROVE  /\ LmScore(WordsOf(s.path) \o t) = WordsScore(s.path) + LmQuery(s, t).cost
         /\ LmQuery(s, t).level = MinOf(Len(WordsOf(s.path) \o t) + 1, LmMax)
         /\ WordsScore(s.path) \in Int /\ LmQuery(s, t).cost \in Int
         /\ LastWords(PushBack(s.frame, t), LmMax - 1) = LastWords(WordsOf(s.path) \o t, LmMax - 1)
<1> DEFINE w == WordsOf(s.path)
           fresh == s.path = <<>>
<1>1. s.frame \in Seq(Words) /\ s.path \in Seq(Phrases) /\ InstanceFields(inst)
  BY SentenceOK DEF DataOK, States
<1>2. w \in Seq(Words)
  BY <1>1, WordsOfType
<1>3. LastWords(s.frame, LmMax - 1) = LastWords(w, LmMax - 1)
  BY DEF IsScored
<1>4. s.lmLevel = MinOf((IF fresh THEN 0 ELSE Len(w)) + 1, LmMax)
  BY DEF IsScored
<1>5. fresh => Len(w) < LmMax
  <2>1. ASSUME fresh PROVE w = BeginTag
    <3> DEFINE seqs == [i \in 1..Len(s.path) |-> s.path[i].target.words]
    <3>1. seqs = <<>>
      BY <2>1
    <3>2. FlattenSeq(<<>>) = <<>>
      BY DEF FlattenSeq
    <3>3. BeginTag \o <<>> = BeginTag
      BY PhrasesAssumption
    <3> HIDE DEF seqs
    <3>4. w = BeginTag \o FlattenSeq(seqs)
      BY DEF WordsOf, seqs
    <3>5. QED
      BY <3>1, <3>2, <3>3, <3>4
  <2>2. LmMax \in Nat /\ LmMax > 1
    BY LmMaxAssumption
  <2>3. QED
    BY <2>1, <2>2 DEF TagsAreWords
<1>6. WordsScore(s.path) = IF fresh THEN 0 ELSE LmScore(w)
  BY DEF WordsScore
<1>7. fresh \in BOOLEAN
  OBVIOUS
<1> HIDE DEF w, fresh
<1>8. /\ LmScore(w \o t) = (IF fresh THEN 0 ELSE LmScore(w)) + LmQuery(s, t).cost
      /\ LmQuery(s, t).level = MinOf(Len(w \o t) + 1, LmMax)
      /\ LmScore(w \o t) \in Int /\ LmScore(w) \in Int /\ LmQuery(s, t).cost \in Int
  BY <1>1, <1>2, <1>3, <1>4, <1>5, <1>7, LmQueryScore
<1>9. LastWords(PushBack(s.frame, t), LmMax - 1) = LastWords(w \o t, LmMax - 1)
  BY <1>1, <1>2, <1>3, PushBackLast
<1>10. WordsScore(s.path) \in Int
  BY <1>6, <1>8
<1>11. QED
  BY <1>6, <1>8, <1>9, <1>10 DEF w

\* A phrase makes a state whose score is that of its derivation.
LEMMA PhraseScore ==
  ASSUME HashIsNat, DataOK, LmClosed(inst.lm), TagsAreWords, params = inst.params,
         rmQuery = [uid \in QueriedUids |-> GetReordering(uid)],
         NEW l \in Nat, l < NumWords, NEW s \in StatesOf(l), IsScored(s), NEW fncs \in Nat,
         NEW span \in Spans, (span[1]..span[2]) \cap s.covered = {}, Length(span) <= inst.maxPhraseLen,
         NEW k \in 1..Len(sentData[span].targets)
  PROVE  IsScored(PhraseState(s, fncs, span, sentData[span].targets[k]))
<1> DEFINE target == sentData[span].targets[k]
           covered == s.covered \cup span[1]..span[2]
           lm == LmQuery(s, target.words)
           weights == rmQuery[target.uid]
           frame == PushBack(s.frame, target.words)
           dist == LinDistCost(s, span[1])
           rm == LexRmCost(s, span[1], span[2], weights)
           partial == s.partial + target.weight + lm.cost + dist + rm
           phrase == [span |-> span, target |-> target]
           path == s.path
           more == Append(path, phrase)
           n == Len(path)
           p == inst.params.penalty
           new == PhraseState(s, fncs, span, target)
<1>1. /\ TablesInv /\ NumWords \in Nat
      /\ span[1] \in Nat /\ span[2] \in Nat /\ span[1] <= span[2] /\ span[2] < NumWords
      /\ span = <<span[1], span[2]>> /\ p \in Int
  BY SentenceOK DEF DataOK, InstanceFields, DecoderParams
<1>2. s \in States /\ path \in Seq(Phrases) /\ s.begin \in Int /\ s.end \in Int
  BY DEF StatesOf, States
<1>3. target \in Targets /\ target.uid \in QueriedUids
  BY <1>1, TargetType DEF DataOK
<1>4. target.words \in Seq(Words) /\ target.weight \in Int
  BY <1>3 DEF Targets
<1>5. phrase \in Phrases /\ phrase.span = span /\ phrase.target = target
  <2>1. phrase \in [span : Spans, target : Targets] /\ phrase.span = span /\ phrase.target = target
    BY <1>3
  <2> HIDE DEF phrase
  <2>2. QED
    BY <2>1 DEF Phrases, target
<1>6. weights = GetReordering(target.uid)
  BY <1>3
<1>7. /\ new.begin = span[1] /\ new.end = span[2] /\ new.covered = covered /\ new.path = more
      /\ new.frame = frame /\ new.lmLevel = lm.level /\ new.from = FromWeights(weights)
      /\ new.partial = partial /\ new.total = partial + FutureCost(covered)
      /\ new.history = LastWords(new.frame, LmMax - 1)
  BY DEF PhraseState
<1> HIDE DEF target, phrase, weights
<1>8. /\ LmScore(WordsOf(path) \o target.words) = WordsScore(path) + lm.cost
      /\ lm.level = MinOf(Len(WordsOf(path) \o target.words) + 1, LmMax)
      /\ WordsScore(path) \in Int /\ lm.cost \in Int
      /\ LastWords(frame, LmMax - 1) = LastWords(WordsOf(path) \o target.words, LmMax - 1)
  BY <1>2, <1>4, NextWords
<1>9. WordsOf(more) = WordsOf(path) \o target.words
  BY <1>2, <1>5, WordsOfAppend
<1>10. /\ more \in Seq(Phrases) /\ n \in Nat /\ Len(more) = n + 1
       /\ \A i \in 0..n : SpanAt(more, i) = SpanAt(path, i) /\ UidAt(more, i) = UidAt(path, i)
       /\ SpanAt(more, n + 1) = span /\ UidAt(more, n + 1) = target.uid
  BY <1>2, <1>5, PathNext
<1>11. more # <<>>
  BY <1>10
<1> HIDE DEF more, frame
<1>12. s.begin <= s.end /\ (s.end < span[1] \/ span[2] < s.begin)
  <2> DEFINE a == s.begin
             b == s.end
             c == span[1]
             d == span[2]
  <2>1. -1 <= a /\ a <= b /\ b < NumWords /\ (a..b) \cap Positions \subseteq s.covered
    BY <1>1 DEF StatesOf
  <2>2. a \in Int /\ b \in Int /\ c \in Nat /\ d \in Nat /\ c <= d /\ d < NumWords
    BY <1>1, <1>2
  <2>3. \A i : ~(i \in c..d /\ i \in s.covered)
    OBVIOUS
  <2> HIDE DEF a, b, c, d
  <2>4. \A i \in c..d : i \in Positions
    <3>1. NumWords \in Nat
      BY <1>1
    <3>2. \A i \in c..d : i \in 0..(NumWords - 1)
      BY <2>2, <3>1
    <3>3. QED
      BY <3>2 DEF Positions
  <2>5. \A i \in c..d : ~(i \in a..b)
    BY <2>1, <2>3, <2>4
  <2>6. c \in c..d /\ (a \in c..d \/ a < c \/ d < a)
    BY <2>2
  <2>7. b < c \/ d < a
    <3>1. ~(c \in a..b)
      BY <2>5, <2>6
    <3>2. a \in c..d => ~(a \in a..b)
      BY <2>5
    <3>3. a \in a..b
      BY <2>1, <2>2
    <3>4. QED
      BY <2>1, <2>2, <2>6, <3>1, <3>2, <3>3
  <2>8. QED
    BY <2>1, <2>7 DEF a, b, c, d
<1>13. dist = - (p * DistanceAt(more, n + 1)) /\ rm = ReorderingAt(more, n + 1)
  <2>1. /\ SpanAt(more, n) = SpanAt(path, n) /\ UidAt(more, n) = UidAt(path, n)
        /\ SpanAt(more, n + 1) = <<span[1], span[2]>> /\ span[1] \in Int /\ span[2] \in Int
        /\ weights = GetReordering(UidAt(more, n + 1))
    <3>1. span = <<span[1], span[2]>> /\ span[1] \in Int /\ span[2] \in Int
      BY <1>1
    <3>2. SpanAt(more, n + 1) = span /\ weights = GetReordering(UidAt(more, n + 1))
      BY <1>6, <1>10
    <3>3. SpanAt(more, n) = SpanAt(path, n) /\ UidAt(more, n) = UidAt(path, n)
      <4>1. n \in 0..n
        BY <1>10
      <4>2. QED
        BY <1>10, <4>1
    <3>4. QED
      BY <3>1, <3>2, <3>3
  <2> DEFINE c == span[1]
             d == span[2]
  <2>2. /\ c \in Int /\ d \in Int /\ c <= d /\ (s.end < c \/ d < s.begin)
        /\ s.begin <= s.end /\ SpanAt(more, Len(s.path) + 1) = <<c, d>>
        /\ SpanAt(more, Len(s.path)) = SpanAt(s.path, Len(s.path))
        /\ UidAt(more, Len(s.path)) = UidAt(s.path, Len(s.path))
        /\ weights = GetReordering(UidAt(more, Len(s.path) + 1))
    BY <1>1, <1>12, <2>1
  <2> HIDE DEF c, d
  <2>3. s \in States /\ IsScored(s) /\ HashIsNat /\ DataOK /\ params = inst.params
    BY <1>2
  <2> HIDE DEF weights, more
  <2>4. /\ LinDistCost(s, c) = - (inst.params.penalty * DistanceAt(more, Len(s.path) + 1))
        /\ LexRmCost(s, c, d, weights) = ReorderingAt(more, Len(s.path) + 1)
    BY ONLY <2>2, <2>3, NextStepCosts
  <2>5. QED
    BY <2>4 DEF c, d
<1>14. /\ DistScore(more, n + 1) = DistScore(path, n) + DistanceAt(more, n + 1)
       /\ RmScore(more, n + 1) = RmScore(path, n) + ReorderingAt(more, n + 1)
       /\ DistScore(path, n) \in Int /\ RmScore(path, n) \in Int
       /\ DistanceAt(more, n + 1) \in Int /\ ReorderingAt(more, n + 1) \in Int
  <2>1. n <= Len(path) /\ n + 1 <= Len(more) + 1
    BY <1>10
  <2> HIDE DEF n
  <2>2. QED
    BY <1>2, <1>10, <2>1, PartsExtended
<1>15. /\ TmScore(more) = TmScore(path) + target.weight /\ TmScore(path) \in Int
  BY <1>2, <1>5, TmExtended DEF more
<1>16. partial = DerivationScore(more, Len(more))
  <2> DEFINE m == n + 1
             D == DistanceAt(more, m)
             R == ReorderingAt(more, m)
             ds == DistScore(path, n)
             rs == RmScore(path, n)
             ws == WordsScore(path)
             ts == TmScore(path)
             cost == lm.cost
             weight == target.weight
  <2>1. s.partial = ws + ts - p * ds + rs
    BY <1>2, DerivationNow DEF IsScored
  <2>2. DerivationScore(more, m) = LmScore(WordsOf(more)) + TmScore(more) - p * DistScore(more, m) + RmScore(more, m)
    BY <1>10, <1>11, DerivationNow DEF WordsScore
  <2>3. DerivationScore(more, m) = (ws + cost) + (ts + weight) - p * (ds + D) + (rs + R)
    BY <1>8, <1>9, <1>14, <1>15, <2>2
  <2>4. partial = (ws + ts - p * ds + rs) + weight + cost + (- (p * D)) + R
    BY <1>13, <2>1
  <2>5. /\ ws \in Int /\ ts \in Int /\ p \in Int /\ ds \in Int /\ rs \in Int
        /\ weight \in Int /\ cost \in Int /\ D \in Int /\ R \in Int
    BY <1>1, <1>4, <1>8, <1>14, <1>15
  <2> HIDE DEF D, R, ds, rs, ws, ts, cost, weight, p, partial, m
  <2> DEFINE x == p * ds
             y == p * D
  <2>6. p * (ds + D) = x + y
    BY <2>5
  <2>x. x \in Int /\ y \in Int
    BY <2>5
  <2> HIDE DEF x, y
  <2>7. (ws + ts - x + rs) + weight + cost + (- y) + R = (ws + cost) + (ts + weight) - (x + y) + (rs + R)
    BY <2>5, <2>x
  <2>8. partial = DerivationScore(more, m)
    BY <2>3, <2>4, <2>6, <2>7 DEF x, y
  <2>9. QED
    BY <1>10, <2>8 DEF m
<1> HIDE DEF partial, new
<1>17. SpanAt(new.path, Len(new.path)) = <<new.begin, new.end>>
  BY <1>1, <1>7, <1>10
<1>18. new.from = FromWeights(GetReordering(UidAt(new.path, Len(new.path))))
  BY <1>6, <1>7, <1>10
<1>19. LastWords(new.frame, LmMax - 1) = LastWords(WordsOf(new.path), LmMax - 1)
  BY <1>7, <1>8, <1>9
<1>20. new.lmLevel = MinOf((IF new.path = <<>> THEN 0 ELSE Len(WordsOf(new.path))) + 1, LmMax)
  BY <1>7, <1>8, <1>9, <1>11
<1>21. IsScored(new)
  BY <1>7, <1>16, <1>17, <1>18, <1>19, <1>20 DEF IsScored
<1>22. QED
  BY <1>21 DEF new, target

\* The entry for </s> is the one that a lookup of its pair gives.
LEMMA EndWeights ==
  ASSUME HashIsNat, DataOK
  PROVE  /\ RmEntry(EndTag, EndTag) = GetReordering(<<EndTag, EndTag>>)
         /\ RmEntry(BeginTag, BeginTag) = GetReordering(<<BeginTag, BeginTag>>)
<1>1. /\ RmEntry(EndTag, EndTag) \in Weights /\ RmEntry(BeginTag, BeginTag) \in Weights
  BY GetReorderingType DEF DataOK, TablesInv, Specials
<1>2. NoElement \notin Weights
  BY NoElementAssumption DEF Weights
<1>3. QED
  BY <1>1, <1>2 DEF RmEntry, GetReordering

\* The state for </s> has the score of the whole derivation.
LEMMA EndScore ==
  ASSUME HashIsNat, DataOK, LmClosed(inst.lm), TagsAreWords, params = inst.params,
         NEW s \in StatesOf(NumWords), IsScored(s)
  PROVE  /\ EndState(s).path = s.path /\ EndState(s).covered = s.covered
         /\ EndState(s).partial = DerivationScore(s.path, Len(s.path) + 1)
         /\ EndState(s).total = EndState(s).partial
<1> DEFINE lm == LmQuery(s, EndTag)
           weights == RmEntry(EndTag, EndTag)
           N == NumWords
           dist == LinDistCost(s, N)
           rm == LexRmCost(s, N, N, weights)
           partial == s.partial + lm.cost + dist + rm
           path == s.path
           n == Len(path)
           m == n + 1
           p == inst.params.penalty
           new == EndState(s)
           D == DistanceAt(path, m)
           R == ReorderingAt(path, m)
           ds == DistScore(path, n)
           rs == RmScore(path, n)
           ws == WordsScore(path)
           ts == TmScore(path)
           cost == lm.cost
<1>1. /\ TablesInv /\ NumWords \in Nat /\ p \in Int /\ EndTag \in Seq(Words)
  BY SentenceOK, PhrasesAssumption DEF DataOK, InstanceFields, DecoderParams
<1>2. s \in States /\ path \in Seq(Phrases) /\ s.begin \in Int /\ s.end \in Int /\ n \in Nat
  BY DEF StatesOf, States
<1>3. weights = GetReordering(<<EndTag, EndTag>>)
  BY EndWeights
<1>4. new.path = path /\ new.covered = s.covered /\ new.partial = partial /\ new.total = partial
  BY <1>2 DEF EndState, States
<1>5. s.begin <= s.end /\ s.end < N
  BY <1>1 DEF StatesOf
<1>6. m # 0 /\ m = Len(path) + 1 /\ m > Len(path) /\ n <= Len(path) /\ m <= Len(path) + 1
  BY <1>2
<1>7. SpanAt(path, m) = <<N, N>> /\ UidAt(path, m) = <<EndTag, EndTag>>
  BY <1>6 DEF SpanAt, UidAt
<1> HIDE DEF new, weights, N
<1>8. dist = - (p * D) /\ rm = R
  <2>1. N \in Int /\ N <= N /\ (s.end < N \/ N < s.begin)
    BY <1>1, <1>5 DEF N
  <2>2. weights = GetReordering(UidAt(path, m)) /\ SpanAt(path, Len(s.path) + 1) = <<N, N>>
    BY <1>3, <1>7
  <2>3. /\ s \in States /\ IsScored(s) /\ HashIsNat /\ DataOK /\ params = inst.params /\ s.begin <= s.end
        /\ SpanAt(path, Len(s.path)) = SpanAt(s.path, Len(s.path))
        /\ UidAt(path, Len(s.path)) = UidAt(s.path, Len(s.path))
    BY <1>2, <1>5
  <2>4. /\ LinDistCost(s, N) = - (inst.params.penalty * DistanceAt(path, Len(s.path) + 1))
        /\ LexRmCost(s, N, N, weights) = ReorderingAt(path, Len(s.path) + 1)
    BY ONLY <2>1, <2>2, <2>3, NextStepCosts
  <2>5. QED
    BY <2>4
<1>9. /\ LmScore(WordsOf(path) \o EndTag) = ws + cost /\ ws \in Int /\ cost \in Int
  BY <1>1, <1>2, NextWords
<1>10. /\ DistScore(path, m) = ds + D /\ RmScore(path, m) = rs + R
       /\ ds \in Int /\ rs \in Int /\ D \in Int /\ R \in Int
  <2>1. \A i \in 0..n : SpanAt(path, i) = SpanAt(path, i) /\ UidAt(path, i) = UidAt(path, i)
    OBVIOUS
  <2> HIDE DEF n
  <2>2. /\ DistScore(path, n + 1) = DistScore(path, n) + DistanceAt(path, n + 1)
        /\ RmScore(path, n + 1) = RmScore(path, n) + ReorderingAt(path, n + 1)
        /\ DistScore(path, n) \in Int /\ RmScore(path, n) \in Int
        /\ DistanceAt(path, n + 1) \in Int /\ ReorderingAt(path, n + 1) \in Int
    BY <1>2, <1>6, <2>1, PartsExtended
  <2>3. QED
    BY <2>2
<1>11. ts \in Int
  <2> DEFINE f == [i \in 1..Len(path) |-> path[i].target.weight]
             S == 1..n
  <2>1. \A q \in Phrases : q.target.weight \in Int
    BY DEF Phrases, Targets
  <2>2. IsFiniteSet(S) /\ DOMAIN f = S /\ \A i \in S : f[i] \in Int
    <3>1. DOMAIN f = S /\ \A i \in S : f[i] \in Int
      BY <1>2, <2>1
    <3>2. IsFiniteSet(1..n)
      BY <1>2, FS_Interval
    <3>3. QED
      BY <3>1, <3>2
  <2>3. ts = SumFunctionOnSet(f, S)
    BY <2>2 DEF TmScore, SumFunction
  <2> HIDE DEF f, S, ts
  <2>4. QED
    BY <2>2, <2>3, SumType
<1>12. s.partial = ws + ts - p * ds + rs
  BY <1>2, DerivationNow DEF IsScored
<1>13. DerivationScore(path, m) = LmScore(WordsOf(path) \o EndTag) + ts - p * DistScore(path, m) + RmScore(path, m)
  <2> HIDE DEF m, ts
  <2>1. QED
    BY <1>6, DerivationScoreParts DEF ts
<1>14. DerivationScore(path, m) = (ws + cost) + ts - p * (ds + D) + (rs + R)
  BY <1>9, <1>10, <1>11, <1>13
<1>15. partial = (ws + ts - p * ds + rs) + cost + (- (p * D)) + R
  BY <1>8, <1>12
<1>16. partial = DerivationScore(path, m)
  <2> HIDE DEF D, R, ds, rs, ws, ts, cost, p, partial, m
  <2> DEFINE x == p * ds
             y == p * D
  <2>1. p * (ds + D) = x + y /\ x \in Int /\ y \in Int
    BY <1>1, <1>10
  <2> HIDE DEF x, y
  <2>2. (ws + ts - x + rs) + cost + (- y) + R = (ws + cost) + ts - (x + y) + (rs + R)
    BY <1>9, <1>10, <1>11, <2>1
  <2>3. QED
    BY <1>14, <1>15, <2>1, <2>2 DEF x, y
<1>17. QED
  BY <1>4, <1>16 DEF new

\* The root, before any phrase.
LEMMA RootScore ==
  ASSUME HashIsNat, DataOK, TagsAreWords
  PROVE  IsScored(RootState) /\ RootState.path = <<>> /\ RootState.partial = DerivationScore(<<>>, 0)
<1>1. /\ RootState.path = <<>> /\ RootState.begin = -1 /\ RootState.end = -1 /\ RootState.level = 0
      /\ RootState.frame = BeginTag /\ RootState.lmLevel = 1 /\ RootState.partial = 0
      /\ RootState.from = FromWeights(RmEntry(BeginTag, BeginTag))
      /\ RootState.history = LastWords(RootState.frame, LmMax - 1)
  BY DEF RootState
<1>2. Len(<<>>) = 0 /\ SpanAt(<<>>, 0) = <<-1, -1>> /\ UidAt(<<>>, 0) = <<BeginTag, BeginTag>>
  BY DEF SpanAt, UidAt
<1>3. WordsOf(<<>>) = BeginTag
  <2> DEFINE none == <<>>
             seqs == [i \in 1..Len(none) |-> none[i].target.words]
  <2>1. seqs = <<>>
    OBVIOUS
  <2>2. FlattenSeq(<<>>) = <<>>
    BY DEF FlattenSeq
  <2>3. BeginTag \o <<>> = BeginTag
    BY PhrasesAssumption
  <2> HIDE DEF seqs
  <2>4. WordsOf(none) = BeginTag \o FlattenSeq(seqs)
    BY DEF WordsOf, seqs
  <2>5. QED
    BY <2>1, <2>2, <2>3, <2>4
<1>4. DerivationScore(<<>>, 0) = 0
  BY DEF DerivationScore
<1>5. RmEntry(BeginTag, BeginTag) = GetReordering(<<BeginTag, BeginTag>>)
  BY EndWeights
<1>6. MinOf(0 + 1, LmMax) = 1
  BY LmMaxAssumption DEF MinOf
<1> HIDE DEF RootState
<1>7. IsScored(RootState)
  BY <1>1, <1>2, <1>3, <1>4, <1>5, <1>6 DEF IsScored
<1>8. QED
  BY <1>1, <1>4, <1>7

-----------------------------------------------------------------------------
(* The future costs are the best cutting                                     *)

\* The greatest of finitely many numbers, and of one more.
LEMMA MaxOfImage ==
  ASSUME NEW S, IsFiniteSet(S), S # {}, NEW f, \A x \in S : f[x] \in Int
  PROVE  \E max \in Int : /\ MaxSetOf({f[x] : x \in S}) = max
                          /\ \A x \in S : f[x] <= max
                          /\ \E x \in S : max = f[x]
<1> DEFINE T == {f[x] : x \in S}
<1>1. IsFiniteSet(T) /\ T \subseteq Int /\ T # {}
  BY FiniteImage
<1>2. \A x \in S : f[x] \in T
  OBVIOUS
<1>3. \A y \in T : \E x \in S : y = f[x]
  OBVIOUS
<1> HIDE DEF T
<1>4. MaxSetOf(T) \in T /\ \A y \in T : y <= MaxSetOf(T)
  BY <1>1, FiniteMax
<1> DEFINE max == MaxSetOf(T)
<1>5. max \in T /\ \A y \in T : y <= max
  BY <1>4
<1> HIDE DEF max
<1>6. max \in Int /\ (\A x \in S : f[x] <= max) /\ \E x \in S : max = f[x]
  BY <1>1, <1>2, <1>3, <1>5
<1>7. QED
  BY <1>6 DEF max, T

\* The same for a set with one number more.
LEMMA MaxOfOneMore ==
  ASSUME NEW S, IsFiniteSet(S), NEW f, \A x \in S : f[x] \in Int, NEW c \in Int
  PROVE  \E max \in Int : /\ MaxSetOf({c} \cup {f[x] : x \in S}) = max /\ c <= max
                          /\ \A x \in S : f[x] <= max
                          /\ max = c \/ \E x \in S : max = f[x]
<1> DEFINE T == {f[x] : x \in S}
           U == {c} \cup T
<1>1. IsFiniteSet(T) /\ T \subseteq Int
  BY FiniteImage
<1>2. \A x \in S : f[x] \in T
  OBVIOUS
<1>3. \A y \in T : \E x \in S : y = f[x]
  OBVIOUS
<1>4. U = T \cup {c}
  OBVIOUS
<1> HIDE DEF T
<1>5. IsFiniteSet(U) /\ U # {} /\ U \subseteq Int /\ c \in U
  BY <1>1, <1>4, FS_AddElement
<1>6. (\A y \in U : y = c \/ y \in T) /\ (\A y \in T : y \in U)
  OBVIOUS
<1> HIDE DEF U
<1> DEFINE max == MaxSetOf(U)
<1>7. max \in U /\ \A y \in U : y <= max
  BY <1>5, FiniteMax
<1> HIDE DEF max
<1>8. /\ max \in Int /\ c <= max
      /\ \A x \in S : f[x] <= max
      /\ max = c \/ \E x \in S : max = f[x]
  BY <1>2, <1>3, <1>5, <1>6, <1>7
<1>9. QED
  BY <1>8 DEF max, U, T

\* A span's initial cost is a number.
LEMMA InitialCostType ==
  ASSUME HashIsNat, TablesInv, SentDataOK, NEW s \in Spans
  PROVE  InitialCost(s) \in Int
<1>1. Length(s) \in Nat /\ inst.maxPhraseLen \in Nat
  BY SentenceOK
<1>2. sentData[s] = NoElement \/ sentData[s] \in Entries
  BY <1>1, SentDataType
<1>3. QED
  BY <1>2 DEF InitialCost, Entries, UnknownCost

\* The future cost of a span is the best of its own and of its parts'.
LEMMA FutureIsBest ==
  ASSUME HashIsNat, DataOK, IsCost(future), NEW s \in Spans
  PROVE  /\ InitialCost(s) \in Int /\ future[s] \in Int /\ InitialCost(s) <= future[s]
         /\ \A m \in s[1]..(s[2] - 1) : future[<<s[1], m>>] + future[<<m + 1, s[2]>>] <= future[s]
         /\ \/ future[s] = InitialCost(s)
            \/ \E m \in s[1]..(s[2] - 1) : future[s] = future[<<s[1], m>>] + future[<<m + 1, s[2]>>]
<1> DEFINE D == s[1]..(s[2] - 1)
           f == [m \in D |-> future[<<s[1], m>>] + future[<<m + 1, s[2]>>]]
           c == InitialCost(s)
<1>1. c \in Int
  BY InitialCostType DEF DataOK
<1>2. IsFiniteSet(D)
  BY SentenceOK, FS_Interval DEF DataOK
<1>3. \A m \in D : <<s[1], m>> \in Spans /\ <<m + 1, s[2]>> \in Spans
  BY PartsShorter DEF DataOK
<1>4. \A m \in D : f[m] \in Int
  BY <1>3 DEF DataOK
<1>5. future[s] = CostOf(s, future)
  BY DEF IsCost
<1>6. CostOf(s, future) = MaxSetOf({c} \cup {f[m] : m \in D})
  <2>1. {f[m] : m \in D} = {future[<<s[1], m>>] + future[<<m + 1, s[2]>>] : m \in D}
    OBVIOUS
  <2>2. QED
    BY <2>1 DEF CostOf
<1>7. \A m \in D : f[m] = future[<<s[1], m>>] + future[<<m + 1, s[2]>>]
  OBVIOUS
<1> HIDE DEF f, c
<1> HIDE DEF D
<1>8. PICK max \in Int : /\ MaxSetOf({c} \cup {f[x] : x \in D}) = max /\ c <= max
                         /\ \A x \in D : f[x] <= max
                         /\ max = c \/ \E x \in D : max = f[x]
  BY <1>1, <1>2, <1>4, MaxOfOneMore
<1>9. future[s] = max
  BY <1>5, <1>6, <1>8
<1>10. QED
  BY <1>1, <1>7, <1>8, <1>9 DEF c, D

\* It is enough to cut off a first phrase, and to cut the rest as well as can be.
LEMMA FutureLeftCut ==
  ASSUME HashIsNat, DataOK, IsCost(future), NEW s \in Spans
  PROVE  /\ \A m \in s[1]..(s[2] - 1) : InitialCost(<<s[1], m>>) + future[<<m + 1, s[2]>>] <= future[s]
         /\ \/ future[s] = InitialCost(s)
            \/ \E m \in s[1]..(s[2] - 1) : future[s] = InitialCost(<<s[1], m>>) + future[<<m + 1, s[2]>>]
<1> DEFINE Cuts(t) == t[1]..(t[2] - 1)
           Left(t, m) == InitialCost(<<t[1], m>>) + future[<<m + 1, t[2]>>]
           Bounded(t) == \A m \in Cuts(t) : Left(t, m) <= future[t]
           Cut(t) == future[t] = InitialCost(t) \/ \E m \in Cuts(t) : future[t] = Left(t, m)
           rank == [t \in Spans |-> Length(t)]
           P == {t \in Spans : Cut(t)}
<1>0. TablesInv
  BY DEF DataOK
<1>1. \A t \in Spans : \A m \in Cuts(t) :
        /\ <<t[1], m>> \in Spans /\ Length(<<t[1], m>>) < Length(t)
        /\ <<m + 1, t[2]>> \in Spans
  BY <1>0, PartsShorter
<1>2. \A t \in Spans : /\ t = <<t[1], t[2]>> /\ t[1] \in Nat /\ t[2] \in Nat /\ t[1] <= t[2]
                       /\ Length(t) \in Nat
  BY <1>0, SentenceOK
<1>3. \A t \in Spans : InitialCost(t) \in Int /\ future[t] \in Int /\ InitialCost(t) <= future[t]
  BY FutureIsBest
<1>4. \A t \in Spans : \A m \in Cuts(t) : future[<<t[1], m>>] + future[<<m + 1, t[2]>>] <= future[t]
  BY FutureIsBest
<1>5. \A t \in Spans : \A m \in Cuts(t) : Left(t, m) \in Int /\ Left(t, m) <= future[t]
  <2>1. SUFFICES ASSUME NEW t \in Spans, NEW m \in Cuts(t) PROVE Left(t, m) \in Int /\ Left(t, m) <= future[t]
    OBVIOUS
  <2> DEFINE a == <<t[1], m>>
             b == <<m + 1, t[2]>>
  <2>2. a \in Spans /\ b \in Spans
    BY <1>1, <2>1
  <2>3. future[a] + future[b] <= future[t]
    BY <1>4, <2>1
  <2>4. Left(t, m) = InitialCost(a) + future[b]
    OBVIOUS
  <2> HIDE DEF a, b, Left
  <2>5. QED
    BY <1>3, <2>2, <2>3, <2>4
<1>6. ASSUME NEW t \in Spans, \A u \in Spans : rank[u] < rank[t] => u \in P PROVE t \in P
  <2>1. SUFFICES ASSUME future[t] # InitialCost(t) PROVE Cut(t)
    OBVIOUS
  <2>2. PICK m \in Cuts(t) : future[t] = future[<<t[1], m>>] + future[<<m + 1, t[2]>>]
    BY <2>1, FutureIsBest
  <2> DEFINE a == <<t[1], m>>
             b == <<m + 1, t[2]>>
  <2>3. a \in Spans /\ b \in Spans /\ Length(a) < Length(t)
    BY <1>1, <2>2
  <2>4. future[t] = future[a] + future[b]
    BY <2>2
  <2>5. Cut(a)
    BY <1>6, <2>3
  <2>6. CASE future[a] = InitialCost(a)
    <3>1. future[t] = Left(t, m)
      BY <2>4, <2>6
    <3>2. QED
      BY <2>2, <3>1
  <2>7. CASE future[a] # InitialCost(a)
    <3>1. PICK e \in Cuts(a) : future[a] = Left(a, e)
      BY <2>5, <2>7
    <3> DEFINE c == <<t[1], e>>
               d == <<e + 1, m>>
               r == <<e + 1, t[2]>>
    <3>2. /\ e \in t[1]..(m - 1) /\ Left(a, e) = InitialCost(c) + future[d]
      BY <3>1
    <3>3. e \in Cuts(t) /\ m \in Cuts(r) /\ m \in Int /\ e \in Int
      BY <1>2, <2>2, <3>2
    <3>4. c \in Spans /\ d \in Spans /\ r \in Spans
      <4>1. c \in Spans /\ r \in Spans
        BY <1>1, <3>3
      <4>2. <<a[1], e>> \in Spans /\ <<e + 1, a[2]>> \in Spans
        BY <1>1, <2>3, <3>1
      <4>3. QED
        BY <4>1, <4>2
    <3>5. future[d] + future[b] <= future[r]
      <4>1. future[<<r[1], m>>] + future[<<m + 1, r[2]>>] <= future[r]
        BY <1>4, <3>3, <3>4
      <4>2. QED
        BY <4>1
    <3>6. Left(t, e) = InitialCost(c) + future[r]
      OBVIOUS
    <3>7. Left(t, e) <= future[t] /\ Left(t, e) \in Int
      BY <1>5, <3>3
    <3> HIDE DEF a, b, c, d, r, Left
    <3>8. /\ future[a] \in Int /\ future[b] \in Int /\ future[d] \in Int /\ future[r] \in Int
          /\ InitialCost(c) \in Int /\ future[t] \in Int
      BY <1>3, <2>3, <3>4
    <3>9. future[t] = InitialCost(c) + future[d] + future[b]
      BY <2>4, <3>1, <3>2, <3>8
    <3>10. future[t] = Left(t, e)
      BY <3>5, <3>6, <3>7, <3>8, <3>9
    <3>11. QED
      BY <3>3, <3>10
  <2>8. QED
    BY <2>6, <2>7
<1>7. Spans \subseteq P
  <2>1. rank \in [Spans -> Nat]
    BY <1>2
  <2> HIDE DEF P, rank
  <2>2. QED
    BY <1>6, <2>1, RankInduction
<1>8. QED
  BY <1>5, <1>7

\* The uncovered spans, when the first one begins in a and ends in z.
LEMMA FirstUncovered ==
  ASSUME NumWords \in Nat, NEW D \in SUBSET Positions, NEW a \in Nat, NEW z \in Nat, a <= z, z < NumWords,
         0..(a - 1) \subseteq D, \A i \in a..z : i \notin D, z + 1 \in D \cup {NumWords}
  PROVE  /\ <<a, z>> \in UncoveredSpans(D)
         /\ UncoveredSpans(D) \ {<<a, z>>} = UncoveredSpans(D \cup 0..z)
<1> DEFINE N == NumWords
           E == D \cup 0..z
<1>1. \A s \in Spans : /\ s = <<s[1], s[2]>> /\ s[1] \in Nat /\ s[2] \in Nat
                       /\ s[1] <= s[2] /\ s[2] < N
  BY DEF Spans, Positions
<1>2. <<a, z>> \in Spans
  BY DEF Spans, Positions
<1>3. \A i : i \in E <=> i \in D \/ i \in 0..z
  OBVIOUS
<1>4. \A i \in D : i \in Nat /\ i < N
  BY DEF Positions
<1> HIDE DEF E
<1>5. <<a, z>> \in UncoveredSpans(D)
  <2> DEFINE s == <<a, z>>
  <2>1. s[1] = a /\ s[2] = z
    OBVIOUS
  <2>2. a - 1 \in D \cup {-1}
    BY SMTT(30)
  <2> HIDE DEF s
  <2>3. s \in UncoveredSpans(D)
    BY <1>2, <2>1, <2>2 DEF UncoveredSpans, s
  <2>4. QED
    BY <2>3 DEF s
<1>6. ASSUME NEW s \in UncoveredSpans(D), s # <<a, z>> PROVE s \in UncoveredSpans(E)
  <2>1. /\ s \in Spans /\ \A i \in s[1]..s[2] : i \notin D
        /\ s[1] - 1 \in D \cup {-1} /\ s[2] + 1 \in D \cup {N}
    BY DEF UncoveredSpans
  <2> DEFINE b == s[1]
             c == s[2]
  <2>2. /\ s = <<b, c>> /\ b \in Nat /\ c \in Nat /\ b <= c /\ c < N
    BY <1>1, <2>1
  <2>3. (\A i \in b..c : i \notin D) /\ b - 1 \in D \cup {-1} /\ c + 1 \in D \cup {N}
    BY <2>1
  <2> HIDE DEF b, c
  <2>4. b >= a
    <3>1. b \notin D
      BY <2>2, <2>3
    <3>2. QED
      BY <2>2, <3>1
  <2>5. b # a
    <3>1. SUFFICES ASSUME b = a PROVE c = z
      BY <1>6, <2>2
    <3>2. CASE c < z
      <4>1. c + 1 \in a..z /\ c + 1 # N
        BY <2>2, <3>1, <3>2
      <4>2. QED
        BY <2>3, <4>1
    <3>3. CASE c > z
      <4>1. z + 1 \in b..c /\ z + 1 # N
        BY <2>2, <3>1, <3>3
      <4>2. QED
        BY <2>3, <4>1
    <3>4. QED
      BY <2>2, <3>2, <3>3
  <2>6. b > z
    <3>1. SUFFICES ASSUME b <= z PROVE FALSE
      BY <2>2
    <3>2. b - 1 \in a..z /\ b - 1 # -1
      BY <2>2, <2>4, <2>5, <3>1
    <3>3. QED
      BY <2>3, <3>2
  <2>7. \A i \in b..c : i \notin E
    BY <1>3, <2>2, <2>3, <2>6
  <2>8. b - 1 \in E \cup {-1} /\ c + 1 \in E \cup {N}
    BY <1>3, <2>3
  <2>9. QED
    BY <2>1, <2>7, <2>8 DEF UncoveredSpans, b, c
<1>7. ASSUME NEW s \in UncoveredSpans(E) PROVE s \in UncoveredSpans(D) /\ s # <<a, z>>
  <2>1. /\ s \in Spans /\ \A i \in s[1]..s[2] : i \notin E
        /\ s[1] - 1 \in E \cup {-1} /\ s[2] + 1 \in E \cup {N}
    BY DEF UncoveredSpans
  <2> DEFINE b == s[1]
             c == s[2]
  <2>2. /\ s = <<b, c>> /\ b \in Nat /\ c \in Nat /\ b <= c /\ c < N
    BY <1>1, <2>1
  <2>3. (\A i \in b..c : i \notin E) /\ b - 1 \in E \cup {-1} /\ c + 1 \in E \cup {N}
    BY <2>1
  <2>4. b \in b..c
    BY <2>2
  <2> HIDE DEF b, c
  <2>5. b > z
    <3>1. ~(b \in 0..z)
      BY <1>3, <2>3, <2>4
    <3>2. QED
      BY <2>2, <3>1
  <2>6. \A i \in b..c : i \notin D
    BY <1>3, <2>3
  <2>7. b - 1 \in D
    <3>1. b - 1 # -1
      BY <2>2, <2>5
    <3>2. b - 1 \in D \/ b - 1 \in 0..z
      BY <1>3, <2>3, <3>1
    <3>3. CASE b - 1 \in 0..z
      <4>1. b = z + 1
        BY <2>2, <2>5, <3>3
      <4>2. b # N
        BY <2>2
      <4>3. b \in D
        BY <4>1, <4>2
      <4>4. QED
        BY <2>4, <2>6, <4>3
    <3>4. QED
      BY <3>2, <3>3
  <2>8. c + 1 \in D \cup {N}
    <3>1. ~(c + 1 \in 0..z)
      BY <2>2, <2>5
    <3>2. QED
      BY <1>3, <2>3, <3>1
  <2>9. s # <<a, z>>
    BY <2>2, <2>5
  <2>10. QED
    BY <2>1, <2>6, <2>7, <2>8, <2>9 DEF UncoveredSpans, b, c
<1>8. UncoveredSpans(D) \ {<<a, z>>} = UncoveredSpans(E)
  BY <1>6, <1>7
<1>9. QED
  BY <1>5, <1>8 DEF E

\* What it costs: the future cost of the span, and of what comes after.
LEMMA FutureCostStep ==
  ASSUME DataOK, NEW D \in SUBSET Positions, NEW a \in Nat, NEW z \in Nat, a <= z, z < NumWords,
         0..(a - 1) \subseteq D, \A i \in a..z : i \notin D, z + 1 \in D \cup {NumWords}
  PROVE  /\ FutureCost(D) = future[<<a, z>>] + FutureCost(D \cup 0..z)
         /\ <<a, z>> \in Spans
<1> DEFINE S == UncoveredSpans(D)
           e == <<a, z>>
<1>1. IsFiniteSet(Spans) /\ S \subseteq Spans /\ NumWords \in Nat
  BY SentenceOK DEF DataOK, UncoveredSpans
<1>2. IsFiniteSet(S) /\ \A s \in S : future[s] \in Int
  BY <1>1, FS_Subset DEF DataOK
<1>3. e \in S /\ S \ {e} = UncoveredSpans(D \cup 0..z)
  BY <1>1, FirstUncovered
<1> HIDE DEF S, e
<1>4. SumFunctionOnSet(future, S) = future[e] + SumFunctionOnSet(future, S \ {e})
  BY <1>2, <1>3, SumStep
<1>5. QED
  BY <1>1, <1>3, <1>4 DEF FutureCost, S, e

\* Where the uncovered words that begin in p end.
LEMMA RunEnds ==
  ASSUME NumWords \in Nat, NEW D \in SUBSET Positions, NEW p \in Positions, p \notin D
  PROVE  \E z \in Positions : /\ p <= z /\ z < NumWords /\ z + 1 \in D \cup {NumWords}
                              /\ \A i \in p..z : i \notin D
<1> DEFINE N == NumWords
           T == {x \in 1..N : x > p /\ x \in D \cup {N}}
<1>1. p \in Nat /\ p < N
  BY DEF Positions
<1>2. T \in SUBSET Nat /\ N \in T
  BY <1>1
<1>3. PICK y \in T : \A x \in T : y <= x
  BY <1>2, MinExists
<1>4. y \in Nat /\ y > p /\ y <= N /\ y \in D \cup {N}
  BY <1>3
<1> DEFINE z == y - 1
<1>5. z \in Positions /\ p <= z /\ z < N /\ z + 1 = y
  BY <1>1, <1>4 DEF Positions
<1>6. ASSUME NEW i \in p..z PROVE i \notin D
  <2>1. CASE i = p
    BY <2>1
  <2>2. CASE i # p
    <3>1. i \in 1..N /\ i > p /\ ~(y <= i)
      BY <1>1, <1>4, <2>2
    <3>2. i \notin T
      BY <1>3, <3>1
    <3>3. QED
      BY <3>1, <3>2
  <2>3. QED
    BY <2>1, <2>2
<1>7. QED
  BY <1>4, <1>5, <1>6

\* The recursion of BestCutting.
OpenEnds(D, p) == {x \in Positions : x >= p /\ \A i \in p..x : i \notin D}
\* The best cutting from p on, given those from later positions.
CutFrom(D, p, h) ==
  CASE p = NumWords -> 0
    [] p \in D -> h[p + 1]
    [] OTHER -> MaxSetOf({InitialCost(<<p, e>>) + h[e + 1] : e \in OpenEnds(D, p)})
\* h are the best cuttings from everywhere.
IsCutting(D, h) == h = [p \in 0..NumWords |-> CutFrom(D, p, h)]

\* Where a phrase from p may end: in p at least.
LEMMA OpenEndsProps ==
  ASSUME TablesInv, NEW D \in SUBSET Positions, NEW p \in Positions, p \notin D
  PROVE  /\ IsFiniteSet(OpenEnds(D, p)) /\ p \in OpenEnds(D, p)
         /\ \A e \in OpenEnds(D, p) : /\ <<p, e>> \in Spans /\ e \in Nat /\ e >= p
                                      /\ e + 1 \in 0..NumWords /\ \A i \in p..e : i \notin D
<1>1. NumWords \in Nat /\ IsFiniteSet(Positions) /\ OpenEnds(D, p) \subseteq Positions
  BY SentenceOK DEF OpenEnds
<1>2. IsFiniteSet(OpenEnds(D, p))
  BY <1>1, FS_Subset
<1>3. p \in Nat /\ p < NumWords
  BY <1>1 DEF Positions
<1>4. p \in OpenEnds(D, p)
  <2>1. \A i \in p..p : i = p
    BY <1>3
  <2>2. QED
    BY <1>3, <2>1 DEF OpenEnds
<1>5. ASSUME NEW e \in OpenEnds(D, p)
      PROVE  /\ <<p, e>> \in Spans /\ e \in Nat /\ e >= p
             /\ e + 1 \in 0..NumWords /\ \A i \in p..e : i \notin D
  <2>1. e \in Positions /\ e >= p /\ \A i \in p..e : i \notin D
    BY DEF OpenEnds
  <2>2. <<p, e>> \in Spans
    BY <2>1 DEF Spans
  <2>3. e \in Nat /\ e + 1 \in 0..NumWords
    BY <1>1, <2>1 DEF Positions
  <2>4. QED
    BY <2>1, <2>2, <2>3
<1>6. QED
  BY <1>2, <1>4, <1>5

\* One step of the recursion is a number, if those after it are.
LEMMA CutFromType ==
  ASSUME HashIsNat, TablesInv, SentDataOK, NEW D \in SUBSET Positions, NEW p \in 0..NumWords,
         NEW h, \A q \in 0..NumWords : q > p => h[q] \in Int
  PROVE  CutFrom(D, p, h) \in Int
<1>1. NumWords \in Nat /\ NumWords \notin D /\ p \in Nat
  BY SentenceOK DEF Positions
<1>2. CASE p = NumWords
  BY <1>1, <1>2 DEF CutFrom
<1>3. CASE p # NumWords /\ p \in D
  <2>1. p + 1 \in 0..NumWords /\ p + 1 > p
    BY <1>1, <1>3
  <2>2. CutFrom(D, p, h) = h[p + 1]
    BY <1>3 DEF CutFrom
  <2>3. QED
    BY <2>1, <2>2
<1>4. CASE p # NumWords /\ p \notin D
  <2> DEFINE E == OpenEnds(D, p)
             f == [e \in E |-> InitialCost(<<p, e>>) + h[e + 1]]
  <2>1. p \in Positions
    BY <1>1, <1>4 DEF Positions
  <2>2. /\ IsFiniteSet(E) /\ p \in E
        /\ \A e \in E : <<p, e>> \in Spans /\ e \in Nat /\ e >= p /\ e + 1 \in 0..NumWords
    BY <1>4, <2>1, OpenEndsProps
  <2>3. CutFrom(D, p, h) = MaxSetOf({f[e] : e \in E})
    <3>1. {f[e] : e \in E} = {InitialCost(<<p, e>>) + h[e + 1] : e \in E}
      OBVIOUS
    <3>2. QED
      BY <1>4, <3>1 DEF CutFrom
  <2>4. \A e \in E : InitialCost(<<p, e>>) \in Int /\ h[e + 1] \in Int
    <3>1. \A e \in E : e + 1 > p
      <4>1. SUFFICES ASSUME NEW e \in E PROVE e + 1 > p
        OBVIOUS
      <4>2. e \in Nat /\ e >= p
        BY <2>2
      <4>3. QED
        BY <1>1, <4>2
    <3>2. QED
      BY <2>2, <3>1, InitialCostType
  <2> HIDE DEF E
  <2>5. \A e \in E : f[e] \in Int
    BY <2>4
  <2> HIDE DEF f
  <2>6. E # {}
    BY <2>2
  <2>7. PICK max \in Int : /\ MaxSetOf({f[e] : e \in E}) = max
                           /\ \A e \in E : f[e] <= max
                           /\ \E e \in E : max = f[e]
    BY <2>2, <2>5, <2>6, MaxOfImage
  <2>8. QED
    BY <2>3, <2>7
<1>5. QED
  BY <1>2, <1>3, <1>4

\* The step looks only at what comes after.
LEMMA CutFromLocal ==
  ASSUME TablesInv, NEW D \in SUBSET Positions, NEW p \in 0..NumWords,
         NEW g, NEW h, \A q \in 0..NumWords : q > p => g[q] = h[q]
  PROVE  CutFrom(D, p, g) = CutFrom(D, p, h)
<1>1. NumWords \in Nat /\ NumWords \notin D /\ p \in Nat
  BY SentenceOK DEF Positions
<1>2. CASE p = NumWords
  BY <1>1, <1>2 DEF CutFrom
<1>3. CASE p # NumWords /\ p \in D
  <2>1. p + 1 \in 0..NumWords /\ p + 1 > p
    BY <1>1, <1>3
  <2>2. g[p + 1] = h[p + 1]
    BY <2>1
  <2>3. QED
    BY <1>3, <2>2 DEF CutFrom
<1>4. CASE p # NumWords /\ p \notin D
  <2>1. p \in Positions
    BY <1>1, <1>4 DEF Positions
  <2>2. \A e \in OpenEnds(D, p) : e + 1 \in 0..NumWords /\ e + 1 > p
    <3>1. \A e \in OpenEnds(D, p) : e \in Nat /\ e >= p /\ e + 1 \in 0..NumWords
      BY <1>4, <2>1, OpenEndsProps
    <3>2. QED
      BY <1>1, <3>1
  <2>3. \A e \in OpenEnds(D, p) : g[e + 1] = h[e + 1]
    BY <2>2
  <2>4. {InitialCost(<<p, e>>) + g[e + 1] : e \in OpenEnds(D, p)}
          = {InitialCost(<<p, e>>) + h[e + 1] : e \in OpenEnds(D, p)}
    BY <2>3
  <2>5. QED
    BY <1>4, <2>4 DEF CutFrom
<1>5. QED
  BY <1>2, <1>3, <1>4

\* The recursion has a solution.
LEMMA CuttingExists ==
  ASSUME HashIsNat, TablesInv, SentDataOK, NEW D \in SUBSET Positions
  PROVE  \E h : /\ h \in [0..NumWords -> Int] /\ BestCutting(D) = h[0]
                /\ \A p \in 0..NumWords : h[p] = CutFrom(D, p, h)
<1> DEFINE N == NumWords
           X == 0..N
           V == Int
           rank == [p \in X |-> N - p]
           step == [q \in X \X [X -> V] |-> CutFrom(D, q[1], q[2])]
           best == CHOOSE h : IsCutting(D, h)
<1>1. N \in Nat /\ rank \in [X -> 0..N] /\ \A p, q \in X : rank[q] < rank[p] <=> q > p
  BY SentenceOK
<1> HIDE DEF rank
<1>2. step \in [X \X [X -> V] -> V]
  <2>1. ASSUME NEW p \in X, NEW h \in [X -> V] PROVE CutFrom(D, p, h) \in V
    BY CutFromType
  <2>2. QED
    BY <2>1
<1>3. ASSUME NEW p \in X, NEW g \in [X -> V], NEW h \in [X -> V],
             \A q \in X : rank[q] < rank[p] => g[q] = h[q]
      PROVE  step[<<p, g>>] = step[<<p, h>>]
  <2>1. \A q \in X : q > p => g[q] = h[q]
    BY <1>1, <1>3
  <2>2. CutFrom(D, p, g) = CutFrom(D, p, h)
    BY <2>1, CutFromLocal
  <2>3. QED
    BY <2>2
<1>4. IsRecursion(X, V, N, rank, step)
  <2> HIDE DEF step
  <2>1. V # {}
    OBVIOUS
  <2> HIDE DEF X, V
  <2>2. QED
    BY <1>1, <1>2, <1>3, <2>1 DEF IsRecursion
<1>5. PICK f \in [X -> V] : \A p \in X : f[p] = step[<<p, f>>]
  <2> HIDE DEF step, V, X
  <2>1. QED
    BY <1>4, RecursionExists
<1>6. \E h : IsCutting(D, h)
  <2>1. \A p \in X : f[p] = CutFrom(D, p, f)
    BY <1>5
  <2>2. f = [p \in X |-> CutFrom(D, p, f)]
    BY <1>5, <2>1
  <2>3. QED
    BY <2>2 DEF IsCutting
<1>7. BestCutting(D) = best[0]
  BY DEF BestCutting, IsCutting, CutFrom, OpenEnds
<1>8. IsCutting(D, best)
  BY <1>6
<1> HIDE DEF best
<1>9. best = [p \in X |-> CutFrom(D, p, best)]
  BY <1>8 DEF IsCutting
<1>10. \A p \in X : best[p] = CutFrom(D, p, best)
  BY <1>9
<1> DEFINE P == {p \in X : best[p] \in Int}
<1>11. ASSUME NEW p \in X, \A q \in X : rank[q] < rank[p] => q \in P PROVE p \in P
  <2>1. \A q \in 0..NumWords : q > p => best[q] \in Int
    BY <1>1, <1>11
  <2>2. CutFrom(D, p, best) \in Int
    BY <2>1, CutFromType
  <2>3. QED
    BY <1>10, <2>2
<1>12. X \subseteq P
  <2> HIDE DEF P, X
  <2>1. rank \in [X -> Nat]
    <3>1. 0..N \subseteq Nat /\ rank \in [X -> 0..N]
      BY <1>1
    <3>2. QED
      BY ONLY <3>1
  <2>2. QED
    BY <1>11, <2>1, RankInduction
<1>13. best \in [X -> Int]
  BY <1>9, <1>10, <1>12
<1>14. QED
  BY <1>7, <1>10, <1>13

\* The estimate of a state is the best cutting of what it leaves uncovered.
THEOREM FutureIsBestCutting ==
  ASSUME HashIsNat, DataOK, IsCost(future), NEW covered \in SUBSET Positions
  PROVE  FutureCost(covered) = BestCutting(covered)
<1> DEFINE N == NumWords
           X == 0..N
           rank == [p \in X |-> N - p]
           Behind(p) == covered \cup 0..(p - 1)
           G(p) == FutureCost(Behind(p))
<1>1. TablesInv /\ SentDataOK /\ N \in Nat
  BY SentenceOK DEF DataOK
<1>2. PICK best : /\ best \in [X -> Int] /\ BestCutting(covered) = best[0]
                  /\ \A p \in X : best[p] = CutFrom(covered, p, best)
  BY <1>1, CuttingExists
<1> DEFINE P == {p \in X : best[p] = G(p)}
<1>3. rank \in [X -> Nat] /\ \A p, q \in X : rank[q] < rank[p] <=> q > p
  BY <1>1
<1>4. \A p \in X : Behind(p) \in SUBSET Positions
  BY <1>1 DEF Positions
<1>5. ASSUME NEW p \in X, \A q \in X : q > p => best[q] = G(q)
      PROVE  best[p] = G(p)
  <2>1. CASE p = N
    <3>1. UncoveredSpans(Behind(p)) = {}
      <4>1. \A s \in Spans : s[1] \in 0..(N - 1) /\ s[1] \in s[1]..s[2]
        BY <1>1 DEF Spans, Positions
      <4>2. \A s \in Spans : ~(\A i \in s[1]..s[2] : i \notin Behind(p))
        BY <2>1, <4>1
      <4>3. QED
        BY <4>2 DEF UncoveredSpans
    <3>2. G(p) = 0
      BY <3>1, SumEmpty DEF FutureCost
    <3>3. best[p] = 0
      <4>1. N \notin covered
        BY <1>1 DEF Positions
      <4>2. QED
        BY <1>2, <2>1, <4>1 DEF CutFrom
    <3>4. QED
      BY <3>2, <3>3
  <2>2. CASE p # N /\ p \in covered
    <3>1. p + 1 \in X /\ p + 1 > p
      BY <1>1, <2>2
    <3>2. Behind(p) = Behind(p + 1)
      <4>1. 0..((p + 1) - 1) = 0..(p - 1) \cup {p}
        BY <1>1
      <4>2. QED
        BY <2>2, <4>1
    <3>3. best[p] = best[p + 1]
      BY <1>2, <2>2 DEF CutFrom
    <3>4. QED
      BY <1>5, <3>1, <3>2, <3>3
  <2>3. CASE p # N /\ p \notin covered
    <3>1. p \in Positions /\ p \in Nat /\ p < N
      BY <1>1, <2>3 DEF Positions
    <3>2. PICK z \in Positions : /\ p <= z /\ z < N /\ z + 1 \in covered \cup {N}
                                 /\ \A i \in p..z : i \notin covered
      BY <1>1, <2>3, <3>1, RunEnds
    <3>3. z \in Nat /\ z + 1 \in X /\ z + 1 > p
      BY <1>1, <3>1, <3>2 DEF Positions
    <3> DEFINE E == OpenEnds(covered, p)
               f == [e \in E |-> InitialCost(<<p, e>>) + best[e + 1]]
               rest == G(z + 1)
               s == <<p, z>>
    <3>4. /\ IsFiniteSet(E) /\ p \in E
          /\ \A e \in E : /\ <<p, e>> \in Spans /\ e \in Nat /\ e >= p
                          /\ e + 1 \in X /\ \A i \in p..e : i \notin covered
      BY <1>1, <2>3, <3>1, OpenEndsProps
    <3>5. \A e : e \in E <=> e \in p..z
      <4>1. ASSUME NEW e \in p..z PROVE e \in E
        <5>1. e \in Positions /\ e >= p /\ \A i \in p..e : i \in p..z
          <6>1. e \in Nat /\ e >= p /\ e <= z
            BY <3>1, <3>3
          <6>2. QED
            BY <1>1, <3>1, <3>2, <3>3, <6>1 DEF Positions
        <5>2. QED
          BY <3>2, <5>1 DEF OpenEnds
      <4>2. ASSUME NEW e \in E PROVE e \in p..z
        <5>1. e \in Nat /\ e >= p /\ e + 1 \in X /\ \A i \in p..e : i \notin covered
          BY <3>4
        <5>2. SUFFICES ASSUME e > z PROVE FALSE
          BY <3>1, <3>3, <5>1
        <5>3. z + 1 \in p..e /\ z + 1 # N
          BY <1>1, <3>1, <3>3, <5>1, <5>2
        <5>4. QED
          BY <3>2, <5>1, <5>3
      <4>3. QED
        BY <4>1, <4>2
    <3>6. best[p] = MaxSetOf({f[e] : e \in E})
      <4>1. {f[e] : e \in E} = {InitialCost(<<p, e>>) + best[e + 1] : e \in E}
        OBVIOUS
      <4>2. QED
        BY <1>2, <2>3, <4>1 DEF CutFrom
    <3>7. ASSUME NEW a \in p..z
          PROVE  G(a) = future[<<a, z>>] + rest /\ <<a, z>> \in Spans
      <4> DEFINE D == Behind(a)
      <4>1. a \in Nat /\ a <= z /\ z < N /\ a \in X
        BY <1>1, <3>1, <3>2, <3>3
      <4>2. D \in SUBSET Positions
        BY <1>4, <4>1
      <4>3. 0..(a - 1) \subseteq D /\ z + 1 \in D \cup {N}
        BY <3>2
      <4>4. \A i \in a..z : i \notin D
        <5>1. \A i \in a..z : i \in p..z /\ ~(i \in 0..(a - 1))
          BY <3>1, <4>1
        <5>2. QED
          BY <3>2, <5>1
      <4>5. D \cup 0..z = Behind(z + 1)
        <5>1. (z + 1) - 1 = z /\ 0..(a - 1) \subseteq 0..z
          BY <3>3, <4>1
        <5>2. QED
          BY <5>1
      <4> HIDE DEF D
      <4>6. FutureCost(D) = future[<<a, z>>] + FutureCost(D \cup 0..z) /\ <<a, z>> \in Spans
        BY <3>3, <4>1, <4>2, <4>3, <4>4, FutureCostStep
      <4>7. QED
        BY <4>5, <4>6 DEF D
    <3>8. rest \in Int
      BY FutureCostType
    <3>9. p \in p..z /\ G(p) = future[s] + rest /\ s \in Spans
      <4>1. p \in p..z
        BY <3>1, <3>2, <3>3
      <4>2. QED
        BY <3>7, <4>1
    <3>10. best[z + 1] = rest
      BY <1>5, <3>3
    <3>11. \A e \in p..(z - 1) : /\ e \in E /\ e # z
                                 /\ best[e + 1] = future[<<e + 1, z>>] + rest
                                 /\ <<e + 1, z>> \in Spans
      <4>1. SUFFICES ASSUME NEW e \in p..(z - 1)
                     PROVE  /\ e \in E /\ e # z
                            /\ best[e + 1] = future[<<e + 1, z>>] + rest
                            /\ <<e + 1, z>> \in Spans
        OBVIOUS
      <4> DEFINE a == e + 1
      <4>2. e \in p..z /\ a \in p..z /\ a \in X /\ a > p /\ e # z
        BY <1>1, <3>1, <3>3, <4>1
      <4> HIDE DEF a
      <4>3. best[a] = G(a)
        BY <1>5, <4>2
      <4>4. G(a) = future[<<a, z>>] + rest /\ <<a, z>> \in Spans
        BY <3>7, <4>2
      <4> HIDE DEF G
      <4>5. QED
        BY <3>5, <4>2, <4>3, <4>4 DEF a
    <3> HIDE DEF G, rest, E
    <3>12. /\ InitialCost(s) \in Int /\ future[s] \in Int /\ InitialCost(s) <= future[s]
      BY <3>9, FutureIsBest
    <3>13. /\ \A m \in p..(z - 1) : InitialCost(<<p, m>>) + future[<<m + 1, z>>] <= future[s]
           /\ \/ future[s] = InitialCost(s)
              \/ \E m \in p..(z - 1) : future[s] = InitialCost(<<p, m>>) + future[<<m + 1, z>>]
      <4>1. s[1] = p /\ s[2] = z
        OBVIOUS
      <4> HIDE DEF s
      <4>2. QED
        BY <3>9, <4>1, FutureLeftCut
    <3>14. z \in E /\ f[z] = InitialCost(s) + rest
      <4>1. z \in p..z
        BY <3>1, <3>2, <3>3
      <4>2. z \in E
        BY <3>5, <4>1
      <4>3. QED
        BY <3>10, <4>2
    <3>15. \A e \in p..(z - 1) :
             /\ e \in E /\ f[e] = InitialCost(<<p, e>>) + (future[<<e + 1, z>>] + rest)
             /\ InitialCost(<<p, e>>) \in Int /\ future[<<e + 1, z>>] \in Int
      <4>1. \A t \in Spans : InitialCost(t) \in Int /\ future[t] \in Int
        BY FutureIsBest
      <4>2. QED
        BY <3>4, <3>11, <4>1
    <3>16. \A e \in E : e = z \/ e \in p..(z - 1)
      BY <3>1, <3>3, <3>5
    <3> HIDE DEF f, s
    <3>17. \A e \in E : f[e] \in Int /\ f[e] <= future[s] + rest
      <4>1. f[z] \in Int /\ f[z] <= future[s] + rest
        BY <3>8, <3>12, <3>14
      <4>2. ASSUME NEW e \in p..(z - 1) PROVE f[e] \in Int /\ f[e] <= future[s] + rest
        <5>1. InitialCost(<<p, e>>) + future[<<e + 1, z>>] <= future[s]
          BY <3>13
        <5> DEFINE x == InitialCost(<<p, e>>)
                   y == future[<<e + 1, z>>]
        <5>2. f[e] = x + (y + rest) /\ x \in Int /\ y \in Int /\ x + y <= future[s]
          BY <3>15, <5>1
        <5> HIDE DEF x, y
        <5>3. QED
          BY <3>8, <3>12, <5>2
      <4>3. QED
        BY <3>16, <4>1, <4>2
    <3>18. \E e \in E : f[e] = future[s] + rest
      <4>1. CASE future[s] = InitialCost(s)
        BY <3>14, <4>1
      <4>2. CASE future[s] # InitialCost(s)
        <5>1. PICK m \in p..(z - 1) : future[s] = InitialCost(<<p, m>>) + future[<<m + 1, z>>]
          BY <3>13, <4>2
        <5>2. QED
          BY <3>8, <3>15, <5>1
      <4>3. QED
        BY <4>1, <4>2
    <3>19. E # {}
      BY <3>4
    <3>20. PICK max \in Int : /\ MaxSetOf({f[e] : e \in E}) = max
                              /\ \A e \in E : f[e] <= max
                              /\ \E e \in E : max = f[e]
      BY <3>4, <3>17, <3>19, MaxOfImage
    <3>21. max = future[s] + rest
      BY <3>8, <3>12, <3>17, <3>18, <3>20
    <3>22. QED
      BY <3>6, <3>9, <3>20, <3>21
  <2>4. QED
    BY <2>1, <2>2, <2>3
<1>6. X \subseteq P
  <2>1. ASSUME NEW p \in X, \A q \in X : rank[q] < rank[p] => q \in P PROVE p \in P
    <3>1. \A q \in X : q > p => best[q] = G(q)
      BY <1>3, <2>1
    <3>2. QED
      BY <1>5, <3>1
  <2> HIDE DEF P, X, rank
  <2>2. QED
    BY <1>3, <2>1, RankInduction
<1>7. best[0] = G(0)
  BY <1>1, <1>6
<1>8. Behind(0) = covered
  BY SMTT(30)
<1>9. QED
  BY <1>2, <1>7, <1>8

-----------------------------------------------------------------------------
(* The scores of the states                                                  *)

\* What the search needs to keep the scores: the console has not touched the
\* parameters, the reordering weights are those of the table.
ScoresOK ==
  /\ DataOK /\ LmClosed(inst.lm) /\ TagsAreWords /\ params = inst.params
  /\ rmQuery = [uid \in QueriedUids |-> GetReordering(uid)]

\* What a state of level l has for scores: </s> is scored in the last level.
LevelScored(s, l) ==
  IF l <= NumWords THEN IsScored(s)
  ELSE s.partial = DerivationScore(s.path, Len(s.path) + 1) /\ s.total = s.partial
\* The states of a level that have them.
Scored(l) == {s \in StatesOf(l) : LevelScored(s, l)}
\* The states of all levels that have their scores.
AllScored == UNION {Scored(l) : l \in 0..(NumWords + 1)}

\* Those of higher levels than l.
Above(l) == {s \in AllScored : s.level > l}

\* They are states of their levels.
LEMMA ScoredFacts ==
  ASSUME DataOK
  PROVE  /\ \A l : Scored(l) \subseteq StatesOf(l)
         /\ \A l \in 0..(NumWords + 1) : Scored(l) \subseteq AllScored
         /\ \A s \in AllScored : s.level \in 0..(NumWords + 1) /\ s \in Scored(s.level) /\ s \in AllStates
<1>1. /\ \A l : Scored(l) \subseteq StatesOf(l)
      /\ \A l \in 0..(NumWords + 1) : Scored(l) \subseteq AllScored
  BY DEF Scored, AllScored
<1>2. ASSUME NEW s \in AllScored
      PROVE  s.level \in 0..(NumWords + 1) /\ s \in Scored(s.level) /\ s \in AllStates
  <2>1. PICK l \in 0..(NumWords + 1) : s \in Scored(l)
    BY DEF AllScored
  <2>2. s.level = l /\ s \in AllStates
    BY <1>1, <2>1, StateFacts
  <2>3. QED
    BY <2>1, <2>2
<1>3. QED
  BY <1>1, <1>2

\* The translations of a span make scored states.
LEMMA TranslationsScored ==
  ASSUME HashIsNat, ScoresOK, NEW l \in Nat, l < NumWords, NEW s \in Scored(l),
         NEW p \in Positions, NEW length \in 1..inst.maxPhraseLen,
         Expands(s.covered, <<p, p + length - 1>>)
  PROVE  LET span == <<p, p + length - 1>>
         IN Translations(s, FncsFor(s, span), span) \in Seq(Above(l))
<1> DEFINE span == <<p, p + length - 1>>
           n == Len(sentData[span].targets)
           fncs == FncsFor(s, span)
           new == Translations(s, fncs, span)
<1>1. /\ DataOK /\ TablesInv /\ SentDataOK /\ NumWords \in Nat /\ inst.maxPhraseLen \in Nat
      /\ s \in StatesOf(l) /\ IsScored(s)
  BY SentenceOK DEF ScoresOK, DataOK, Scored, LevelScored
<1>2. /\ p \in Nat /\ length \in Nat /\ length >= 1 /\ length <= inst.maxPhraseLen
      /\ p + length - 1 < NumWords
  BY <1>1 DEF Positions, Expands
<1>3. span \in Spans /\ Length(span) = length /\ span[1] = p /\ span[2] = p + length - 1
  BY <1>1, <1>2 DEF Spans, Positions, Length
<1>4. (span[1]..span[2]) \cap s.covered = {}
  BY DEF Expands
<1>5. n \in Nat
  <2>1. sentData[span] \in Entries
    BY <1>1, <1>2, <1>3, SentDataType
  <2>2. sentData[span].targets \in Seq(Targets)
    BY <2>1 DEF Entries
  <2>3. QED
    BY <2>2
<1>6. fncs \in Nat /\ 0..(fncs - 1) \subseteq s.covered \cup span[1]..span[2]
  <2>1. FirstNc(s) \in Nat /\ 0..(FirstNc(s) - 1) \subseteq s.covered
    BY <1>1, FirstNcProps DEF Positions
  <2> HIDE DEF span
  <2>2. CASE span[1] = FirstNc(s)
    <3>1. fncs = span[2] + 1 /\ fncs \in Nat /\ fncs - 1 = span[2]
      BY <1>2, <1>3, <2>2 DEF FncsFor
    <3>2. \A q \in 0..span[2] : q \in 0..(FirstNc(s) - 1) \/ q \in span[1]..span[2]
      BY <1>2, <1>3, <2>1, <2>2
    <3>3. QED
      BY <2>1, <3>1, <3>2
  <2>3. CASE span[1] # FirstNc(s)
    BY <2>1, <2>3 DEF FncsFor
  <2>4. QED
    BY <2>2, <2>3
<1>7. Length(span) <= inst.maxPhraseLen
  BY <1>2, <1>3
<1> HIDE DEF span, fncs
<1>8. ASSUME NEW i \in 1..n PROVE PhraseState(s, fncs, span, sentData[span].targets[i]) \in Above(l)
  <2> DEFINE state == PhraseState(s, fncs, span, sentData[span].targets[i])
             m == l + length
  <2>1. l + Length(span) <= NumWords /\ state \in StatesOf(l + Length(span))
    BY <1>1, <1>3, <1>4, <1>6, <1>7, PhraseStateOK
  <2>2. IsScored(state)
    BY <1>1, <1>3, <1>4, <1>6, <1>7, PhraseScore DEF ScoresOK
  <2> HIDE DEF state
  <2>3. m <= NumWords /\ m \in 0..(NumWords + 1) /\ state \in StatesOf(m)
    BY <1>1, <1>2, <1>3, <2>1
  <2> HIDE DEF m
  <2>4. state \in Scored(m)
    BY <2>2, <2>3 DEF Scored, LevelScored
  <2>5. m \in Nat /\ m > l /\ state.level = m
    BY <1>2, <2>3 DEF StatesOf, m
  <2>6. state \in AllScored
    BY <2>3, <2>4 DEF AllScored
  <2>7. QED
    BY <2>5, <2>6 DEF Above, state
<1>9. new = [i \in 1..n |-> PhraseState(s, fncs, span, sentData[span].targets[i])]
  BY DEF Translations
<1> HIDE DEF n
<1>10. new \in [1..n -> Above(l)]
  BY <1>8, <1>9
<1> HIDE DEF new
<1>11. new \in Seq(Above(l))
  BY <1>5, <1>10, SeqOfFunction
<1>12. QED
  BY <1>11 DEF new, span, fncs

\* So do those from one word.
LEMMA TranslationsFromScored ==
  ASSUME HashIsNat, ScoresOK, NEW l \in Nat, l < NumWords, NEW s \in Scored(l), NEW p \in Positions
  PROVE  TranslationsFrom(s, p) \in Seq(Above(l))
<1> DEFINE new(length) == IF Expands(s.covered, <<p, p + length - 1>>)
                          THEN Translations(s, FncsFor(s, <<p, p + length - 1>>), <<p, p + length - 1>>)
                          ELSE <<>>
           n == inst.maxPhraseLen
           seqs == [length \in 1..n |-> new(length)]
<1>1. n \in Nat
  BY SentenceOK DEF ScoresOK, DataOK
<1>2. ASSUME NEW length \in 1..n PROVE new(length) \in Seq(Above(l))
  <2>1. <<>> \in Seq(Above(l))
    OBVIOUS
  <2>2. QED
    BY <2>1, TranslationsScored
<1>3. seqs \in Seq(Seq(Above(l)))
  <2> HIDE DEF new
  <2>1. seqs \in [1..n -> Seq(Above(l))]
    BY <1>2
  <2> HIDE DEF seqs, n
  <2>2. QED
    BY <1>1, <2>1, SeqOfFunction
<1>4. TranslationsFrom(s, p) = FlattenSeq(seqs)
  BY DEF TranslationsFrom
<1> HIDE DEF seqs
<1>5. QED
  BY <1>3, <1>4, FlattenProps

\* And all that expanding a state makes.
LEMMA NewStatesScored ==
  ASSUME HashIsNat, ScoresOK, NEW l \in Nat, l <= NumWords, NEW s \in Scored(l)
  PROVE  NewStates(s) \in Seq(Above(l))
<1>1. DataOK /\ NumWords \in Nat /\ s \in StatesOf(l) /\ IsScored(s)
  BY SentenceOK DEF ScoresOK, DataOK, Scored, LevelScored
<1>2. Cardinality(s.covered) = l
  BY <1>1 DEF StatesOf, MinOf
<1>3. CASE l = NumWords
  <2> DEFINE new == EndState(s)
             m == NumWords + 1
  <2>1. NewStates(s) = <<new>>
    BY <1>2, <1>3 DEF NewStates
  <2>2. new \in StatesOf(m)
    BY <1>1, <1>3, EndStateOK
  <2>3. LevelScored(new, m)
    <3>1. /\ new.path = s.path /\ new.partial = DerivationScore(s.path, Len(s.path) + 1)
          /\ new.total = new.partial
      BY <1>1, <1>3, EndScore DEF ScoresOK
    <3>2. ~(m <= NumWords)
      BY <1>1
    <3> HIDE DEF new, m
    <3>3. QED
      BY <3>1, <3>2 DEF LevelScored
  <2>4. m \in 0..(NumWords + 1) /\ m > l
    BY <1>1
  <2> HIDE DEF new, m
  <2>a. new \in AllScored /\ new.level = m
    BY <2>2, <2>3, <2>4 DEF Scored, AllScored, StatesOf
  <2>5. new \in Above(l)
    BY <2>4, <2>a DEF Above
  <2>6. QED
    BY <2>1, <2>5
<1>4. CASE l # NumWords
  <2> DEFINE begins == Begins(s)
             n == Len(begins)
             seqs == [i \in 1..n |-> TranslationsFrom(s, begins[i])]
  <2>1. NewStates(s) = StatesAfter(s) /\ l < NumWords
    BY <1>1, <1>2, <1>4 DEF NewStates
  <2>2. StatesAfter(s) = FlattenSeq(seqs)
    BY DEF StatesAfter, Begins, RightOf, LeftOf, MaxRight, FirstNc, FncsFor, Translations, TranslationsFrom
  <2>3. begins \in Seq(Positions)
    BY <1>1, <2>1, BeginsProps
  <2> HIDE DEF begins
  <2>4. n \in Nat /\ \A i \in 1..n : begins[i] \in Positions
    BY <2>3, ElementOfSeq
  <2>5. \A i \in 1..n : TranslationsFrom(s, begins[i]) \in Seq(Above(l))
    BY <2>1, <2>4, TranslationsFromScored
  <2>6. seqs \in [1..n -> Seq(Above(l))]
    BY <2>5
  <2> HIDE DEF seqs, n
  <2>7. seqs \in Seq(Seq(Above(l)))
    BY <2>4, <2>6, SeqOfFunction
  <2>8. FlattenSeq(seqs) \in Seq(Above(l))
    BY <2>7, FlattenProps
  <2>9. QED
    BY <2>1, <2>2, <2>8
<1>5. QED
  BY <1>3, <1>4

\* The stacks whose states have their scores.
ScoredStacks == {ls \in Stacks : \A l \in 0..(NumWords + 1) : ls[l].states \in Seq(Scored(l))}
\* One more state, and the level's states are the old ones and the new one.
LEMMA StackWithScored ==
  ASSUME DataOK, CapacityOK, NEW ls \in ScoredStacks, NEW s \in AllScored
  PROVE  StackWith(ls, s) \in ScoredStacks
<1> DEFINE k == s.level
           S == Scored(k)
           old == ls[k]
           added == AddState(old, s, params)
           D == 0..(NumWords + 1)
           new == StackWith(ls, s)
<1>1. k \in D /\ s \in S /\ s \in AllStates /\ \A x \in S : x.total \in Int
  BY ScoredFacts, StateFacts
<1>2. ls \in Stacks /\ \A l \in D : ls[l].states \in Seq(Scored(l))
  BY DEF ScoredStacks
<1>3. new \in Stacks /\ new[k] = added /\ \A l \in D : l # k => new[l] = ls[l]
  BY <1>1, <1>2, StackAdds
<1>4. old \in [states : Seq(S), bound : Int] /\ Shaped(old)
  <2>1. LevelOK(old, k) /\ old.states \in Seq(S)
    BY <1>1, <1>2 DEF Stacks
  <2>2. old \in [states : Seq(StatesOf(k)), bound : Int] /\ Shaped(old)
    BY <2>1 DEF LevelOK, Shaped
  <2> HIDE DEF old, S, k
  <2>3. QED
    BY <2>1, <2>2
<1>5. ParamsOK(params)
  BY DEF CapacityOK
<1> HIDE DEF S, old, k
<1>6. added \in [states : Seq(S), bound : Int]
  BY <1>1, <1>4, <1>5, AddStateShape
<1> HIDE DEF added, new
<1>7. ASSUME NEW l \in D PROVE new[l].states \in Seq(Scored(l))
  BY <1>2, <1>3, <1>6, <1>7 DEF S
<1>8. new \in ScoredStacks
  BY <1>3, <1>7 DEF ScoredStacks
<1>9. QED
  BY <1>8 DEF new

\* A list of them, and so are all levels' states.
LEMMA AddStatesScored ==
  ASSUME DataOK, CapacityOK, NEW stack \in ScoredStacks, NEW states \in Seq(AllScored)
  PROVE  AddStates(stack, states, params) \in ScoredStacks
<1>1. \A ls \in ScoredStacks, s \in AllScored : [ls EXCEPT ![s.level] = AddState(@, s, params)] \in ScoredStacks
  <2>1. \A ls \in ScoredStacks, s \in AllScored : StackWith(ls, s) \in ScoredStacks
    BY StackWithScored
  <2>2. QED
    BY <2>1 DEF StackWith
<1>2. PICK after : IsAdded(ScoredStacks, stack, states, params, after)
  BY <1>1, AddStatesUnfold
<1>3. after \in [0..Len(states) -> ScoredStacks] /\ AddStates(stack, states, params) = after[Len(states)]
  BY <1>2 DEF IsAdded
<1>4. Len(states) \in 0..Len(states)
  OBVIOUS
<1>5. QED
  BY <1>3, <1>4

\* What the scores are made of, once it has been computed.
CostsOK ==
  /\ pc \in {"query_rm", "perform"} \/ Decoding => IsCost(future)
  /\ pc = "perform" \/ Decoding => rmQuery = [uid \in QueriedUids |-> GetReordering(uid)]
\* The scores of the states while the console has not changed the parameters.
ScoresInv == CostsOK /\ (Decoding /\ commands = 0 => levels \in ScoredStacks)

\* Scores depend on nothing that the search changes.
LEMMA ScoresStay ==
  ASSUME UNCHANGED <<tableVars, sentData, future, rmQuery>>
  PROVE  /\ IsCost(future)' = IsCost(future)
         /\ (rmQuery = [uid \in QueriedUids |-> GetReordering(uid)])'
              = (rmQuery = [uid \in QueriedUids |-> GetReordering(uid)])
         /\ ScoredStacks' = ScoredStacks
<1>1. inst' = inst /\ rmData' = rmData /\ sentData' = sentData /\ future' = future /\ rmQuery' = rmQuery
  BY DEF tableVars
<1>2. /\ Spans' = Spans /\ NumWords' = NumWords /\ QueriedUids' = QueriedUids /\ Stacks' = Stacks
      /\ \A l : StatesOf(l)' = StatesOf(l)
  BY <1>1, StatesStay, StacksStay
<1>3. \A uid : GetReordering(uid)' = GetReordering(uid)
  BY <1>1 DEF GetReordering, RmEntry
<1>4. IsCost(future)' = IsCost(future)
  BY <1>1, <1>2 DEF IsCost, CostOf, InitialCost, Length
<1>5. \A covered : FutureCost(covered)' = FutureCost(covered)
  BY <1>1, <1>2 DEF FutureCost, UncoveredSpans
<1>6. \A path, steps : DerivationScore(path, steps)' = DerivationScore(path, steps)
  BY <1>1 DEF DerivationScore, SumUpTo, SpanAt, UidAt, GetReordering, RmEntry, NumWords
<1>7. \A path, i : SpanAt(path, i)' = SpanAt(path, i) /\ UidAt(path, i)' = UidAt(path, i)
  BY <1>2 DEF SpanAt, UidAt
<1>8. \A s : IsScored(s)' = IsScored(s)
  BY <1>3, <1>5, <1>6, <1>7 DEF IsScored
<1>9. \A l : Scored(l)' = Scored(l)
  BY <1>2, <1>6, <1>8 DEF Scored, LevelScored
<1>10. ScoredStacks' = ScoredStacks
  BY <1>2, <1>9 DEF ScoredStacks
<1>11. QED
  BY <1>1, <1>2, <1>3, <1>4, <1>10

\* There are no scores before the search.
LEMMA ScoresNotYet ==
  ASSUME levels = <<>>, pc \notin {"query_rm", "perform", "expand"}
  PROVE  ScoresInv
  BY DEF ScoresInv, CostsOK, Decoding

\* What the future costs are computed to be.
LEMMA FutureCosts ==
  ASSUME HashIsNat, DecoderInv, ComputeFutureCosts
  PROVE  IsCost(future')
<1>1. future' = CHOOSE h : IsCost(h)
  BY DEF ComputeFutureCosts, IsCost, CostOf
<1>2. TablesInv /\ SentDataOK
  BY DEF DecoderInv, QueriesOK, ComputeFutureCosts
<1>3. \E h : IsCost(h)
  BY <1>2, CostsType
<1>4. QED
  BY <1>1, <1>3

\* The actions before the search.
LEMMA BeforeSearchScores ==
  ASSUME HashIsNat, DecoderInv, ScoresInv,
         \/ LoadTables \/ Translate \/ Stopped \/ QueryTranslationModel
         \/ ComputeFutureCosts \/ QueryReorderingModel
  PROVE  ScoresInv'
<1>1. DecoderInv'
  BY LoadTablesStep, TranslateStep, StoppedStep, QueryTranslationModelStep, ComputeFutureCostsStep,
     QueryReorderingModelStep
<1>2. CASE LoadTables
  <2>1. phase # "ready" /\ UNCHANGED decoderVars
    BY <1>2 DEF LoadTables, TablesNext, ReadTmLine, SetTmEntries, ConvertEntry, StartCounting,
                CountRmLine, SetRmEntries, BuildRmLine, FindSpecialEntries
  <2>2. pc' = "idle" /\ levels' = <<>>
    BY <2>1 DEF DecoderInv, ControlOK, decoderVars
  <2>3. QED
    BY <2>2 DEF ScoresInv, CostsOK, Decoding
<1>3. CASE Translate \/ Stopped
  <2>1. pc' \in {"query_tm", "done"} /\ levels' = levels /\ levels = <<>>
    BY <1>3 DEF Translate, Stopped, Ended, DecoderInv, ControlOK
  <2>2. QED
    BY <2>1 DEF ScoresInv, CostsOK, Decoding
<1>4. CASE QueryTranslationModel
  <2>1. pc' = "future" /\ levels' = levels /\ levels = <<>>
    BY <1>4 DEF QueryTranslationModel, DecoderInv, ControlOK
  <2>2. QED
    BY <2>1 DEF ScoresInv, CostsOK, Decoding
<1>5. CASE ComputeFutureCosts
  <2>1. /\ pc' = "query_rm" /\ levels' = levels /\ levels = <<>>
        /\ UNCHANGED tableVars /\ sentData' = sentData
    BY <1>5 DEF ComputeFutureCosts, DecoderInv, ControlOK
  <2>2. inst' = inst /\ Spans' = Spans
    BY <2>1, StatesStay DEF tableVars
  <2>3. IsCost(future)'
    <3>1. IsCost(future')
      BY <1>5, FutureCosts
    <3>2. \A s, h : CostOf(s, h)' = CostOf(s, h)
      BY <2>1 DEF CostOf, InitialCost, Length
    <3>3. QED
      BY <2>2, <3>1, <3>2 DEF IsCost
  <2>4. QED
    BY <2>1, <2>3 DEF ScoresInv, CostsOK, Decoding
<1>6. CASE QueryReorderingModel
  <2>1. /\ pc = "query_rm" /\ pc' = "perform" /\ levels' = levels /\ levels = <<>>
        /\ UNCHANGED tableVars /\ sentData' = sentData /\ future' = future
        /\ rmQuery' = [uid \in QueriedUids |-> GetReordering(uid)]
    BY <1>6 DEF QueryReorderingModel, DecoderInv, ControlOK
  <2>2. inst' = inst /\ rmData' = rmData /\ Spans' = Spans /\ QueriedUids' = QueriedUids
    BY <2>1, StatesStay DEF tableVars
  <2>3. IsCost(future)'
    <3>1. IsCost(future)
      BY <2>1 DEF ScoresInv, CostsOK
    <3>2. \A s, h : CostOf(s, h)' = CostOf(s, h)
      BY <2>1 DEF CostOf, InitialCost, Length
    <3>3. QED
      BY <2>1, <2>2, <3>1, <3>2 DEF IsCost
  <2>4. (rmQuery = [uid \in QueriedUids |-> GetReordering(uid)])'
    BY <2>1, <2>2 DEF GetReordering, RmEntry
  <2>5. QED
    BY <2>1, <2>3, <2>4 DEF ScoresInv, CostsOK, Decoding
<1>7. QED
  BY <1>2, <1>3, <1>4, <1>5, <1>6

\* What the search needs for the scores is there when it begins and while it goes on.
LEMMA ScoresAreThere ==
  ASSUME DecoderInv, ScoresInv, pc = "perform" \/ Decoding, commands = 0,
         LmClosed(inst.lm), TagsAreWords
  PROVE  ScoresOK /\ CapacityOK
<1>1. DataOK /\ CapacityOK
  BY DataIsThere
<1>2. params = inst.params /\ rmQuery = [uid \in QueriedUids |-> GetReordering(uid)]
  BY DEF DecoderInv, ParamsInv, ScoresInv, CostsOK
<1>3. QED
  BY <1>1, <1>2 DEF ScoresOK

\* The root, and what is made of a state, have their scores.
LEMMA SearchScores ==
  ASSUME HashIsNat, DecoderInv, ScoresInv, LmClosed(inst.lm), TagsAreWords,
         PerformTranslation \/ ExpandState
  PROVE  ScoresInv'
<1> DEFINE D == 0..(NumWords + 1)
<1>1. /\ pc = "perform" \/ Decoding
      /\ SearchFrame
  BY DEF PerformTranslation, ExpandState, SearchFrame, Decoding
<1>2. UNCHANGED <<tableVars, sentData, future, rmQuery>> /\ commands' = commands
  BY <1>1 DEF SearchFrame
<1>3. CostsOK'
  <2>1. IsCost(future) /\ rmQuery = [uid \in QueriedUids |-> GetReordering(uid)]
    BY <1>1 DEF ScoresInv, CostsOK
  <2>2. IsCost(future)' /\ (rmQuery = [uid \in QueriedUids |-> GetReordering(uid)])'
    BY <1>2, <2>1, ScoresStay
  <2>3. QED
    BY <2>2 DEF CostsOK
<1>4. ASSUME commands = 0 PROVE levels' \in ScoredStacks
  <2>1. ScoresOK /\ CapacityOK /\ DataOK /\ NumWords \in Nat /\ NumWords >= 1
    <3>1. ScoresOK /\ CapacityOK /\ DataOK
      BY <1>1, <1>4, ScoresAreThere, DataIsThere
    <3>2. QED
      BY <3>1, SentenceOK DEF DataOK
  <2>2. CASE PerformTranslation
    <3> DEFINE stack == [l \in D |-> EmptyLevel]
               root == RootState
    <3>1. levels' = AddStates(stack, <<root>>, params)
      BY <2>2 DEF PerformTranslation
    <3>2. stack \in Stacks /\ \A l \in D : stack[l].states = <<>>
      BY <2>1, EmptyStack DEF EmptyLevel
    <3>3. root \in AllScored
      <4>1. root \in StatesOf(0) /\ IsScored(root) /\ 0 \in D /\ 0 <= NumWords
        BY <2>1, RootStateOK, RootScore DEF ScoresOK
      <4> HIDE DEF root
      <4>2. QED
        BY <4>1 DEF AllScored, Scored, LevelScored
    <3> HIDE DEF stack, root
    <3>4. stack \in ScoredStacks
      <4>1. \A S : <<>> \in Seq(S)
        OBVIOUS
      <4>2. \A l \in D : stack[l].states \in Seq(Scored(l))
        BY <3>2, <4>1
      <4>3. QED
        BY <3>2, <4>2 DEF ScoredStacks
    <3>5. <<root>> \in Seq(AllScored)
      BY <3>3
    <3>6. QED
      BY <2>1, <3>1, <3>4, <3>5, AddStatesScored
  <2>3. CASE ExpandState
    <3> DEFINE s == levels[currLevel].states[currPos]
               made == NewStates(s)
    <3>1. /\ pc = "expand" /\ currLevel <= NumWords /\ currPos <= Len(levels[currLevel].states)
          /\ levels' = AddStates(levels, made, params)
      BY <2>3 DEF ExpandState
    <3>2. Decoding /\ levels \in ScoredStacks /\ LevelsOK
      BY <1>4, <3>1 DEF Decoding, ScoresInv, DecoderInv
    <3>3. currLevel \in D /\ currPos \in Nat \ {0}
      BY <3>2 DEF LevelsOK
    <3>4. s \in Scored(currLevel)
      <4>1. levels[currLevel].states \in Seq(Scored(currLevel))
        BY <3>2, <3>3 DEF ScoredStacks
      <4>2. currPos \in 1..Len(levels[currLevel].states)
        BY <3>1, <3>3, <4>1
      <4>3. QED
        BY <4>1, <4>2, ElementOfSeq
    <3>5. currLevel \in Nat
      BY <2>1, <3>3
    <3> HIDE DEF s
    <3>6. made \in Seq(AllScored)
      <4>1. made \in Seq(Above(currLevel)) /\ Above(currLevel) \subseteq AllScored
        BY <2>1, <3>1, <3>4, <3>5, NewStatesScored DEF Above
      <4> HIDE DEF made
      <4>2. QED
        BY <4>1
    <3> HIDE DEF made
    <3>7. QED
      BY <2>1, <3>1, <3>2, <3>6, AddStatesScored
  <2>4. QED
    BY <2>2, <2>3
<1>5. commands' = 0 => levels' \in ScoredStacks'
  BY <1>2, <1>4, ScoresStay
<1>6. QED
  BY <1>3, <1>5 DEF ScoresInv

\* The other actions leave the scores alone.
LEMMA OtherScores ==
  ASSUME DecoderInv, ScoresInv,
         \/ NextLevel \/ GetBestTrans \/ Stop \/ UNCHANGED vars
         \/ \E command \in inst.console : SetDecoderParams(command)
  PROVE  ScoresInv'
<1>1. /\ UNCHANGED <<tableVars, sentData, future, rmQuery>> /\ levels' = levels
      /\ commands' = 0 => commands = 0
      /\ pc' = pc \/ (pc = "expand" /\ pc' \in {"expand", "done"})
  <2>1. commands \in Nat
    BY BoundsType DEF DecoderInv, ControlOK
  <2>2. CASE \E command \in inst.console : SetDecoderParams(command)
    <3>1. PICK command \in inst.console : SetDecoderParams(command)
      BY <2>2
    <3>2. /\ commands' = commands + 1 /\ UNCHANGED <<tableVars, sentData, future, rmQuery>>
          /\ levels' = levels /\ pc' = pc
      BY <3>1 DEF SetDecoderParams
    <3>3. QED
      BY <2>1, <3>2
  <2>3. CASE NextLevel \/ Stop
    BY <2>3 DEF NextLevel, Stop
  <2>4. CASE GetBestTrans
    BY <2>4 DEF GetBestTrans, Ended
  <2>5. CASE UNCHANGED vars
    BY <2>5 DEF vars, decoderVars
  <2>6. QED
    BY <2>2, <2>3, <2>4, <2>5
<1>2. Decoding' => Decoding
  BY <1>1 DEF Decoding
<1>3. CostsOK'
  <2>1. CASE Decoding \/ pc = "perform"
    <3>1. IsCost(future) /\ rmQuery = [uid \in QueriedUids |-> GetReordering(uid)]
      BY <2>1 DEF ScoresInv, CostsOK
    <3>2. IsCost(future)' /\ (rmQuery = [uid \in QueriedUids |-> GetReordering(uid)])'
      BY <1>1, <3>1, ScoresStay
    <3>3. QED
      BY <3>2 DEF CostsOK
  <2>2. CASE ~(Decoding \/ pc = "perform")
    <3>1. pc' = pc /\ ~Decoding' /\ pc # "perform"
      BY <1>1, <1>2, <2>2 DEF Decoding
    <3>2. pc = "query_rm" => IsCost(future)'
      BY <1>1, ScoresStay DEF ScoresInv, CostsOK
    <3>3. QED
      BY <3>1, <3>2 DEF CostsOK
  <2>3. QED
    BY <2>1, <2>2
<1>4. ASSUME Decoding', commands' = 0 PROVE levels' \in ScoredStacks'
  <2>1. levels \in ScoredStacks
    BY <1>1, <1>2, <1>4 DEF ScoresInv
  <2>2. QED
    BY <1>1, <2>1, ScoresStay
<1>5. QED
  BY <1>3, <1>4 DEF ScoresInv

\* Every step keeps the scores.
LEMMA ScoresStep ==
  ASSUME HashIsNat, DecoderInv, ScoresInv, LmClosed(inst.lm), TagsAreWords, [Next]_vars
  PROVE  ScoresInv'
<1>1. CASE LoadTables
  BY <1>1, BeforeSearchScores
<1>2. CASE DecoderStep
  BY <1>2, BeforeSearchScores, SearchScores, OtherScores DEF DecoderStep
<1>3. CASE Stop \/ \E command \in inst.console : SetDecoderParams(command)
  BY <1>3, OtherScores
<1>4. CASE Terminated \/ UNCHANGED vars
  BY <1>4, OtherScores DEF Terminated
<1>5. QED
  BY <1>1, <1>2, <1>3, <1>4 DEF Next

\* Nothing is open behind the last word.
LEMMA NothingOpen ==
  ASSUME TablesInv
  PROVE  FutureCost(Positions) = 0
<1>1. \A s \in Spans : s[1] \in s[1]..s[2] /\ s[1] \in Positions
  BY SentenceOK DEF Spans, Positions
<1>2. UncoveredSpans(Positions) = {}
  BY <1>1 DEF UncoveredSpans
<1>3. QED
  BY <1>2, SumEmpty DEF FutureCost

\* The invariant says of every state what ScoreIsDerivationScore says.
LEMMA ScoresAreDerivations ==
  ASSUME HashIsNat, DecoderInv, ScoresInv
  PROVE  ScoreIsDerivationScore
<1> SUFFICES ASSUME Decoding, commands = 0, NEW l \in DOMAIN levels,
                    NEW i \in 1..Len(levels[l].states)
             PROVE  LET s == levels[l].states[i]
                        steps == Len(s.path) + (IF l = NumWords + 1 THEN 1 ELSE 0)
                    IN /\ s.covered = CoveredBy(s.path)
                       /\ s.partial = DerivationScore(s.path, steps)
                       /\ l > 0 => s.total = s.partial + BestCutting(s.covered)
  BY DEF ScoreIsDerivationScore
<1> DEFINE s == levels[l].states[i]
           path == s.path
<1>1. DataOK /\ TablesInv /\ NumWords \in Nat /\ IsFiniteSet(Positions) /\ Cardinality(Positions) = NumWords
  BY DataIsThere, SentenceOK DEF DataOK
<1>2. levels \in ScoredStacks /\ IsCost(future)
  BY DEF ScoresInv, CostsOK
<1>3. l \in 0..(NumWords + 1)
  BY <1>2 DEF ScoredStacks, Stacks
<1>4. s \in Scored(l)
  <2>1. levels[l].states \in Seq(Scored(l))
    BY <1>2, <1>3 DEF ScoredStacks
  <2>2. QED
    BY <2>1, ElementOfSeq
<1> HIDE DEF s
<1>5. /\ s \in States /\ s.level = l /\ s.covered = CoveredBy(path)
      /\ Cardinality(s.covered) = MinOf(l, NumWords) /\ LevelScored(s, l)
  BY <1>4 DEF Scored, StatesOf
<1>6. s.covered \in SUBSET Positions /\ path \in Seq(Phrases) /\ s.partial \in Int /\ Len(path) \in Nat
  BY <1>5 DEF States
<1>7. FutureCost(s.covered) = BestCutting(s.covered)
  BY <1>1, <1>2, <1>6, FutureIsBestCutting
<1>8. CASE l <= NumWords
  <2>1. l # NumWords + 1 /\ l \in Nat
    BY <1>1, <1>3, <1>8
  <2>2. s.partial = DerivationScore(path, Len(path)) /\ (s.level > 0 => s.total = s.partial + FutureCost(s.covered))
    BY <1>5, <1>8 DEF LevelScored, IsScored
  <2>3. Len(path) + (IF l = NumWords + 1 THEN 1 ELSE 0) = Len(path)
    BY <1>6, <2>1
  <2>4. QED
    BY <1>5, <1>7, <2>2, <2>3 DEF s
<1>9. CASE ~(l <= NumWords)
  <2>1. l = NumWords + 1
    BY <1>1, <1>3, <1>9
  <2>2. s.partial = DerivationScore(path, Len(path) + 1) /\ s.total = s.partial
    BY <1>5, <1>9 DEF LevelScored
  <2>3. s.covered = Positions
    <3>1. MinOf(l, NumWords) = NumWords
      BY <1>1, <2>1 DEF MinOf
    <3>2. QED
      BY <1>1, <1>5, <1>6, <3>1, FS_Subset
  <2>4. s.total = s.partial + BestCutting(s.covered)
    BY <1>1, <1>6, <1>7, <2>2, <2>3, NothingOpen
  <2>5. QED
    BY <1>5, <2>1, <2>2, <2>4 DEF s
<1>10. QED
  BY <1>8, <1>9

\* A state's scores are those of its derivation as a whole, and its estimate is
\* the best cutting of the rest.
THEOREM ScoreIsDerivationScoreAlways ==
  HashIsNat /\ (\A i \in Instances : LmClosed(i.lm)) /\ TagsAreWords /\ Spec => []ScoreIsDerivationScore
<1> DEFINE Given == HashIsNat /\ (\A i \in Instances : LmClosed(i.lm)) /\ TagsAreWords
           Inv == DecoderInv /\ ScoresInv
<1>1. Init => DecoderInv /\ ScoresInv
  <2>1. Init => ScoresInv
    BY DEF Init, ScoresInv, CostsOK, Decoding
  <2>2. QED
    BY <2>1, InitDecoder
<1>2. Given /\ DecoderInv /\ ScoresInv /\ [Next]_vars => DecoderInv' /\ ScoresInv'
  <2>1. DecoderInv => inst \in Instances
    BY DEF DecoderInv, TablesInv
  <2>2. QED
    BY <2>1, DecoderInvStep, ScoresStep
<1>3. Given /\ DecoderInv /\ ScoresInv => ScoreIsDerivationScore
  BY ScoresAreDerivations
<1>4. Given => Given'
  BY DEF HashIsNat, LmClosed, TagsAreWords
<1> HIDE DEF Given
<1>5. Given /\ Spec => []ScoreIsDerivationScore
  BY <1>1, <1>2, <1>3, <1>4, PTL DEF Spec
<1>6. QED
  BY <1>5 DEF Given

-----------------------------------------------------------------------------
(* Recombination loses nothing                                               *)

\* What a lookup in the reordering model finds are the weights of a line.
LEMMA EntryFromFile ==
  ASSUME HashIsNat, TablesInv, FilesInv, phase = "ready", NEW uid \in Uids,
         GetElement(rmData, uid) # NoElement
  PROVE  \E i \in 1..Len(inst.rmFile) : GetElement(rmData, uid) = inst.rmFile[i].weights
<1> DEFINE elems == rmData.elems
           n == Len(inst.rmFile)
           Same == {i \in 1..n : RmUid(i) = uid}
<1>1. n \in Nat /\ Hash(uid) \in Nat
  BY InstanceOK DEF TablesInv, HashIsNat, InstanceFields
<1>2. PICK m \in Nat : MapOK(rmData, m, Uids, Weights)
  BY DEF TablesInv, RmDataOK
<1>3. PICK e \in 1..Len(elems) : /\ elems[e].key = uid /\ \A d \in 1..e - 1 : elems[d].key # uid
                                 /\ GetElement(rmData, uid) = elems[e].value
  BY <1>1, <1>2, GetElementFinds
<1>4. /\ \A d \in 1..Len(elems) : \E i \in GoodLines(n) : elems[d].key = RmUid(i)
      /\ \A i \in GoodLines(n) : FirstOfPair(i) =>
           \E d \in 1..Len(elems) : /\ elems[d] = [key |-> RmUid(i), value |-> inst.rmFile[i].weights]
                                    /\ \A c \in 1..(d - 1) : elems[c].key # RmUid(i)
  <2>1. line - 1 = n
    BY <1>1 DEF FilesInv, LoadEnded
  <2>2. QED
    BY <2>1 DEF FilesInv, RmDataFilled
<1>5. PICK j \in GoodLines(n) : RmUid(j) = uid
  BY <1>3, <1>4
<1>6. Same \in SUBSET Nat /\ j \in Same
  BY <1>1, <1>5 DEF GoodLines
<1>7. PICK i \in Same : \A k \in Same : i <= k
  BY <1>6, MinExists
<1>8. i \in 1..n /\ RmUid(i) = uid
  OBVIOUS
<1>9. i \in GoodLines(n)
  <2>1. IsGoodPair(inst.rmFile[j])
    BY DEF GoodLines
  <2>2. inst.rmFile[i].source = inst.rmFile[j].source /\ inst.rmFile[i].target = inst.rmFile[j].target
    BY <1>5, <1>8 DEF RmUid
  <2>3. QED
    BY <1>8, <2>1, <2>2 DEF GoodLines, IsGoodPair
<1>10. FirstOfPair(i)
  <2>1. ASSUME NEW k \in 1..(i - 1), RmUid(k) = uid PROVE FALSE
    <3>1. k \in Same /\ ~(i <= k)
      BY <1>1, <1>8, <2>1
    <3>2. QED
      BY <1>7, <3>1
  <2>2. QED
    BY <1>8, <2>1 DEF FirstOfPair
<1> HIDE DEF elems, n, Same
<1>11. PICK d \in 1..Len(elems) : /\ elems[d] = [key |-> uid, value |-> inst.rmFile[i].weights]
                                  /\ \A c \in 1..(d - 1) : elems[c].key # uid
  BY <1>4, <1>8, <1>9, <1>10
<1>12. d = e
  <2>1. ~(e < d) /\ ~(d < e)
    BY <1>3, <1>11
  <2>2. QED
    BY <2>1
<1>13. QED
  BY <1>3, <1>8, <1>11, <1>12 DEF n

\* With at most two classes of reordering no half of an entry's weights has more.
LEMMA FewWeights ==
  ASSUME HashIsNat, TablesInv, FilesInv, phase = "ready", ReorderingClasses <= 2, NEW uid \in Uids
  PROVE  /\ GetReordering(uid) \in Weights
         /\ Len(FromWeights(GetReordering(uid))) \in {1, 2}
         /\ Len(ToWeights(GetReordering(uid))) \in {1, 2}
<1> DEFINE w == GetReordering(uid)
<1>1. w \in Weights
  BY GetReorderingType DEF TablesInv
<1>2. \E i \in 1..Len(inst.rmFile) : w = inst.rmFile[i].weights
  <2>1. CASE GetElement(rmData, uid) # NoElement
    <3>1. w = GetElement(rmData, uid)
      BY <2>1 DEF GetReordering
    <3>2. QED
      BY <2>1, <3>1, EntryFromFile
  <2>2. CASE GetElement(rmData, uid) = NoElement
    <3>1. w = GetElement(rmData, <<UnkPhrase, UnkPhrase>>)
      BY <2>2 DEF GetReordering, RmEntry
    <3>2. <<UnkPhrase, UnkPhrase>> \in Uids
      BY PhrasesAssumption DEF Uids
    <3>3. NoElement \notin Weights
      BY NoElementAssumption DEF Weights
    <3>4. QED
      BY <1>1, <3>1, <3>2, <3>3, EntryFromFile
  <2>3. QED
    BY <2>1, <2>2
<1>3. PICK i \in 1..Len(inst.rmFile) : w = inst.rmFile[i].weights
  BY <1>2
<1>4. Len(w) = Len(inst.rmFile[1].weights) /\ Len(w) \in {2, 4, 6, 8}
  BY <1>3, InstanceOK DEF TablesInv, InstanceFields
<1> HIDE DEF w
<1>5. Len(w) \div 2 <= 2
  BY <1>4 DEF ReorderingClasses
<1>6. \A x \in {2, 4, 6, 8} : x \div 2 <= 2 => x \div 2 \in {1, 2} /\ x - x \div 2 \in {1, 2}
  OBVIOUS
<1>7. Len(w) \div 2 \in {1, 2} /\ Len(w) - Len(w) \div 2 \in {1, 2}
  BY <1>4, <1>5, <1>6
<1>8. Len(ToWeights(w)) = Len(w) \div 2 /\ Len(FromWeights(w)) = Len(w) - Len(w) \div 2
  BY <1>1, HalvesType
<1>9. QED
  BY <1>1, <1>7, <1>8 DEF w

\* Such a half tells a monotone step from any other, and that does not depend on
\* where the last phrase began.
LEMMA SameOrientationWeight ==
  ASSUME NEW half, Len(half) \in {1, 2}, NEW a, NEW b, NEW end \in Int, NEW c \in Int, NEW d
  PROVE  GetWeight(half, GetReorderingOrientation(a, end, c, d))
           = GetWeight(half, GetReorderingOrientation(b, end, c, d))
<1> DEFINE x == GetReorderingOrientation(a, end, c, d)
           y == GetReorderingOrientation(b, end, c, d)
<1>1. \/ x = "monotone" /\ y = "monotone"
      \/ x \in {"swap", "discont_left", "discont_right"} /\ y \in {"swap", "discont_left", "discont_right"}
  BY DEF GetReorderingOrientation
<1> HIDE DEF x, y
<1>2. CASE x = "monotone" /\ y = "monotone"
  BY <1>2 DEF x, y
<1>3. CASE x \in {"swap", "discont_left", "discont_right"} /\ y \in {"swap", "discont_left", "discont_right"}
  <2>1. Orientations[x] \in {2, 3, 4} /\ Orientations[y] \in {2, 3, 4}
    BY <1>3 DEF Orientations
  <2> DEFINE n == Len(half)
  <2> HIDE DEF n
  <2>2. MinOf(Orientations[x], n) = n /\ MinOf(Orientations[y], n) = n
    <3>1. \A o \in {2, 3, 4}, m \in {1, 2} : MinOf(o, m) = m
      BY DEF MinOf
    <3>2. n \in {1, 2}
      BY DEF n
    <3>3. QED
      BY <2>1, <3>1, <3>2
  <2>3. QED
    BY <2>2 DEF GetWeight, x, y, n
<1>4. QED
  BY <1>1, <1>2, <1>3

\* What makes the search exact, apart from pruning.
ExactOK == ScoresOK /\ FilesInv /\ ReorderingClasses <= 2

\* t stands for s: it solves the same sub-problem and is no worse.
StandsFor(t, s) == SameSubproblem(t, s) /\ t.partial >= s.partial

\* A path that covers no word has no phrase.
LEMMA NoPhraseNoWord ==
  ASSUME DataOK, NEW path \in Seq(Phrases)
  PROVE  path = <<>> <=> CoveredBy(path) = {}
<1>1. path = <<>> => CoveredBy(path) = {}
  BY DEF CoveredBy
<1>2. ASSUME path # <<>> PROVE CoveredBy(path) # {}
  <2>1. 1 \in 1..Len(path) /\ path[1] \in Phrases
    BY <1>2
  <2>2. path[1].span \in Spans
    BY <2>1 DEF Phrases
  <2>3. path[1].span[1] \in path[1].span[1]..path[1].span[2]
    BY <2>2, SentenceOK DEF DataOK
  <2>4. QED
    BY <2>1, <2>3 DEF CoveredBy
<1>3. QED
  BY <1>1, <1>2

\* The number of words after which a state is asked for is what its history tells.
LEMMA SameLevel ==
  ASSUME DataOK, NEW l \in 0..NumWords, NEW s \in Scored(l)
  PROVE  s.lmLevel = IF s.covered = {} THEN 1 ELSE Len(s.history) + 1
<1> DEFINE n == Len(WordsOf(s.path))
           k == LmMax - 1
<1>1. NumWords \in Nat /\ LmMax \in Nat /\ LmMax > 1 /\ k \in Nat
  BY SentenceOK, LmMaxAssumption DEF DataOK
<1>2. IsScored(s) /\ s \in StatesOf(l)
  BY <1>1 DEF Scored, LevelScored
<1>3. s.path \in Seq(Phrases) /\ s.covered = CoveredBy(s.path)
  BY <1>2 DEF StatesOf, States
<1>4. WordsOf(s.path) \in Seq(Words)
  BY <1>3, SentenceOK, WordsOfType DEF DataOK
<1>5. s.history = LastWords(WordsOf(s.path), k)
  BY <1>2 DEF IsScored
<1>6. n \in Nat /\ Len(s.history) = MinOf(n, k)
  BY <1>1, <1>4, <1>5, LastWordsProps
<1>7. s.lmLevel = MinOf((IF s.path = <<>> THEN 0 ELSE n) + 1, LmMax)
  BY <1>2 DEF IsScored
<1>8. s.path = <<>> <=> s.covered = {}
  BY <1>3, NoPhraseNoWord
<1> HIDE DEF n
<1>9. MinOf(0 + 1, LmMax) = 1 /\ MinOf(n + 1, LmMax) = MinOf(n, k) + 1
  BY <1>1, <1>6 DEF MinOf
<1>10. QED
  BY <1>6, <1>7, <1>8, <1>9

\* What a state asks the reordering model with.
LEMMA FewFrom ==
  ASSUME HashIsNat, ExactOK, NEW l \in 0..NumWords, NEW s \in Scored(l)
  PROVE  Len(s.from) \in {1, 2}
<1>1. DataOK /\ TablesInv /\ phase = "ready" /\ NumWords \in Nat
  BY SentenceOK DEF ExactOK, ScoresOK, DataOK
<1>2. IsScored(s) /\ s \in StatesOf(l)
  BY <1>1 DEF Scored, LevelScored
<1>3. s.path \in Seq(Phrases) /\ Len(s.path) \in Nat
  BY <1>2 DEF StatesOf, States
<1>4. UidAt(s.path, Len(s.path)) \in Uids
  <2>1. CASE Len(s.path) = 0
    BY <2>1, PhrasesAssumption DEF UidAt, Uids
  <2>2. CASE Len(s.path) # 0
    <3>1. Len(s.path) # Len(s.path) + 1 /\ s.path[Len(s.path)] \in Phrases
      BY <1>3, <2>2
    <3>2. s.path[Len(s.path)].target.uid \in Uids
      BY <3>1 DEF Phrases, Targets
    <3>3. QED
      BY <2>2, <3>1, <3>2 DEF UidAt
  <2>3. QED
    BY <2>1, <2>2
<1>5. s.from = FromWeights(GetReordering(UidAt(s.path, Len(s.path))))
  BY <1>2 DEF IsScored
<1>6. QED
  BY <1>1, <1>4, <1>5, FewWeights DEF ExactOK

\* Two states that solve the same sub-problem pay the same for what comes next, and
\* remember the same of it.
LEMMA SameCosts ==
  ASSUME HashIsNat, ExactOK, NEW l \in 0..NumWords, NEW s \in Scored(l), NEW t \in Scored(l),
         SameSubproblem(t, s), NEW words \in Seq(Words), NEW c \in Int, NEW d, NEW weights,
         Len(ToWeights(weights)) \in {1, 2}
  PROVE  /\ LmQuery(t, words) = LmQuery(s, words)
         /\ LinDistCost(t, c) = LinDistCost(s, c)
         /\ LexRmCost(t, c, d, weights) = LexRmCost(s, c, d, weights)
         /\ LastWords(PushBack(t.frame, words), LmMax - 1) = LastWords(PushBack(s.frame, words), LmMax - 1)
<1>1. DataOK /\ NumWords \in Nat
  BY SentenceOK DEF ExactOK, ScoresOK, DataOK
<1>2. /\ IsScored(s) /\ IsScored(t) /\ s \in StatesOf(l) /\ t \in StatesOf(l)
  BY <1>1 DEF Scored, LevelScored
<1>3. /\ s.frame \in Seq(Words) /\ t.frame \in Seq(Words) /\ s.end \in Int
  BY <1>2 DEF StatesOf, States
<1>4. t.end = s.end /\ t.history = s.history /\ t.covered = s.covered /\ t.from = s.from
  BY DEF SameSubproblem
<1>5. LastWords(t.frame, LmMax - 1) = LastWords(s.frame, LmMax - 1)
  BY <1>2, <1>4 DEF IsScored
<1>6. t.lmLevel = s.lmLevel
  BY <1>1, <1>4, SameLevel
<1>7. LmQuery(t, words) = LmQuery(s, words)
  BY <1>5, <1>6 DEF LmQuery
<1>8. LinDistCost(t, c) = LinDistCost(s, c)
  BY <1>4 DEF LinDistCost
<1>9. LexRmCost(t, c, d, weights) = LexRmCost(s, c, d, weights)
  <2>1. Len(s.from) \in {1, 2}
    BY FewFrom
  <2> DEFINE x == GetReorderingOrientation(t.begin, s.end, c, d)
             y == GetReorderingOrientation(s.begin, s.end, c, d)
             to == ToWeights(weights)
  <2>2. LexRmCost(t, c, d, weights) = GetWeight(s.from, x) + GetWeight(to, x)
    BY <1>4 DEF LexRmCost
  <2>3. LexRmCost(s, c, d, weights) = GetWeight(s.from, y) + GetWeight(to, y)
    BY DEF LexRmCost
  <2>4. GetWeight(s.from, x) = GetWeight(s.from, y) /\ GetWeight(to, x) = GetWeight(to, y)
    BY <1>3, <2>1, SameOrientationWeight
  <2>5. QED
    BY <2>2, <2>3, <2>4
<1>10. LastWords(PushBack(t.frame, words), LmMax - 1) = LastWords(PushBack(s.frame, words), LmMax - 1)
  <2>1. LastWords(PushBack(t.frame, words), LmMax - 1) = LastWords(s.frame \o words, LmMax - 1)
    BY <1>3, <1>5, PushBackLast
  <2>2. LastWords(PushBack(s.frame, words), LmMax - 1) = LastWords(s.frame \o words, LmMax - 1)
    BY <1>3, PushBackLast
  <2>3. QED
    BY <2>1, <2>2
<1>11. QED
  BY <1>7, <1>8, <1>9, <1>10

\* So what one phrase, or </s>, makes of the better one stands for what it makes of
\* the other.
THEOREM SameContinuation ==
  ASSUME HashIsNat, ExactOK, NEW l \in Nat, l < NumWords, NEW s \in Scored(l), NEW t \in Scored(l),
         StandsFor(t, s), NEW span \in Spans, Length(span) <= inst.maxPhraseLen,
         NEW k \in 1..Len(sentData[span].targets), NEW m \in Nat, NEW n \in Nat
  PROVE  StandsFor(PhraseState(t, m, span, sentData[span].targets[k]),
                   PhraseState(s, n, span, sentData[span].targets[k]))
<1> DEFINE target == sentData[span].targets[k]
           weights == rmQuery[target.uid]
           new == PhraseState(t, m, span, target)
           old == PhraseState(s, n, span, target)
           lm == LmQuery(s, target.words)
           dist == LinDistCost(s, span[1])
           rm == LexRmCost(s, span[1], span[2], weights)
           history == LastWords(PushBack(s.frame, target.words), LmMax - 1)
<1>1. /\ DataOK /\ TablesInv /\ SentDataOK /\ phase = "ready" /\ NumWords \in Nat /\ l \in 0..NumWords
      /\ rmQuery = [uid \in QueriedUids |-> GetReordering(uid)] /\ FilesInv /\ ReorderingClasses <= 2
      /\ InstanceFields(inst) /\ params \in DecoderParams
  BY SentenceOK DEF ExactOK, ScoresOK, DataOK
<1>2. span[1] \in Int
  BY <1>1, SentenceOK
<1>3. target \in Targets /\ target.uid \in QueriedUids
  BY <1>1, TargetType
<1>4. target.words \in Seq(Words) /\ target.weight \in Int /\ target.uid \in Uids
  BY <1>3 DEF Targets
<1>5. weights = GetReordering(target.uid)
  BY <1>1, <1>3
<1> HIDE DEF target, weights
<1>6. weights \in Weights /\ Len(ToWeights(weights)) \in {1, 2}
  BY <1>1, <1>4, <1>5, FewWeights
<1>7. SameSubproblem(t, s) /\ t.partial >= s.partial
  BY DEF StandsFor
<1>8. /\ LmQuery(t, target.words) = lm /\ LinDistCost(t, span[1]) = dist
      /\ LexRmCost(t, span[1], span[2], weights) = rm
      /\ LastWords(PushBack(t.frame, target.words), LmMax - 1) = history
  <2> DEFINE words == target.words
             c == span[1]
             d == span[2]
  <2>1. l \in 0..NumWords /\ words \in Seq(Words) /\ c \in Int /\ SameSubproblem(t, s)
        /\ Len(ToWeights(weights)) \in {1, 2}
    BY <1>1, <1>2, <1>4, <1>6, <1>7
  <2> HIDE DEF words, c, d
  <2>2. /\ LmQuery(t, words) = LmQuery(s, words) /\ LinDistCost(t, c) = LinDistCost(s, c)
        /\ LexRmCost(t, c, d, weights) = LexRmCost(s, c, d, weights)
        /\ LastWords(PushBack(t.frame, words), LmMax - 1) = LastWords(PushBack(s.frame, words), LmMax - 1)
    BY <2>1, SameCosts
  <2>3. QED
    BY <2>2 DEF words, c, d
<1>9. /\ new.end = span[2] /\ new.covered = t.covered \cup span[1]..span[2]
      /\ new.from = FromWeights(weights)
      /\ new.history = LastWords(PushBack(t.frame, target.words), LmMax - 1)
      /\ new.partial = t.partial + target.weight + LmQuery(t, target.words).cost
                       + LinDistCost(t, span[1]) + LexRmCost(t, span[1], span[2], weights)
  BY DEF PhraseState, weights
<1>10. /\ old.end = span[2] /\ old.covered = s.covered \cup span[1]..span[2]
       /\ old.from = FromWeights(weights) /\ old.history = history
       /\ old.partial = s.partial + target.weight + lm.cost + dist + rm
  BY DEF PhraseState, weights
<1> HIDE DEF new, old
<1>11. SameSubproblem(new, old)
  BY <1>7, <1>8, <1>9, <1>10 DEF SameSubproblem
<1>12. /\ s.partial \in Int /\ t.partial \in Int /\ s.end \in Int /\ s.frame \in Seq(Words)
       /\ s.lmLevel \in 1..LmMax /\ s.from \in Seq(Int) \ {<<>>}
  BY DEF Scored, StatesOf, States
<1> DEFINE cost == lm.cost
           weight == target.weight
<1>13. cost \in Int /\ dist \in Int /\ rm \in Int /\ weight \in Int
  BY <1>1, <1>2, <1>4, <1>6, <1>12, LmQueryType, LinDistCostType, LexRmCostType
<1>14. /\ new.partial = t.partial + weight + cost + dist + rm
       /\ old.partial = s.partial + weight + cost + dist + rm
  BY <1>8, <1>9, <1>10
<1> HIDE DEF lm, cost, dist, rm, weight
<1>15. new.partial >= old.partial
  <2> DEFINE a == s.partial
             b == t.partial
             x == new.partial
             y == old.partial
  <2>1. /\ a \in Int /\ b \in Int /\ b >= a
        /\ x = b + weight + cost + dist + rm /\ y = a + weight + cost + dist + rm
    BY <1>7, <1>12, <1>14
  <2> HIDE DEF a, b, x, y
  <2>2. x >= y
    BY <1>13, <2>1
  <2>3. QED
    BY <2>2 DEF x, y
<1>16. QED
  BY <1>11, <1>15 DEF StandsFor, new, old, target

\* The same for the step to </s>.
LEMMA SameEnd ==
  ASSUME HashIsNat, ExactOK, NEW s \in Scored(NumWords), NEW t \in Scored(NumWords), StandsFor(t, s)
  PROVE  EndState(t).total >= EndState(s).total
<1> DEFINE weights == RmEntry(EndTag, EndTag)
           lm == LmQuery(s, EndTag)
           cost == lm.cost
           dist == LinDistCost(s, NumWords)
           rm == LexRmCost(s, NumWords, NumWords, weights)
<1>1. /\ DataOK /\ TablesInv /\ phase = "ready" /\ NumWords \in Nat /\ NumWords \in 0..NumWords
      /\ FilesInv /\ ReorderingClasses <= 2
      /\ InstanceFields(inst) /\ params \in DecoderParams /\ EndTag \in Seq(Words)
  BY SentenceOK, PhrasesAssumption DEF ExactOK, ScoresOK, DataOK
<1>2. weights = GetReordering(<<EndTag, EndTag>>) /\ <<EndTag, EndTag>> \in Uids
  BY <1>1, EndWeights, PhrasesAssumption DEF Uids
<1> HIDE DEF weights
<1>3. weights \in Weights /\ Len(ToWeights(weights)) \in {1, 2}
  BY <1>1, <1>2, FewWeights
<1>4. SameSubproblem(t, s) /\ t.partial >= s.partial
  BY DEF StandsFor
<1>5. /\ LmQuery(t, EndTag) = lm /\ LinDistCost(t, NumWords) = dist
      /\ LexRmCost(t, NumWords, NumWords, weights) = rm
  BY <1>1, <1>3, <1>4, SameCosts
<1>6. s \in States /\ t \in States
  BY DEF Scored, StatesOf
<1>7. /\ s.partial \in Int /\ t.partial \in Int /\ s.end \in Int /\ s.frame \in Seq(Words)
      /\ s.lmLevel \in 1..LmMax /\ s.from \in Seq(Int) \ {<<>>}
  BY <1>6 DEF States
<1>8. cost \in Int /\ dist \in Int /\ rm \in Int
  <2>1. cost \in Int
    BY <1>1, <1>7, LmQueryType
  <2>2. dist \in Int
    BY <1>1, <1>7, LinDistCostType
  <2>3. rm \in Int
    BY <1>3, <1>7, LexRmCostType
  <2>4. QED
    BY <2>1, <2>2, <2>3
<1>9. \A x \in States : EndState(x).total =
          x.partial + LmQuery(x, EndTag).cost + LinDistCost(x, NumWords) + LexRmCost(x, NumWords, NumWords, weights)
  BY DEF EndState, States, weights
<1>10. EndState(t).total = t.partial + cost + dist + rm /\ EndState(s).total = s.partial + cost + dist + rm
  BY <1>5, <1>6, <1>9
<1> HIDE DEF cost, dist, rm
<1>11. QED
  BY <1>4, <1>7, <1>8, <1>10

-----------------------------------------------------------------------------
(* The search makes every extension                                          *)

\* A word from which a phrase begins gives all its extensions.
LEMMA FromWordIsMade ==
  ASSUME HashIsNat, DataOK, NEW l \in Nat, l < NumWords, NEW s \in StatesOf(l), NEW p \in Positions,
         NEW length \in 1..inst.maxPhraseLen, Expands(s.covered, <<p, p + length - 1>>),
         NEW k \in 1..Len(sentData[<<p, p + length - 1>>].targets)
  PROVE  LET span == <<p, p + length - 1>>
         IN \E i \in 1..Len(TranslationsFrom(s, p)) :
              TranslationsFrom(s, p)[i] = PhraseState(s, FncsFor(s, span), span, sentData[span].targets[k])
<1> DEFINE span == <<p, p + length - 1>>
           n == inst.maxPhraseLen
           new(h) == IF Expands(s.covered, <<p, p + h - 1>>)
                     THEN Translations(s, FncsFor(s, <<p, p + h - 1>>), <<p, p + h - 1>>) ELSE <<>>
           seqs == [h \in 1..n |-> new(h)]
           state == PhraseState(s, FncsFor(s, span), span, sentData[span].targets[k])
<1>1. n \in Nat
  BY SentenceOK DEF DataOK
<1>2. ASSUME NEW h \in 1..n PROVE new(h) \in Seq(AllStates)
  <2>1. <<>> \in Seq(AllStates)
    OBVIOUS
  <2>2. QED
    BY <2>1, TranslationsOK
<1>3. new(length) = Translations(s, FncsFor(s, span), span)
  OBVIOUS
<1>4. Translations(s, FncsFor(s, span), span) \in Seq(AllStates)
  BY <1>2, <1>3
<1>5. Translations(s, FncsFor(s, span), span)
        = [i \in 1..Len(sentData[span].targets) |->
             PhraseState(s, FncsFor(s, span), span, sentData[span].targets[i])]
  BY DEF Translations
<1>6. TranslationsFrom(s, p) = FlattenSeq(seqs)
  BY DEF TranslationsFrom
<1> HIDE DEF new, span
<1>7. seqs \in [1..n -> Seq(AllStates)] /\ seqs[length] = new(length)
  BY <1>2
<1> HIDE DEF seqs, n
<1>8. seqs \in Seq(Seq(AllStates)) /\ Len(seqs) = n
  BY <1>1, <1>7, SeqOfFunction
<1>9. /\ k \in DOMAIN new(length) /\ new(length)[k] = state
  BY <1>3, <1>5 DEF span
<1>10. k \in 1..Len(new(length))
  BY <1>3, <1>4, <1>9
<1> HIDE DEF state
<1>11. length \in 1..Len(seqs) /\ k \in 1..Len(seqs[length]) /\ seqs[length][k] = state
  BY <1>7, <1>8, <1>9, <1>10 DEF n
<1>12. \E i \in 1..Len(FlattenSeq(seqs)) : FlattenSeq(seqs)[i] = seqs[length][k]
  BY <1>8, <1>11, FlattenProps
<1>13. QED
  BY <1>6, <1>11, <1>12 DEF state, span

\* Every phrase that a derivation may go on with is among what expand makes.
LEMMA ExtensionIsMade ==
  ASSUME HashIsNat, DataOK, NEW l \in Nat, l < NumWords, NEW s \in StatesOf(l),
         NEW span \in Spans, (span[1]..span[2]) \cap s.covered = {}, Length(span) <= inst.maxPhraseLen,
         isDist => span[1] <= FirstNc(s) + params.distLimit,
         Length(span) = 1 \/ sentData[span].known, NEW k \in 1..Len(sentData[span].targets)
  PROVE  \E i \in 1..Len(NewStates(s)) :
           NewStates(s)[i] = PhraseState(s, FncsFor(s, span), span, sentData[span].targets[k])
<1> DEFINE p == span[1]
           length == Length(span)
           state == PhraseState(s, FncsFor(s, span), span, sentData[span].targets[k])
           begins == Begins(s)
           n == Len(begins)
           seqs == [i \in 1..n |-> TranslationsFrom(s, begins[i])]
<1>1. /\ NumWords \in Nat /\ inst.maxPhraseLen \in Nat /\ span = <<span[1], span[2]>>
      /\ span[1] \in Nat /\ span[2] \in Nat /\ span[1] <= span[2] /\ span[2] < NumWords
      /\ length \in Nat \ {0} /\ length = span[2] - span[1] + 1
  BY SentenceOK DEF DataOK, Length
<1>2. p \in Positions /\ p \notin s.covered
  <2>1. p \in span[1]..span[2]
    BY <1>1
  <2>2. QED
    BY <1>1, <2>1 DEF Positions
<1>3. length \in 1..inst.maxPhraseLen /\ span = <<p, p + length - 1>>
  BY <1>1
<1>4. Expands(s.covered, span)
  BY <1>1 DEF Expands
<1>5. \E j \in 1..Len(TranslationsFrom(s, p)) : TranslationsFrom(s, p)[j] = state
  <2> DEFINE here == <<p, p + length - 1>>
  <2>1. here = span
    BY <1>3
  <2>2. k \in 1..Len(sentData[here].targets) /\ Expands(s.covered, here)
    BY <1>4, <2>1
  <2> HIDE DEF p, length, state
  <2>3. /\ HashIsNat /\ DataOK /\ l \in Nat /\ l < NumWords /\ s \in StatesOf(l) /\ p \in Positions
        /\ length \in 1..inst.maxPhraseLen
    BY <1>2, <1>3
  <2>4. \E j \in 1..Len(TranslationsFrom(s, p)) :
          TranslationsFrom(s, p)[j] = PhraseState(s, FncsFor(s, here), here, sentData[here].targets[k])
    BY ONLY <2>2, <2>3, FromWordIsMade
  <2> HIDE DEF here
  <2>5. QED
    BY <2>1, <2>4 DEF state
<1>6. NewStates(s) = StatesAfter(s)
  <2>1. Cardinality(s.covered) = l /\ l # NumWords
    BY <1>1 DEF StatesOf, MinOf
  <2>2. QED
    BY <2>1 DEF NewStates
<1>7. StatesAfter(s) = FlattenSeq(seqs)
  BY DEF StatesAfter, Begins, RightOf, LeftOf, MaxRight, FirstNc, FncsFor, Translations, TranslationsFrom
<1>8. begins \in Seq(Positions) /\ \E i \in 1..n : begins[i] = p
  BY <1>2, BeginsProps
<1> HIDE DEF begins, state, p, length
<1>9. n \in Nat /\ \A i \in 1..n : begins[i] \in Positions
  BY <1>8, ElementOfSeq
<1>10. \A i \in 1..n : TranslationsFrom(s, begins[i]) \in Seq(AllStates)
  BY <1>9, TranslationsFromOK
<1>11. seqs \in [1..n -> Seq(AllStates)] /\ \A i \in 1..n : seqs[i] = TranslationsFrom(s, begins[i])
  BY <1>10
<1> HIDE DEF seqs, n
<1>12. seqs \in Seq(Seq(AllStates)) /\ Len(seqs) = n
  BY <1>9, <1>11, SeqOfFunction
<1>13. PICK i \in 1..n : begins[i] = p
  BY <1>8
<1>14. PICK j \in 1..Len(seqs[i]) : seqs[i][j] = state
  BY <1>5, <1>11, <1>13
<1>15. i \in 1..Len(seqs)
  BY <1>12
<1>16. \E h \in 1..Len(FlattenSeq(seqs)) : FlattenSeq(seqs)[h] = seqs[i][j]
  <2>1. seqs \in Seq(Seq(AllStates)) /\ i \in 1..Len(seqs) /\ j \in 1..Len(seqs[i])
    BY <1>12, <1>15
  <2>2. QED
    BY ONLY <2>1, FlattenProps
<1>17. QED
  BY <1>6, <1>7, <1>14, <1>16 DEF state

\* What is given to higher levels leaves a level as it is.
LEMMA LowerLevelsStay ==
  ASSUME DataOK, CapacityOK, NEW stack \in ScoredStacks, NEW l \in Nat, NEW states \in Seq(Above(l)),
         NEW m \in 0..(NumWords + 1), m <= l
  PROVE  AddStates(stack, states, params)[m] = stack[m]
<1> DEFINE V == {ls \in ScoredStacks : ls[m] = stack[m]}
<1>1. ASSUME NEW ls \in V, NEW s \in Above(l)
      PROVE  [ls EXCEPT ![s.level] = AddState(@, s, params)] \in V
  <2>1. s \in AllScored /\ s.level > l /\ s.level \in 0..(NumWords + 1)
    BY ScoredFacts DEF Above
  <2>2. StackWith(ls, s) \in ScoredStacks
    BY <2>1, StackWithScored
  <2>3. m \in DOMAIN ls /\ m # s.level
    <3>1. ls \in Stacks
      BY DEF ScoredStacks
    <3>2. DOMAIN ls = 0..(NumWords + 1)
      BY <3>1 DEF Stacks
    <3>3. QED
      BY <2>1, <3>2
  <2>4. StackWith(ls, s)[m] = ls[m]
    BY <2>3 DEF StackWith
  <2>5. StackWith(ls, s) \in V
    BY <2>2, <2>4
  <2>6. QED
    BY <2>5 DEF StackWith
<1>2. stack \in V
  OBVIOUS
<1> HIDE DEF V
<1>3. PICK after : IsAdded(V, stack, states, params, after)
  BY <1>1, <1>2, AddStatesUnfold
<1>4. after \in [0..Len(states) -> V] /\ AddStates(stack, states, params) = after[Len(states)]
  BY <1>3 DEF IsAdded
<1>5. Len(states) \in 0..Len(states)
  OBVIOUS
<1>6. AddStates(stack, states, params) \in V
  BY <1>4, <1>5
<1>7. QED
  BY <1>6 DEF V

\* What expanding makes of a state depends on nothing that the search changes.
LEMMA NewStatesStay ==
  ASSUME UNCHANGED <<tableVars, sentData, future, rmQuery, params, isDist>>
  PROVE  \A s : NewStates(s)' = NewStates(s)
<1>1. /\ inst' = inst /\ rmData' = rmData /\ sentData' = sentData /\ future' = future
      /\ rmQuery' = rmQuery /\ params' = params /\ isDist' = isDist
  BY DEF tableVars
<1>2. NumWords' = NumWords /\ Spans' = Spans
  BY <1>1, StatesStay
<1>3. \A covered : FutureCost(covered)' = FutureCost(covered)
  BY <1>1, <1>2 DEF FutureCost, UncoveredSpans
<1>4. \A s, words : LmQuery(s, words)' = LmQuery(s, words)
  BY <1>1 DEF LmQuery
<1>5. \A s, begin : LinDistCost(s, begin)' = LinDistCost(s, begin)
  BY DEF LinDistCost
<1>6. \A s, fncs, span, target : PhraseState(s, fncs, span, target)' = PhraseState(s, fncs, span, target)
  <2>1. ASSUME NEW s, NEW fncs, NEW span, NEW target
        PROVE  PhraseState(s, fncs, span, target)' = PhraseState(s, fncs, span, target)
    <3>1. /\ LmQuery(s, target.words)' = LmQuery(s, target.words)
          /\ LinDistCost(s, span[1])' = LinDistCost(s, span[1])
          /\ LexRmCost(s, span[1], span[2], rmQuery[target.uid])'
               = LexRmCost(s, span[1], span[2], rmQuery[target.uid])
          /\ FutureCost(s.covered \cup span[1]..span[2])' = FutureCost(s.covered \cup span[1]..span[2])
      BY <1>1, <1>3, <1>4, <1>5
    <3>2. rmQuery' = rmQuery
      BY <1>1
    <3>3. QED
      BY <3>1, <3>2, Zenon DEF PhraseState
  <2>2. QED
    BY <2>1
<1>7. \A s : EndState(s)' = EndState(s)
  BY <1>1, <1>2, <1>4, <1>5 DEF EndState, RmEntry
<1>8. \A covered, span : Expands(covered, span)' = Expands(covered, span)
  BY <1>2 DEF Expands
<1>9. \A s : StatesAfter(s)' = StatesAfter(s)
  <2>1. \A s : FirstNc(s)' = FirstNc(s)
    BY <1>2 DEF FirstNc
  <2>2. \A s : Begins(s)' = Begins(s)
    <3>1. \A s : MaxRight(s)' = MaxRight(s)
      BY <1>1, <1>2, <2>1 DEF MaxRight
    <3>2. \A s : RightOf(s)' = RightOf(s) /\ LeftOf(s)' = LeftOf(s)
      BY <2>1, <3>1 DEF RightOf, LeftOf
    <3>3. QED
      BY <3>2 DEF Begins
  <2>3. \A s, fncs, span : Translations(s, fncs, span)' = Translations(s, fncs, span)
    BY <1>1, <1>6 DEF Translations
  <2>4. \A s, span : FncsFor(s, span)' = FncsFor(s, span)
    BY <2>1 DEF FncsFor
  <2>5. \A s, p : TranslationsFrom(s, p)' = TranslationsFrom(s, p)
    BY <1>1, <1>8, <2>3, <2>4 DEF TranslationsFrom
  <2>6. /\ \A s : StatesAfter(s) = FlattenSeq([i \in 1..Len(Begins(s)) |-> TranslationsFrom(s, Begins(s)[i])])
        /\ (\A s : StatesAfter(s) = FlattenSeq([i \in 1..Len(Begins(s)) |-> TranslationsFrom(s, Begins(s)[i])]))'
    BY DEF StatesAfter, Begins, RightOf, LeftOf, MaxRight, FirstNc, FncsFor, Translations, TranslationsFrom
  <2>7. QED
    BY <2>2, <2>5, <2>6
<1>10. QED
  BY <1>2, <1>7, <1>9 DEF NewStates

-----------------------------------------------------------------------------
(* The invariant of the search: nothing that was made is forgotten           *)

\* The states that have been expanded, and what that means: all that they make was
\* given to its level.
Before(l, i) == l < currLevel \/ (l = currLevel /\ i < currPos)
Expanded ==
  UNION {{levels[l].states[i] : i \in {j \in 1..Len(levels[l].states) : Before(l, j)}} : l \in 0..NumWords}
AllOffered(s) == \A j \in 1..Len(NewStates(s)) : NewStates(s)[j] \in offered[NewStates(s)[j].level]

\* While the console has not changed the parameters, the search has begun with the
\* root, and forgot nothing; an unstopped one does not end before all is expanded.
BestInv ==
  /\ Decoding /\ commands = 0 =>
       offered[0] # {} /\ \A s \in Expanded : AllOffered(s)
  /\ result.kind = "translated" => Decoding /\ (isStop \/ currLevel > NumWords)

\* A decoder that has not ended has no result.
LEMMA NoResultYet ==
  ASSUME DecoderInv, pc # "done"
  PROVE  result.kind # "translated"
<1>1. result = NoResult
  BY DEF DecoderInv, ControlOK
<1>2. QED
  BY <1>1 DEF NoResult

\* The actions before the search.
LEMMA BeforeSearchBest ==
  ASSUME DecoderInv, BestInv,
         \/ LoadTables \/ Translate \/ Stopped \/ QueryTranslationModel
         \/ ComputeFutureCosts \/ QueryReorderingModel
  PROVE  BestInv'
<1>1. pc # "expand" /\ pc # "done" /\ levels = <<>>
  <2>1. CASE LoadTables
    <3>1. phase # "ready"
      BY <2>1 DEF LoadTables, TablesNext, ReadTmLine, SetTmEntries, ConvertEntry, StartCounting,
                  CountRmLine, SetRmEntries, BuildRmLine, FindSpecialEntries
    <3>2. QED
      BY <3>1 DEF DecoderInv, ControlOK
  <2>2. CASE ~LoadTables
    <3>1. pc \in {"idle", "query_tm", "future", "query_rm", "perform"}
      BY <2>2 DEF Translate, Stopped, QueryTranslationModel, ComputeFutureCosts, QueryReorderingModel
    <3>2. QED
      BY <3>1 DEF DecoderInv, ControlOK
  <2>3. QED
    BY <2>1, <2>2
<1>2. result.kind # "translated"
  BY <1>1, NoResultYet
<1>3. levels' = <<>> /\ pc' # "expand" /\ result'.kind # "translated"
  <2>1. CASE LoadTables
    BY <1>1, <1>2, <2>1 DEF LoadTables, decoderVars
  <2>2. CASE Translate \/ Stopped
    BY <1>1, <1>2, <2>2 DEF Translate, Stopped, Ended
  <2>3. CASE QueryTranslationModel \/ ComputeFutureCosts \/ QueryReorderingModel
    BY <1>1, <1>2, <2>3 DEF QueryTranslationModel, ComputeFutureCosts, QueryReorderingModel
  <2>4. QED
    BY <2>1, <2>2, <2>3
<1>4. QED
  BY <1>3 DEF BestInv, Decoding

\* The search begins with the root.
LEMMA PerformTranslationBest ==
  ASSUME DecoderInv, PerformTranslation
  PROVE  BestInv'
<1>1. /\ pc = "perform" /\ pc' = "expand" /\ currLevel' = 0 /\ currPos' = 1 /\ result' = result
      /\ offered' = [l \in 0..(NumWords + 1) |-> IF l = 0 THEN {RootState} ELSE {}]
  BY DEF PerformTranslation
<1>2. NumWords \in Nat /\ NumWords' = NumWords
  <2>1. NumWords \in Nat
    BY SentenceOK DEF DecoderInv
  <2>2. inst' = inst
    BY DEF PerformTranslation, tableVars
  <2>3. QED
    BY <2>1, <2>2 DEF NumWords
<1>3. offered'[0] # {}
  BY <1>1, <1>2
<1>4. Expanded' = {}
  <2>1. \A l \in 0..NumWords' : \A i \in 1..Len(levels'[l].states) : ~Before(l, i)'
    BY <1>1, <1>2 DEF Before
  <2>2. QED
    BY <2>1 DEF Expanded
<1>5. result'.kind # "translated"
  BY <1>1, NoResultYet
<1>6. QED
  BY <1>3, <1>4, <1>5 DEF BestInv

\* One more state is expanded; those before it keep their places.
LEMMA ExpandStateBest ==
  ASSUME HashIsNat, DecoderInv, ScoresInv, BestInv, LmClosed(inst.lm), TagsAreWords, ExpandState
  PROVE  BestInv'
<1> DEFINE D == 0..(NumWords + 1)
           s == levels[currLevel].states[currPos]
           made == NewStates(s)
<1>1. /\ pc = "expand" /\ currLevel <= NumWords /\ currPos <= Len(levels[currLevel].states)
      /\ levels' = AddStates(levels, made, params)
      /\ offered' = [l \in DOMAIN offered |-> offered[l] \cup {x \in ToSet(made) : x.level = l}]
      /\ currPos' = currPos + 1 /\ currLevel' = currLevel /\ pc' = pc /\ result' = result
      /\ UNCHANGED <<tableVars, sentData, future, rmQuery, params, isDist>> /\ commands' = commands
  BY DEF ExpandState
<1>2. NumWords' = NumWords /\ \A x : NewStates(x)' = NewStates(x)
  <2>1. inst' = inst
    BY <1>1 DEF tableVars
  <2>2. QED
    BY <1>1, <2>1, NewStatesStay DEF NumWords
<1>3. result'.kind # "translated"
  BY <1>1, NoResultYet
<1>4. ASSUME commands = 0
      PROVE  offered'[0] # {} /\ \A x \in Expanded' : AllOffered(x)'
  <2>1. /\ ScoresOK /\ CapacityOK /\ DataOK /\ NumWords \in Nat /\ Decoding /\ LevelsOK
        /\ levels \in ScoredStacks
    <3>1. Decoding
      BY <1>1 DEF Decoding
    <3>2. ScoresOK /\ CapacityOK /\ LevelsOK /\ levels \in ScoredStacks
      BY <1>4, <3>1, ScoresAreThere DEF DecoderInv, ScoresInv
    <3>3. QED
      BY <3>1, <3>2, SentenceOK DEF ScoresOK, DataOK
  <2>2. currLevel \in Nat /\ currLevel \in D /\ currPos \in Nat \ {0} /\ DOMAIN offered = D
    BY <2>1 DEF LevelsOK
  <2>3. s \in Scored(currLevel)
    <3>1. levels[currLevel].states \in Seq(Scored(currLevel))
      BY <2>1, <2>2 DEF ScoredStacks
    <3>2. currPos \in 1..Len(levels[currLevel].states)
      BY <1>1, <2>2, <3>1
    <3>3. QED
      BY <3>1, <3>2, ElementOfSeq
  <2> HIDE DEF s
  <2>4. made \in Seq(Above(currLevel))
    BY <1>1, <2>1, <2>2, <2>3, NewStatesScored
  <2>5. \A l \in D : l <= currLevel => levels'[l] = levels[l]
    BY <1>1, <2>1, <2>2, <2>4, LowerLevelsStay
  <2>6. \A l \in D : offered[l] \subseteq offered'[l]
    BY <1>1, <2>2
  <2>7. offered[0] # {} /\ \A x \in Expanded : AllOffered(x)
    BY <1>4, <2>1 DEF BestInv
  <2>8. \A j \in 1..Len(made) : made[j].level \in D /\ made[j] \in ToSet(made)
    <3>1. \A x \in Above(currLevel) : x.level \in D
      BY <2>1, ScoredFacts DEF Above
    <3> HIDE DEF made
    <3>2. QED
      BY <2>4, <3>1, ElementOfSeq DEF ToSet
  <2>9. \A j \in 1..Len(made) : made[j] \in offered'[made[j].level]
    <3> HIDE DEF made
    <3>1. QED
      BY <1>1, <2>2, <2>8
  <2>10. ASSUME NEW x \in AllScored, x.level <= NumWords, AllOffered(x)
         PROVE  \A j \in 1..Len(NewStates(x)) : NewStates(x)[j] \in offered'[NewStates(x)[j].level]
    <3>1. x.level \in Nat /\ x \in Scored(x.level)
      BY <2>1, ScoredFacts
    <3>2. NewStates(x) \in Seq(Above(x.level))
      BY <2>1, <2>10, <3>1, NewStatesScored
    <3>3. \A y \in Above(x.level) : y.level \in D
      BY <2>1, ScoredFacts DEF Above
    <3>4. \A j \in 1..Len(NewStates(x)) : NewStates(x)[j].level \in D
      BY <3>2, <3>3, ElementOfSeq
    <3>5. QED
      BY <2>6, <2>10, <3>4 DEF AllOffered
  <2>11. ASSUME NEW x \in Expanded' PROVE AllOffered(x)'
    <3>0. PICK l \in 0..NumWords : \E j \in 1..Len(levels'[l].states) : x = levels'[l].states[j] /\ Before(l, j)'
      BY <1>2 DEF Expanded
    <3>1. PICK i \in 1..Len(levels'[l].states) : x = levels'[l].states[i] /\ Before(l, i)'
      BY <3>0
    <3>2. l \in D /\ l <= currLevel /\ levels'[l] = levels[l]
      <4>1. l \in D /\ l <= currLevel
        BY <1>1, <2>1, <2>2, <3>1 DEF Before
      <4>2. QED
        BY <2>5, <4>1
    <3>3. x = levels[l].states[i] /\ x \in Scored(l) /\ i \in Nat
      BY <2>1, <3>1, <3>2, ElementOfSeq DEF ScoredStacks
    <3>4. \A j \in 1..Len(NewStates(x)) : NewStates(x)[j] \in offered'[NewStates(x)[j].level]
      <4>1. CASE Before(l, i)
        <5>1. x \in Expanded
          BY <3>1, <3>2, <3>3, <4>1 DEF Expanded
        <5>2. x \in AllScored /\ x.level <= NumWords
          <6>1. x \in StatesOf(l) /\ x \in AllScored
            BY <2>1, <3>2, <3>3, ScoredFacts
          <6>2. x.level = l
            BY <6>1 DEF StatesOf
          <6>3. QED
            BY <2>1, <6>1, <6>2
        <5>3. QED
          BY <2>7, <2>10, <5>1, <5>2
      <4>2. CASE ~Before(l, i)
        <5>1. l = currLevel /\ i = currPos
          BY <1>1, <2>2, <3>1, <3>3, <4>2 DEF Before
        <5>2. x = s
          BY <3>3, <5>1 DEF s
        <5>3. QED
          BY <2>9, <5>2
      <4>3. QED
        BY <4>1, <4>2
    <3>5. QED
      BY <1>2, <3>4 DEF AllOffered
  <2>12. offered'[0] # {}
    BY <2>1, <2>6, <2>7
  <2>13. QED
    BY <2>11, <2>12
<1>5. QED
  BY <1>1, <1>2, <1>3, <1>4 DEF BestInv

\* The other actions leave the stack alone.
LEMMA OtherBest ==
  ASSUME DecoderInv, BestInv,
         \/ NextLevel \/ GetBestTrans \/ Stop \/ UNCHANGED vars
         \/ \E command \in inst.console : SetDecoderParams(command)
  PROVE  BestInv'
<1>1. UNCHANGED <<tableVars, sentData, future, rmQuery, levels, offered, isDist>> /\ NumWords' = NumWords
  <2>1. UNCHANGED <<tableVars, sentData, future, rmQuery, levels, offered, isDist>>
    BY DEF NextLevel, GetBestTrans, Ended, Stop, vars, decoderVars, SetDecoderParams
  <2>2. inst' = inst
    BY <2>1 DEF tableVars
  <2>3. QED
    BY <2>1, <2>2 DEF NumWords
<1>2. /\ commands' = 0 => commands = 0 /\ params' = params
      /\ Decoding' => Decoding
      /\ pc # "done" => result.kind # "translated"
  <2>1. commands \in Nat
    BY BoundsType DEF DecoderInv, ControlOK
  <2>2. CASE \E command \in inst.console : SetDecoderParams(command)
    <3>1. PICK command \in inst.console : SetDecoderParams(command)
      BY <2>2
    <3>2. commands' = commands + 1 /\ levels' = levels /\ pc' = pc
      BY <3>1 DEF SetDecoderParams
    <3>3. QED
      BY <2>1, <3>2, NoResultYet DEF Decoding
  <2>3. CASE NextLevel \/ Stop
    BY <2>3, NoResultYet DEF NextLevel, Stop, Decoding
  <2>4. CASE GetBestTrans
    BY <2>4, NoResultYet DEF GetBestTrans, Ended, Decoding
  <2>5. CASE UNCHANGED vars
    BY <2>5, NoResultYet DEF vars, decoderVars, Decoding
  <2>6. QED
    BY <2>2, <2>3, <2>4, <2>5
<1>3. ASSUME Decoding', commands' = 0
      PROVE  offered'[0] # {} /\ \A x \in Expanded' : AllOffered(x)'
  <2>1. /\ offered[0] # {} /\ LevelsOK /\ NumWords \in Nat /\ \A x \in Expanded : AllOffered(x)
    BY <1>2, <1>3, SentenceOK DEF BestInv, DecoderInv
  <2>2. \A x : AllOffered(x)' = AllOffered(x)
    BY <1>1, <1>2, <1>3, NewStatesStay DEF AllOffered
  <2>3. ASSUME NEW l \in 0..NumWords, NEW i \in 1..Len(levels[l].states), Before(l, i)'
        PROVE  Before(l, i)
    <3>1. currLevel \in Int /\ currPos \in Int /\ l \in Int
      BY <2>1 DEF LevelsOK
    <3>2. CASE NextLevel
      <4>1. currLevel' = currLevel + 1 /\ currPos' = 1 /\ currPos > Len(levels[currLevel].states)
        BY <3>2 DEF NextLevel
      <4>2. currLevel \in 0..(NumWords + 1) /\ levels[l].states \in Seq(StatesOf(l))
        BY <2>1 DEF LevelsOK, Stacks, LevelOK
      <4>3. i \in Int /\ i <= Len(levels[l].states) /\ Len(levels[l].states) \in Nat /\ i >= 1
        BY <4>2
      <4>4. l < currLevel \/ l = currLevel
        BY <2>3, <3>1, <4>1, <4>3 DEF Before
      <4>5. l = currLevel => i < currPos
        BY <3>1, <4>1, <4>3
      <4>6. QED
        BY <4>4, <4>5 DEF Before
    <3>3. CASE ~NextLevel
      <4>1. currLevel' = currLevel /\ currPos' = currPos
        BY <3>3 DEF GetBestTrans, Ended, Stop, vars, decoderVars, SetDecoderParams
      <4>2. QED
        BY <2>3, <4>1 DEF Before
    <3>4. QED
      BY <3>2, <3>3
  <2>4. \A x \in Expanded' : x \in Expanded
    BY <1>1, <2>3 DEF Expanded
  <2>5. QED
    BY <1>1, <2>1, <2>2, <2>4
<1>4. result'.kind = "translated" => Decoding' /\ (isStop' \/ currLevel' > NumWords')
  <2>1. CASE GetBestTrans
    <3>1. /\ pc = "expand" /\ (isStop \/ currLevel > NumWords) /\ pc' = "done" /\ isStop' = isStop
          /\ currLevel' = currLevel
      BY <2>1 DEF GetBestTrans, Ended
    <3>2. levels' # <<>>
      <4>1. levels \in Stacks /\ NumWords \in Nat
        BY <3>1, SentenceOK DEF DecoderInv, LevelsOK, Decoding
      <4>2. 0 \in DOMAIN levels
        BY <4>1 DEF Stacks
      <4>3. QED
        BY <1>1, <4>2
    <3>3. QED
      BY <1>1, <3>1, <3>2 DEF Decoding
  <2>2. CASE NextLevel \/ Stop \/ \E command \in inst.console : SetDecoderParams(command)
    <3>1. pc # "done" /\ result' = result
      BY <2>2 DEF NextLevel, Stop, SetDecoderParams
    <3>2. QED
      BY <1>2, <3>1
  <2>3. CASE UNCHANGED vars
    BY <1>1, <2>3 DEF vars, decoderVars, BestInv, Decoding
  <2>4. QED
    BY <2>1, <2>2, <2>3
<1>5. QED
  BY <1>3, <1>4 DEF BestInv

\* Every step keeps it.
LEMMA BestStep ==
  ASSUME HashIsNat, DecoderInv, ScoresInv, BestInv, LmClosed(inst.lm), TagsAreWords, [Next]_vars
  PROVE  BestInv'
<1>1. CASE LoadTables
  BY <1>1, BeforeSearchBest
<1>2. CASE DecoderStep
  BY <1>2, BeforeSearchBest, PerformTranslationBest, ExpandStateBest, OtherBest DEF DecoderStep
<1>3. CASE Stop \/ \E command \in inst.console : SetDecoderParams(command)
  BY <1>3, OtherBest
<1>4. CASE Terminated \/ UNCHANGED vars
  BY <1>4, OtherBest DEF Terminated
<1>5. QED
  BY <1>1, <1>2, <1>3, <1>4 DEF Next

-----------------------------------------------------------------------------
(* The derivations, one extension after the other                            *)

\* The first word that a path leaves open.
IsFirstOpen(path, p) ==
  p \in Positions \ CoveredBy(path) /\ \A q \in Positions \ CoveredBy(path) : p <= q
\* A phrase that may come next.
MayFollow(path, span) ==
  /\ (span[1]..span[2]) \cap CoveredBy(path) = {} /\ Length(span) <= inst.maxPhraseLen
  /\ Length(span) = 1 \/ sentData[span].known
  /\ isDist => \A p : IsFirstOpen(path, p) => span[1] <= p + inst.params.distLimit
\* An extension of a path is one phrase longer, if there is anything left to translate.
LEMMA ExtensionProps ==
  ASSUME TablesInv, NEW path, NEW q \in Extensions(path)
  PROVE  \/ Positions \subseteq CoveredBy(path) /\ q = path
         \/ \E span \in Spans : \E k \in 1..Len(sentData[span].targets) :
              /\ MayFollow(path, span)
              /\ q = Append(path, [span |-> span, target |-> sentData[span].targets[k]])
<1> DEFINE open == Positions \ CoveredBy(path)
           first == CHOOSE p \in open : \A r \in open : p <= r
           spans == {s \in Spans : /\ s[1]..s[2] \subseteq open
                                   /\ Length(s) <= inst.maxPhraseLen
                                   /\ isDist => s[1] <= first + inst.params.distLimit
                                   /\ Length(s) = 1 \/ sentData[s].known}
<1>1. Extensions(path) =
        IF open = {} THEN {path}
        ELSE UNION {{Append(path, [span |-> s, target |-> sentData[s].targets[i]]) :
                       i \in 1..Len(sentData[s].targets)} : s \in spans}
  BY DEF Extensions
<1>2. CASE open = {}
  BY <1>1, <1>2
<1>3. CASE open # {}
  <2>1. PICK span \in spans : \E k \in 1..Len(sentData[span].targets) :
          q = Append(path, [span |-> span, target |-> sentData[span].targets[k]])
    BY <1>1, <1>3
  <2>2. PICK k \in 1..Len(sentData[span].targets) :
          q = Append(path, [span |-> span, target |-> sentData[span].targets[k]])
    BY <2>1
  <2>3. \A p : IsFirstOpen(path, p) => p = first
    <3>1. ASSUME NEW p, IsFirstOpen(path, p) PROVE p = first
      <4>1. p \in open /\ \A r \in open : p <= r
        BY <3>1 DEF IsFirstOpen
      <4>2. first \in open /\ \A r \in open : first <= r
        BY <4>1
      <4>3. p \in Int /\ first \in Int /\ p <= first /\ first <= p
        <5> HIDE DEF first
        <5>1. QED
          BY <4>1, <4>2 DEF Positions
      <4>4. QED
        BY <4>3
    <3>2. QED
      BY <3>1
  <2>4. MayFollow(path, span)
    BY <2>3 DEF MayFollow
  <2>5. QED
    BY <2>2, <2>4
<1>4. QED
  BY <1>2, <1>3

\* The paths that extend some path of a set.
Extended(paths) == UNION {Extensions(p) : p \in paths}
\* after[k] are the paths after k rounds.
IsUnfolded(after) ==
  /\ after \in [0..NumWords -> SUBSET Seq(Phrases)] /\ after[0] = {<<>>}
  /\ \A k \in 1..NumWords : after[k] = Extended(after[k - 1])
  /\ Derivations = after[NumWords]
\* Paths of phrases are extended to paths of phrases.
LEMMA ExtendedType ==
  ASSUME HashIsNat, TablesInv, SentDataOK, NEW paths \in SUBSET Seq(Phrases)
  PROVE  Extended(paths) \in SUBSET Seq(Phrases)
<1> SUFFICES ASSUME NEW p \in paths, NEW q \in Extensions(p) PROVE q \in Seq(Phrases)
  BY DEF Extended
<1>1. CASE q = p
  BY <1>1
<1>2. CASE q # p
  <2>1. PICK span \in Spans : \E k \in 1..Len(sentData[span].targets) :
              /\ MayFollow(p, span)
              /\ q = Append(p, [span |-> span, target |-> sentData[span].targets[k]])
    BY <1>2, ExtensionProps
  <2>2. PICK k \in 1..Len(sentData[span].targets) :
              /\ MayFollow(p, span)
              /\ q = Append(p, [span |-> span, target |-> sentData[span].targets[k]])
    BY <2>1
  <2>3. Length(span) <= inst.maxPhraseLen
    BY <2>2 DEF MayFollow
  <2>4. sentData[span].targets[k] \in Targets
    BY <2>3, TargetType
  <2>5. [span |-> span, target |-> sentData[span].targets[k]] \in Phrases
    BY <2>3, <2>4 DEF Phrases
  <2>6. QED
    BY <2>2, <2>5
<1>3. QED
  BY <1>1, <1>2

\* The fold of Derivations is such rounds.
LEMMA DerivationsUnfold ==
  ASSUME HashIsNat, TablesInv, SentDataOK
  PROVE  \E after : IsUnfolded(after)
<1> DEFINE n == NumWords
           V == SUBSET Seq(Phrases)
           op == [p \in (1..n) \X V |-> Extended(p[2])]
           pick == [T \in SUBSET (1..n) |-> Max(T)]
           numbers == [i \in 1..n |-> i]
           Step(paths, i) == UNION {Extensions(p) : p \in paths}
           IsIter(h) == h = [T \in SUBSET DOMAIN numbers |->
                               IF T = {} THEN {<<>>}
                               ELSE LET x == Max(T) IN Step(h[T \ {x}], numbers[x])]
           iter == CHOOSE h : IsIter(h)
<1>1. n \in Nat /\ DOMAIN numbers = 1..n
  BY SentenceOK
<1>2. \A paths, i : Step(paths, i) = Extended(paths)
  BY DEF Extended
<1>3. {<<>>} \in V /\ \A paths \in V : Extended(paths) \in V
  BY ExtendedType
<1> HIDE DEF Step, V
<1>4. op \in [(1..n) \X V -> V] /\ \A i \in 1..n, paths \in V : op[<<i, paths>>] = Extended(paths)
  BY <1>3
<1>5. \A T \in SUBSET (1..n) : T # {} => Max(T) \in T /\ \A y \in T : Max(T) >= y
  <2>1. ASSUME NEW T \in SUBSET (1..n), T # {}
        PROVE  Max(T) \in T /\ \A y \in T : Max(T) >= y
    <3>1. T \in SUBSET (0..n)
      BY <1>1
    <3>2. PICK x \in T : \A y \in T : y <= x
      BY <1>1, <2>1, <3>1, MaxExists
    <3>3. \A y \in T : x >= y
      BY <1>1, <3>2
    <3>4. QED
      BY <3>3 DEF Max
  <2>2. QED
    BY <2>1
<1>6. /\ \A T \in SUBSET (1..n) : pick[T] = Max(T)
      /\ \A T \in SUBSET (1..n) : T # {} => pick[T] \in T
  BY <1>5
<1>7. IsFiniteSet(1..n)
  BY <1>1, FS_Interval
<1> HIDE DEF op, pick, n
<1>8. IsFold(1..n, V, {<<>>}, op, pick)
  BY <1>3, <1>4, <1>6, <1>7 DEF IsFold
<1>9. PICK f : FoldsTo(1..n, V, {<<>>}, op, pick, f)
  BY <1>8, FoldExists
<1>10. /\ f \in [SUBSET (1..n) -> V]
       /\ \A T \in SUBSET (1..n) : f[T] = IF T = {} THEN {<<>>} ELSE op[<<pick[T], f[T \ {pick[T]}]>>]
  BY <1>9 DEF FoldsTo
<1>11. IsIter(f)
  <2>1. ASSUME NEW T \in SUBSET (1..n)
        PROVE  f[T] = IF T = {} THEN {<<>>} ELSE LET x == Max(T) IN Step(f[T \ {x}], numbers[x])
    <3>1. CASE T # {}
      <4>1. pick[T] \in 1..n /\ T \ {pick[T]} \in SUBSET (1..n) /\ pick[T] = Max(T)
        BY <1>6, <3>1
      <4>2. f[T \ {pick[T]}] \in V
        BY <1>10, <4>1
      <4>3. f[T] = Extended(f[T \ {pick[T]}])
        BY <1>4, <1>10, <3>1, <4>1, <4>2
      <4>4. QED
        BY <1>2, <3>1, <4>1, <4>3
    <3>2. QED
      BY <1>10, <3>1
  <2> HIDE DEF numbers
  <2>2. QED
    BY <1>1, <1>10, <2>1
<1>12. IsIter(iter)
  <2> HIDE DEF IsIter
  <2>1. QED
    BY <1>11
<1>13. Derivations = iter[1..n]
  <2>1. Derivations = iter[DOMAIN numbers]
    BY DEF Derivations, FoldLeft, MapThenFoldSet, Step, n
  <2> HIDE DEF iter, numbers
  <2>2. QED
    BY <1>1, <2>1
<1> HIDE DEF iter
<1>14. \A T \in SUBSET (1..n) : iter[T] = IF T = {} THEN {<<>>} ELSE Extended(iter[T \ {Max(T)}])
  <2> HIDE DEF numbers
  <2>1. QED
    BY <1>1, <1>2, <1>12
<1> DEFINE after == [k \in 0..n |-> iter[1..k]]
<1>15. after[0] = {<<>>}
  <2>1. 1..0 = {} /\ 0 \in 0..n /\ {} \in SUBSET (1..n)
    BY <1>1
  <2>2. QED
    BY <1>14, <2>1
<1>16. ASSUME NEW k \in 1..n PROVE after[k] = Extended(after[k - 1])
  <2>0. k \in 1..k /\ k - 1 \in 0..n /\ k \in 0..n /\ k \in Nat
    BY <1>1
  <2>s. 1..k \in SUBSET (1..n)
    BY <1>1
  <2>1. 1..k \in SUBSET (1..n) /\ 1..k # {} /\ k \in 1..k /\ k - 1 \in 0..n /\ k \in 0..n /\ k \in Nat
    BY <2>0, <2>s
  <2>2. Max(1..k) = k
    <3>1. Max(1..k) \in 1..k /\ Max(1..k) >= k
      BY <1>5, <2>1
    <3>2. QED
      BY <2>1, <3>1
  <2>3. (1..k) \ {k} = 1..(k - 1)
    BY <2>1
  <2>4. iter[1..k] = Extended(iter[(1..k) \ {Max(1..k)}])
    BY <1>14, <2>1
  <2>5. QED
    BY <2>1, <2>2, <2>3, <2>4
<1>17. after \in [0..n -> V]
  <2> DEFINE P == {k \in 0..n : after[k] \in V}
  <2>1. ASSUME NEW k \in 0..n, k = 0 \/ k - 1 \in P PROVE k \in P
    <3>1. CASE k = 0
      BY <1>3, <1>15, <3>1
    <3>2. CASE k # 0
      <4>1. k \in 1..n /\ after[k - 1] \in V
        BY <1>1, <2>1, <3>2
      <4>2. Extended(after[k - 1]) \in V
        BY <1>3, <4>1
      <4> HIDE DEF after
      <4>3. QED
        BY <1>16, <4>1, <4>2
    <3>3. QED
      BY <3>1, <3>2
  <2> HIDE DEF P
  <2>2. IsRangeInductive(0, n, P)
    BY <1>1, <2>1 DEF IsRangeInductive
  <2>3. 0..n \subseteq P
    BY <2>2, RangeInduction
  <2>4. QED
    BY <2>3 DEF P
<1>18. Derivations = after[n]
  <2>1. n \in 0..n
    BY <1>1
  <2>2. QED
    BY <1>13, <2>1
<1> HIDE DEF after
<1>19. IsUnfolded(after)
  BY <1>15, <1>16, <1>17, <1>18 DEF IsUnfolded, n, V
<1>20. QED
  BY <1>19

-----------------------------------------------------------------------------
(* An exhaustive search finds the best derivation                            *)

\* A search that has ended by itself, with nothing lost but by recombination.
ExhaustiveOK ==
  /\ ExactOK /\ levels \in ScoredStacks /\ currLevel \in Int /\ currLevel > NumWords
  /\ offered[0] # {} /\ (\A l \in 0..(NumWords + 1) : offered[l] \subseteq StatesOf(l))
  /\ NothingPruned /\ \A s \in Expanded : AllOffered(s)
\* A state of level l stands for one with this path.
Represented(path, l) ==
  \E v \in Scored(l) : v.path = path /\ \E i \in 1..Len(levels[l].states) : StandsFor(levels[l].states[i], v)

\* Where the search for the first uncovered word begins, after one more phrase.
LEMMA FncsForProps ==
  ASSUME DataOK, NEW l \in Nat, l < NumWords, NEW s \in StatesOf(l), NEW span \in Spans
  PROVE  FncsFor(s, span) \in Nat /\ 0..(FncsFor(s, span) - 1) \subseteq s.covered \cup span[1]..span[2]
<1> DEFINE fncs == FncsFor(s, span)
<1>1. FirstNc(s) \in Nat /\ 0..(FirstNc(s) - 1) \subseteq s.covered
  BY FirstNcProps DEF Positions
<1>2. span[1] \in Nat /\ span[2] \in Nat
  BY SentenceOK DEF DataOK
<1>3. CASE span[1] = FirstNc(s)
  <2>1. fncs = span[2] + 1 /\ fncs \in Nat /\ fncs - 1 = span[2]
    BY <1>2, <1>3 DEF FncsFor
  <2>2. \A q \in 0..span[2] : q \in 0..(FirstNc(s) - 1) \/ q \in span[1]..span[2]
    BY <1>1, <1>2, <1>3
  <2>3. QED
    BY <1>1, <2>1, <2>2
<1>4. CASE span[1] # FirstNc(s)
  BY <1>1, <1>4 DEF FncsFor
<1>5. QED
  BY <1>3, <1>4

\* What one phrase makes of a state of its path.
LEMMA ScoredPhrase ==
  ASSUME HashIsNat, ScoresOK, NEW l \in Nat, l < NumWords, NEW s \in Scored(l), NEW span \in Spans,
         MayFollow(s.path, span), NEW k \in 1..Len(sentData[span].targets)
  PROVE  LET new == PhraseState(s, FncsFor(s, span), span, sentData[span].targets[k])
         IN /\ l + Length(span) <= NumWords /\ new \in Scored(l + Length(span))
            /\ new.path = Append(s.path, [span |-> span, target |-> sentData[span].targets[k]])
<1> DEFINE n == FncsFor(s, span)
           new == PhraseState(s, n, span, sentData[span].targets[k])
           m == l + Length(span)
<1>1. /\ DataOK /\ NumWords \in Nat /\ s \in StatesOf(l) /\ IsScored(s) /\ Length(span) \in Nat \ {0}
  BY SentenceOK DEF ScoresOK, DataOK, Scored, LevelScored
<1>2. (span[1]..span[2]) \cap s.covered = {} /\ Length(span) <= inst.maxPhraseLen
  BY <1>1 DEF MayFollow, StatesOf
<1>3. n \in Nat /\ 0..(n - 1) \subseteq s.covered \cup span[1]..span[2]
  BY <1>1, FncsForProps
<1>4. new.path = Append(s.path, [span |-> span, target |-> sentData[span].targets[k]])
  BY DEF PhraseState
<1> HIDE DEF n
<1>5. m <= NumWords /\ new \in StatesOf(m)
  BY <1>1, <1>2, <1>3, PhraseStateOK
<1>6. IsScored(new)
  BY <1>1, <1>2, <1>3, PhraseScore DEF ScoresOK
<1> HIDE DEF new, m
<1>7. new \in Scored(m)
  BY <1>5, <1>6 DEF Scored, LevelScored
<1>8. QED
  BY <1>4, <1>5, <1>7 DEF new, m, n

\* StandsFor is transitive.
LEMMA StandsForTransitive ==
  ASSUME NEW s \in States, NEW t \in States, NEW u \in States, StandsFor(u, t), StandsFor(t, s)
  PROVE  StandsFor(u, s)
<1>1. s.partial \in Int /\ t.partial \in Int /\ u.partial \in Int
  BY DEF States
<1>2. SameSubproblem(u, s)
  BY DEF StandsFor, SameSubproblem
<1>3. u.partial >= s.partial
  BY <1>1 DEF StandsFor
<1>4. QED
  BY <1>2, <1>3 DEF StandsFor

\* A state of a level that dominates another one stands for it.
LEMMA DominatedIsStoodFor ==
  ASSUME DataOK, levels \in ScoredStacks, NEW l \in 1..NumWords, NEW s \in Scored(l), Dominated(s, l)
  PROVE  \E i \in 1..Len(levels[l].states) : StandsFor(levels[l].states[i], s)
<1>1. PICK i \in 1..Len(levels[l].states) :
        SameSubproblem(levels[l].states[i], s) /\ levels[l].states[i].total >= s.total
  BY DEF Dominated
<1> DEFINE u == levels[l].states[i]
<1>2. NumWords \in Nat /\ l \in 0..(NumWords + 1) /\ l <= NumWords /\ l > 0
  BY SentenceOK DEF DataOK
<1>3. u \in Scored(l)
  <2>1. levels[l].states \in Seq(Scored(l))
    BY <1>2 DEF ScoredStacks
  <2>2. QED
    BY <2>1, ElementOfSeq
<1>4. u.total >= s.total /\ SameSubproblem(u, s)
  BY <1>1
<1> HIDE DEF u
<1>5. \A x \in Scored(l) : x.partial \in Int /\ x.total = x.partial + FutureCost(x.covered)
  <2>1. ASSUME NEW x \in Scored(l) PROVE x.partial \in Int /\ x.total = x.partial + FutureCost(x.covered)
    <3>1. x \in States /\ x.level = l /\ IsScored(x)
      BY <1>2 DEF Scored, StatesOf, LevelScored
    <3>2. x.partial \in Int
      BY <3>1 DEF States
    <3>3. QED
      BY <1>2, <3>1, <3>2 DEF IsScored
  <2>2. QED
    BY <2>1
<1>6. u.covered = s.covered /\ FutureCost(s.covered) \in Int
  BY <1>4, FutureCostType DEF SameSubproblem
<1> DEFINE cost == FutureCost(s.covered)
<1>7. /\ u.partial \in Int /\ s.partial \in Int /\ cost \in Int
      /\ u.total = u.partial + cost /\ s.total = s.partial + cost
  BY <1>3, <1>5, <1>6
<1> HIDE DEF cost
<1>8. u.partial >= s.partial
  BY <1>4, <1>7
<1>9. QED
  BY <1>4, <1>8 DEF StandsFor, u

\* Every state of the levels before the last has been expanded.
LEMMA AllExpanded ==
  ASSUME ExhaustiveOK, NEW l \in 0..NumWords, NEW i \in 1..Len(levels[l].states)
  PROVE  levels[l].states[i] \in Scored(l) /\ AllOffered(levels[l].states[i])
<1>1. NumWords \in Nat /\ l \in 0..(NumWords + 1)
  BY SentenceOK DEF ExhaustiveOK, ExactOK, ScoresOK, DataOK
<1>2. levels[l].states \in Seq(Scored(l))
  BY <1>1 DEF ExhaustiveOK, ScoredStacks
<1>3. Before(l, i)
  BY <1>1 DEF ExhaustiveOK, Before
<1>4. levels[l].states[i] \in Expanded
  BY <1>3 DEF Expanded
<1>5. QED
  BY <1>2, <1>4, ElementOfSeq DEF ExhaustiveOK

\* One more phrase, and the path is still represented.
LEMMA PhraseRepresented ==
  ASSUME HashIsNat, ExhaustiveOK, NEW l \in Nat, l < NumWords, NEW path, Represented(path, l),
         NEW span \in Spans, MayFollow(path, span), NEW k \in 1..Len(sentData[span].targets)
  PROVE  /\ l + Length(span) <= NumWords
         /\ Represented(Append(path, [span |-> span, target |-> sentData[span].targets[k]]), l + Length(span))
<1> DEFINE target == sentData[span].targets[k]
           h == l + Length(span)
<1>1. PICK v \in Scored(l) : v.path = path /\ \E i \in 1..Len(levels[l].states) : StandsFor(levels[l].states[i], v)
  BY DEF Represented
<1>2. PICK i \in 1..Len(levels[l].states) : StandsFor(levels[l].states[i], v)
  BY <1>1
<1> DEFINE t == levels[l].states[i]
           old == PhraseState(v, FncsFor(v, span), span, target)
           new == PhraseState(t, FncsFor(t, span), span, target)
<1>3. /\ ExactOK /\ ScoresOK /\ DataOK /\ NumWords \in Nat /\ l \in 0..NumWords /\ params = inst.params
      /\ Length(span) \in Nat \ {0}
  <2>1. ExactOK /\ ScoresOK /\ DataOK /\ params = inst.params
    BY DEF ExhaustiveOK, ExactOK, ScoresOK
  <2>2. NumWords \in Nat /\ Length(span) \in Nat \ {0}
    BY <2>1, SentenceOK DEF DataOK
  <2>3. l \in 0..NumWords
    BY <2>2
  <2>4. QED
    BY <2>1, <2>2, <2>3
<1>4. t \in Scored(l) /\ AllOffered(t) /\ StandsFor(t, v)
  <2>1. levels[l].states[i] \in Scored(l) /\ AllOffered(levels[l].states[i])
    BY <1>3, AllExpanded
  <2>2. QED
    BY <1>2, <2>1
<1> HIDE DEF t
<1>5. t \in StatesOf(l) /\ v \in StatesOf(l)
  BY <1>4 DEF Scored
<1>6. t.covered = v.covered /\ v.covered = CoveredBy(path) /\ t.covered = CoveredBy(t.path)
  BY <1>1, <1>4, <1>5 DEF StandsFor, SameSubproblem, StatesOf
<1>7. MayFollow(v.path, span) /\ MayFollow(t.path, span)
  <2>1. MayFollow(v.path, span)
    BY <1>1
  <2>2. \A p : IsFirstOpen(t.path, p) => IsFirstOpen(path, p)
    BY <1>6 DEF IsFirstOpen
  <2>3. QED
    BY <1>6, <2>1, <2>2 DEF MayFollow
<1>8. h <= NumWords /\ old \in Scored(h) /\ old.path = Append(v.path, [span |-> span, target |-> target])
  BY <1>3, <1>7, ScoredPhrase
<1>9. new \in Scored(h)
  BY <1>3, <1>4, <1>7, ScoredPhrase
<1>10. StandsFor(new, old)
  <2>1. FncsFor(t, span) \in Nat /\ FncsFor(v, span) \in Nat
    BY <1>3, <1>5, FncsForProps
  <2>2. Length(span) <= inst.maxPhraseLen
    BY DEF MayFollow
  <2>3. QED
    BY <1>3, <1>4, <2>1, <2>2, SameContinuation
<1>11. \E j \in 1..Len(NewStates(t)) : NewStates(t)[j] = new
  <2>1. (span[1]..span[2]) \cap t.covered = {} /\ Length(span) <= inst.maxPhraseLen
        /\ (Length(span) = 1 \/ sentData[span].known)
    BY <1>6 DEF MayFollow
  <2>2. isDist => span[1] <= FirstNc(t) + params.distLimit
    <3>1. /\ FirstNc(t) \in Positions /\ FirstNc(t) \notin t.covered
          /\ 0..(FirstNc(t) - 1) \subseteq t.covered
      BY <1>3, <1>5, FirstNcProps
    <3>2. FirstNc(t) \in Positions \ CoveredBy(path)
      BY <1>6, <3>1
    <3>3. \A q \in Positions \ CoveredBy(path) : FirstNc(t) <= q
      <4>1. ASSUME NEW q \in Positions \ CoveredBy(path), ~(FirstNc(t) <= q) PROVE FALSE
        <5>1. q \in 0..(FirstNc(t) - 1)
          BY <1>3, <3>1, <4>1 DEF Positions
        <5>2. QED
          BY <1>6, <3>1, <4>1, <5>1
      <4>2. QED
        BY <4>1
    <3>4. QED
      BY <1>3, <3>2, <3>3 DEF MayFollow, IsFirstOpen
  <2>3. QED
    BY <1>3, <1>5, <2>1, <2>2, ExtensionIsMade
<1> HIDE DEF old, new, target
<1>12. new \in offered[h]
  <2>1. new.level = h
    BY <1>9 DEF Scored, StatesOf
  <2>2. QED
    BY <1>4, <1>11, <2>1 DEF AllOffered
<1>13. h \in 1..NumWords /\ h \in 0..(NumWords + 1)
  BY <1>3, <1>8
<1> HIDE DEF h
<1>14. PICK j \in 1..Len(levels[h].states) : StandsFor(levels[h].states[j], new)
  <2>1. DOMAIN levels = 0..(NumWords + 1) /\ levels \in ScoredStacks /\ NothingPruned
    BY DEF ExhaustiveOK, ScoredStacks, Stacks
  <2>2. Dominated(new, h)
    BY <1>12, <1>13, <2>1 DEF NothingPruned
  <2>3. QED
    BY <1>3, <1>9, <1>13, <2>1, <2>2, DominatedIsStoodFor
<1>15. StandsFor(levels[h].states[j], old)
  <2> DEFINE u == levels[h].states[j]
  <2>1. u \in Scored(h)
    BY <1>13, AllExpanded
  <2> HIDE DEF u
  <2>2. u \in States /\ new \in States /\ old \in States
    BY <1>8, <1>9, <2>1 DEF Scored, StatesOf
  <2>3. StandsFor(u, new)
    BY <1>14 DEF u
  <2>4. StandsFor(u, old)
    BY <1>10, <2>2, <2>3, StandsForTransitive
  <2>5. QED
    BY <2>4 DEF u
<1>16. Represented(Append(path, [span |-> span, target |-> target]), h)
  BY <1>1, <1>8, <1>15 DEF Represented
<1>17. QED
  BY <1>8, <1>16 DEF h, target

\* The root stands for the empty path.
LEMMA RootRepresented ==
  ASSUME ExhaustiveOK
  PROVE  Represented(<<>>, 0)
<1>1. /\ DataOK /\ NumWords \in Nat /\ 0 \in 0..NumWords /\ 0 \in 0..(NumWords + 1)
      /\ levels \in ScoredStacks
  BY SentenceOK DEF ExhaustiveOK, ExactOK, ScoresOK, DataOK
<1>2. PICK s \in offered[0] : TRUE
  BY DEF ExhaustiveOK
<1>3. 0 \in DOMAIN levels
  BY <1>1 DEF ScoredStacks, Stacks
<1>4. PICK i \in 1..Len(levels[0].states) : SameSubproblem(levels[0].states[i], s)
  BY <1>3 DEF ExhaustiveOK, NothingPruned, Dominated
<1> DEFINE t == levels[0].states[i]
<1>5. t \in Scored(0)
  BY <1>1, AllExpanded
<1> HIDE DEF t
<1>6. t \in StatesOf(0) /\ t \in States /\ t.path \in Seq(Phrases) /\ t.partial \in Int
  BY <1>5 DEF Scored, StatesOf, States
<1>7. Cardinality(t.covered) = 0 /\ t.covered = CoveredBy(t.path) /\ t.covered \in SUBSET Positions
  BY <1>1, <1>6 DEF StatesOf, States, MinOf
<1>8. t.covered = {}
  <2>1. IsFiniteSet(t.covered)
    BY <1>1, <1>7, SentenceOK, FS_Subset DEF DataOK
  <2>2. QED
    BY <1>7, <2>1, FS_EmptySet
<1>9. t.path = <<>>
  BY <1>1, <1>6, <1>7, <1>8, NoPhraseNoWord
<1>10. StandsFor(t, t)
  BY <1>6 DEF StandsFor, SameSubproblem
<1>11. QED
  BY <1>5, <1>9, <1>10 DEF Represented, t

\* One round of extensions: a represented path's extensions are represented, one
\* level further up or at the top.
LEMMA ExtensionRepresented ==
  ASSUME HashIsNat, ExhaustiveOK, NEW l \in 0..NumWords, NEW path, Represented(path, l),
         NEW q \in Extensions(path)
  PROVE  \E m \in 0..NumWords : (m > l \/ m = NumWords) /\ Represented(q, m)
<1>1. /\ DataOK /\ TablesInv /\ NumWords \in Nat /\ l \in Nat /\ l <= NumWords
      /\ IsFiniteSet(Positions) /\ Cardinality(Positions) = NumWords
  BY SentenceOK DEF ExhaustiveOK, ExactOK, ScoresOK, DataOK
<1>2. /\ CoveredBy(path) \in SUBSET Positions /\ Cardinality(CoveredBy(path)) = l
  <2>1. PICK v \in Scored(l) : v.path = path
    BY DEF Represented
  <2>2. MinOf(l, NumWords) = l
    BY <1>1 DEF MinOf
  <2>3. QED
    BY <2>1, <2>2 DEF Scored, StatesOf, States
<1>3. CASE Positions \subseteq CoveredBy(path) /\ q = path
  <2>1. l = NumWords
    BY <1>1, <1>2, <1>3
  <2>2. QED
    BY <1>1, <1>3, <2>1
<1>4. CASE \E span \in Spans : \E k \in 1..Len(sentData[span].targets) :
              /\ MayFollow(path, span)
              /\ q = Append(path, [span |-> span, target |-> sentData[span].targets[k]])
  <2>1. PICK span \in Spans : \E k \in 1..Len(sentData[span].targets) :
              /\ MayFollow(path, span)
              /\ q = Append(path, [span |-> span, target |-> sentData[span].targets[k]])
    BY <1>4
  <2>2. PICK k \in 1..Len(sentData[span].targets) :
              /\ MayFollow(path, span)
              /\ q = Append(path, [span |-> span, target |-> sentData[span].targets[k]])
    BY <2>1
  <2>3. Length(span) \in Nat \ {0} /\ span[1] \in span[1]..span[2] /\ span[1] \in Positions
    BY <1>1, SentenceOK DEF Positions
  <2>4. l < NumWords
    <3>1. CoveredBy(path) # Positions
      BY <2>2, <2>3 DEF MayFollow
    <3>2. l # NumWords
      BY <1>1, <1>2, <3>1, FS_Subset
    <3>3. QED
      BY <1>1, <3>2
  <2>5. l + Length(span) <= NumWords /\ Represented(q, l + Length(span))
    BY <1>1, <2>2, <2>4, PhraseRepresented
  <2>6. l + Length(span) \in 0..NumWords /\ l + Length(span) > l
    BY <1>1, <2>3, <2>5
  <2>7. QED
    BY <2>5, <2>6
<1>5. QED
  BY <1>1, <1>3, <1>4, ExtensionProps

\* Every derivation is represented by a state that covers the sentence.
LEMMA DerivationsRepresented ==
  ASSUME HashIsNat, ExhaustiveOK, NEW path \in Derivations
  PROVE  Represented(path, NumWords)
<1>1. TablesInv /\ SentDataOK /\ NumWords \in Nat
  BY SentenceOK DEF ExhaustiveOK, ExactOK, ScoresOK, DataOK
<1>2. PICK after : IsUnfolded(after)
  BY <1>1, DerivationsUnfold
<1>3. /\ after[0] = {<<>>} /\ \A k \in 1..NumWords : after[k] = Extended(after[k - 1])
      /\ Derivations = after[NumWords]
  BY <1>2 DEF IsUnfolded
<1> DEFINE Reached(q, k) == \E l \in 0..NumWords : l >= k /\ Represented(q, l)
           P == {k \in 0..NumWords : \A q \in after[k] : Reached(q, k)}
<1>4. ASSUME NEW k \in 0..NumWords, k = 0 \/ k - 1 \in P PROVE k \in P
  <2>1. CASE k = 0
    BY <1>1, <1>3, <2>1, RootRepresented
  <2>2. CASE k # 0
    <3>1. k \in 1..NumWords /\ k - 1 \in P /\ k \in Nat
      BY <1>1, <1>4, <2>2
    <3>2. ASSUME NEW q \in after[k] PROVE Reached(q, k)
      <4>1. PICK p \in after[k - 1] : q \in Extensions(p)
        BY <1>3, <3>1, <3>2 DEF Extended
      <4>2. PICK l \in 0..NumWords : l >= k - 1 /\ Represented(p, l)
        BY <3>1, <4>1
      <4>3. PICK m \in 0..NumWords : (m > l \/ m = NumWords) /\ Represented(q, m)
        BY <4>1, <4>2, ExtensionRepresented
      <4>4. m >= k
        BY <1>1, <3>1, <4>2, <4>3
      <4>5. QED
        BY <4>3, <4>4
    <3>3. QED
      BY <3>2
  <2>3. QED
    BY <2>1, <2>2
<1> HIDE DEF P
<1>5. IsRangeInductive(0, NumWords, P)
  BY <1>1, <1>4 DEF IsRangeInductive
<1>6. NumWords \in P
  BY <1>1, <1>5, RangeInduction
<1>7. PICK l \in 0..NumWords : l >= NumWords /\ Represented(path, l)
  BY <1>3, <1>6 DEF P
<1>8. l = NumWords
  BY <1>1, <1>7
<1>9. QED
  BY <1>7, <1>8

\* The first state of the last level is no worse than any derivation.
LEMMA FirstIsBest ==
  ASSUME HashIsNat, ExhaustiveOK
  PROVE  FoundBest
<1> SUFFICES ASSUME NEW path \in Derivations
             PROVE  levels[NumWords + 1].states[1].total >= DerivationScore(path, Len(path) + 1)
  BY DEF FoundBest
<1> DEFINE top == levels[NumWords + 1].states
<1>1. /\ ScoresOK /\ ExactOK /\ DataOK /\ NumWords \in Nat /\ levels \in ScoredStacks /\ levels \in Stacks
      /\ NumWords \in 0..NumWords /\ NumWords + 1 \in 0..(NumWords + 1)
  BY SentenceOK DEF ExhaustiveOK, ExactOK, ScoresOK, DataOK, ScoredStacks
<1>2. PICK v \in Scored(NumWords) :
        v.path = path /\ \E i \in 1..Len(levels[NumWords].states) : StandsFor(levels[NumWords].states[i], v)
  BY DerivationsRepresented DEF Represented
<1>3. PICK i \in 1..Len(levels[NumWords].states) : StandsFor(levels[NumWords].states[i], v)
  BY <1>2
<1> DEFINE t == levels[NumWords].states[i]
<1>4. t \in Scored(NumWords) /\ AllOffered(t) /\ StandsFor(t, v)
  BY <1>1, <1>3, AllExpanded
<1> HIDE DEF t, top
<1>5. t \in StatesOf(NumWords) /\ v \in StatesOf(NumWords) /\ IsScored(v)
  BY <1>1, <1>4 DEF Scored, LevelScored
<1>6. EndState(t).total >= EndState(v).total
  BY <1>1, <1>4, SameEnd
<1>7. EndState(v).total = DerivationScore(path, Len(path) + 1)
  BY <1>1, <1>2, <1>5, EndScore DEF ScoresOK
<1>8. /\ EndState(t) \in StatesOf(NumWords + 1) /\ EndState(v) \in StatesOf(NumWords + 1)
  BY <1>1, <1>5, EndStateOK
<1>9. EndState(t) \in offered[NumWords + 1]
  <2>1. NewStates(t) = <<EndState(t)>>
    BY <1>1, <1>5 DEF NewStates, StatesOf, MinOf
  <2>2. 1 \in 1..Len(NewStates(t)) /\ NewStates(t)[1] = EndState(t)
    BY <2>1
  <2>3. EndState(t).level = NumWords + 1
    BY <1>8 DEF StatesOf
  <2>4. QED
    BY <1>4, <2>2, <2>3 DEF AllOffered
<1>10. PICK j \in 1..Len(top) : top[j].total >= EndState(t).total
  <2>1. NumWords + 1 \in DOMAIN levels
    BY <1>1 DEF Stacks
  <2>2. QED
    BY <1>9, <2>1 DEF ExhaustiveOK, NothingPruned, Dominated, top
<1>11. /\ top \in Seq(StatesOf(NumWords + 1)) /\ Sorted(top)
  BY <1>1 DEF Stacks, LevelOK, top
<1>12. \A s \in StatesOf(NumWords + 1) : s.total \in Int
  BY DEF StatesOf, States
<1>13. Len(top) \in Nat /\ 1 \in 1..Len(top) /\ j \in Nat
  BY <1>10, <1>11
<1>14. top[1].total \in Int /\ top[j].total \in Int
  BY <1>10, <1>11, <1>12, <1>13, ElementOfSeq
<1>15. top[1].total >= top[j].total
  <2>1. CASE j = 1
    BY <1>14, <2>1
  <2>2. CASE j # 1
    BY <1>10, <1>11, <1>13, <2>2 DEF Sorted
  <2>3. QED
    BY <2>1, <2>2
<1> DEFINE a == EndState(t).total
           b == EndState(v).total
<1>16. a \in Int /\ b \in Int /\ a >= b /\ top[j].total >= a
  BY <1>6, <1>8, <1>10, <1>12
<1> HIDE DEF a, b
<1>17. top[1].total >= b
  BY <1>14, <1>15, <1>16
<1>18. QED
  BY <1>7, <1>17 DEF b, top

\* The invariants make an unpruned search exhaustive.
LEMMA BestIsFound ==
  ASSUME HashIsNat, DecoderInv, ScoresInv, FilesInv, BestInv, LmClosed(inst.lm), TagsAreWords
  PROVE  BestTranslation
<1> SUFFICES ASSUME ReorderingClasses <= 2, result.kind = "translated", ~isStop, commands = 0, NothingPruned
             PROVE  FoundBest
  BY DEF BestTranslation, RecombinationKeepsBest
<1>1. Decoding /\ currLevel > NumWords
  BY DEF BestInv
<1>2. ScoresOK
  BY <1>1, ScoresAreThere
<1>3. LevelsOK /\ NumWords \in Nat
  BY <1>1, SentenceOK DEF DecoderInv
<1>4. levels \in ScoredStacks /\ offered[0] # {} /\ \A s \in Expanded : AllOffered(s)
  BY <1>1 DEF ScoresInv, BestInv
<1>5. currLevel \in Int /\ \A l \in 0..(NumWords + 1) : offered[l] \subseteq StatesOf(l)
  BY <1>3 DEF LevelsOK
<1>6. ExhaustiveOK
  BY <1>1, <1>2, <1>4, <1>5 DEF ExhaustiveOK, ExactOK
<1>7. QED
  BY <1>6, FirstIsBest

\* With at most two classes of reordering, recombination never loses the best
\* translation: a search from which nothing was pruned returns a translation whose
\* score no way to translate the sentence exceeds.
THEOREM BestTranslationAlways ==
  HashIsNat /\ (\A i \in Instances : LmClosed(i.lm)) /\ TagsAreWords /\ Spec => []BestTranslation
<1> DEFINE Given == HashIsNat /\ (\A i \in Instances : LmClosed(i.lm)) /\ TagsAreWords
<1>1. Init => DecoderInv /\ ScoresInv /\ FilesInv /\ BestInv
  <2>1. Init => ScoresInv
    BY DEF Init, ScoresInv, CostsOK, Decoding
  <2>2. Init => BestInv
    BY DEF Init, BestInv, Decoding, NoResult
  <2>3. QED
    BY <2>1, <2>2, InitDecoder, FilesInit DEF Init
<1>2. Given /\ DecoderInv /\ ScoresInv /\ FilesInv /\ BestInv /\ [Next]_vars
        => DecoderInv' /\ ScoresInv' /\ FilesInv' /\ BestInv'
  <2>1. DecoderInv => TablesInv /\ inst \in Instances
    BY DEF DecoderInv, TablesInv
  <2>2. QED
    BY <2>1, DecoderInvStep, ScoresStep, FilesStep, BestStep
<1>3. Given /\ DecoderInv /\ ScoresInv /\ FilesInv /\ BestInv => BestTranslation
  <2>1. DecoderInv => inst \in Instances
    BY DEF DecoderInv, TablesInv
  <2>2. QED
    BY <2>1, BestIsFound
<1>4. Given => Given'
  BY DEF HashIsNat, LmClosed, TagsAreWords
<1> HIDE DEF Given
<1>5. Given /\ Spec => []BestTranslation
  BY <1>1, <1>2, <1>3, <1>4, PTL DEF Spec
<1>6. QED
  BY <1>5 DEF Given
=============================================================================
