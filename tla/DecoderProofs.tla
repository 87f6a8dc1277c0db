--------------------------- MODULE DecoderProofs ---------------------------
(***************************************************************************)
(* Theorems about the decoder and the parts it is made of: one level of    *)
(* the stack, the hash map, the language model and the tables' loading.    *)
(* They hold for all instances (files, sentences, parameters, commands of  *)
(* the console) of the types InstanceFields gives, and all bounds.         *)
(*                                                                         *)
(* The inductive invariant is DecoderInv.  Of a level it says Keeps, which *)
(* is what LevelsKeepBest says while the parameters stay, and is preserved *)
(* by add_state whichever way the state takes: add_before inserts,         *)
(* recombines and prunes, one lemma each about the list.  Of a state it    *)
(* says that its path's phrases are disjoint, have translations in the     *)
(* tables and cover as many words as the level's number.  Of the tables    *)
(* (TablesInv) it says that there is a free bucket for every entry still   *)
(* to be stored: the counting pass counted what the building pass stores.  *)
(* That an unstopped search arrives needs LevelsReached as well: every     *)
(* level passed has had states, because every state of it has made one of  *)
(* the next level, for the first uncovered word.                           *)
(*                                                                         *)
(* FilesInv adds what the tables hold of the lines that have been read.    *)
(* What the search finds is in SearchProofs.                               *)
(*                                                                         *)
(* Recursive functions and folds are unfolded by lemmas about ranks and    *)
(* chains, since induction with an operator as a parameter is not at hand. *)
(***************************************************************************)
EXTENDS Decoder, SequenceTheorems, WellFoundedInduction, FiniteSetTheorems, TLAPS

-----------------------------------------------------------------------------
(* One level of the stack                                                    *)

\* The list is sorted, and holds one state per sub-problem.
Sorted(states) ==
  \A i, j \in 1..Len(states) : i < j => states[i].total >= states[j].total
Distinct(states) ==
  \A i, j \in 1..Len(states) : i < j => ~SameSubproblem(states[i], states[j])

\* Some state of the list stands for s, and is no worse.
StoodFor(states, s) ==
  \E i \in 1..Len(states) : SameSubproblem(states[i], s) /\ states[i].total >= s.total

\* What add_state promises of one given state t.
Kept(states, bound, t, ps) ==
  \/ StoodFor(states, t)
  \/ t.total < bound
  \/ Len(states) = ps.capacity /\ states[Len(states)].total >= t.total

\* The list of a level that was given the states in `given`.
Keeps(level, given, ps) ==
  LET states == level.states
  IN /\ Len(states) <= ps.capacity /\ Sorted(states) /\ Distinct(states)
     /\ \A i \in 1..Len(states) : states[i].total >= level.bound
     /\ states # <<>> => level.bound = BoundOf(states[1], ps)
     /\ \A t \in given :
          /\ states # <<>> /\ states[1].total >= t.total
          /\ Kept(states, level.bound, t, ps)

\* What finalize() checks of the parameters.
ParamsOK(ps) ==
  ps.threshold \in Int /\ ps.threshold < 0 /\ ps.capacity \in Nat \ {0}

-----------------------------------------------------------------------------
(* Numbers and sequences                                                     *)

\* A set of natural numbers has a least element.
LEMMA MinExists ==
  ASSUME NEW T \in SUBSET Nat, T # {}
  PROVE  \E x \in T : \A y \in T : x <= y
<1>1. PICK x \in T : \A y \in T : ~(<<y, x>> \in OpToRel(<, Nat))
  BY NatLessThanWellFounded, WFMin
<1>2. \A y \in T : ~(y < x)
  BY <1>1 DEF OpToRel
<1>3. QED
  BY <1>2

\* A bounded one has a greatest.
LEMMA MaxExists ==
  ASSUME NEW n \in Nat, NEW T \in SUBSET (0..n), T # {}
  PROVE  \E x \in T : \A y \in T : y <= x
<1> DEFINE U == {n - y : y \in T}
<1>0. \A y \in T : y \in Nat /\ y <= n /\ n - y \in Nat
  OBVIOUS
<1>1. U \in SUBSET Nat /\ U # {}
  BY <1>0
<1>2. PICK u \in U : \A v \in U : u <= v
  BY <1>1, MinExists
<1>3. PICK x \in T : u = n - x
  OBVIOUS
<1>4. ASSUME NEW y \in T PROVE y <= x
  <2>1. n - x <= n - y
    BY <1>2, <1>3
  <2>2. QED
    BY <2>1
<1>5. QED
  BY <1>3, <1>4

\* The first k elements of a sequence.
LEMMA PrefixProps ==
  ASSUME NEW S, NEW s \in Seq(S), NEW k \in 0..Len(s)
  PROVE  /\ SubSeq(s, 1, k) \in Seq(S) /\ Len(SubSeq(s, 1, k)) = k
         /\ \A i \in 1..k : SubSeq(s, 1, k)[i] = s[i]
<1>1. \A i \in 1..k : s[i] \in S
  OBVIOUS
<1>2. QED
  BY <1>1, SubSeqProperties

\* The rest of a sequence after its first k elements.
LEMMA SuffixProps ==
  ASSUME NEW S, NEW s \in Seq(S), NEW k \in 0..Len(s)
  PROVE  /\ SubSeq(s, k + 1, Len(s)) \in Seq(S) /\ Len(SubSeq(s, k + 1, Len(s))) = Len(s) - k
         /\ \A i \in 1..Len(s) - k : SubSeq(s, k + 1, Len(s))[i] = s[k + i]
<1> DEFINE back == SubSeq(s, k + 1, Len(s))
<1>1. Len(s) \in Nat /\ k \in Nat /\ k <= Len(s)
  OBVIOUS
<1>2. \A i \in k + 1..Len(s) : s[i] \in S
  BY <1>1
<1>3. /\ back \in Seq(S) /\ Len(back) = IF k + 1 <= Len(s) THEN Len(s) - (k + 1) + 1 ELSE 0
      /\ \A i \in 1..Len(s) - (k + 1) + 1 : back[i] = s[k + 1 + i - 1]
  BY <1>1, <1>2, SubSeqProperties
<1> HIDE DEF back
<1>4. Len(back) = Len(s) - k
  BY <1>1, <1>3
<1>5. ASSUME NEW i \in 1..Len(s) - k PROVE back[i] = s[k + i]
  <2>1. i \in 1..Len(s) - (k + 1) + 1 /\ k + 1 + i - 1 = k + i
    BY <1>1
  <2>2. QED
    BY <1>3, <2>1
<1>6. QED
  BY <1>3, <1>4, <1>5 DEF back

\* A sequence with an element inserted behind its first p.
LEMMA InsertProps ==
  ASSUME NEW S, NEW s \in Seq(S), NEW p \in 0..Len(s), NEW e \in S, NEW q, q = p + 1
  PROVE  /\ InsertAt(s, q, e) \in Seq(S) /\ Len(InsertAt(s, q, e)) = Len(s) + 1
         /\ \A i \in 1..Len(s) + 1 :
              InsertAt(s, q, e)[i] = IF i <= p THEN s[i] ELSE IF i = p + 1 THEN e ELSE s[i - 1]
<1> DEFINE front == SubSeq(s, 1, p)
           back == SubSeq(s, p + 1, Len(s))
           r == InsertAt(s, q, e)
<1>0. Len(s) \in Nat /\ p \in Nat /\ p <= Len(s)
  OBVIOUS
<1>1. front \in Seq(S) /\ Len(front) = p /\ \A i \in 1..p : front[i] = s[i]
  BY PrefixProps
<1>2. back \in Seq(S) /\ Len(back) = Len(s) - p /\ \A i \in 1..Len(s) - p : back[i] = s[p + i]
  BY SuffixProps
<1>3. r = (front \o <<e>>) \o back
  <2>1. r = (SubSeq(s, 1, q - 1) \o <<e>>) \o SubSeq(s, q, Len(s))
    BY DEF InsertAt
  <2>2. q - 1 = p
    BY <1>0
  <2>3. QED
    BY <2>1, <2>2
<1> DEFINE h == front \o <<e>>
<1> HIDE DEF front, back, r
<1>h. /\ h \in Seq(S) /\ Len(h) = p + 1 /\ h[p + 1] = e
      /\ \A j \in 1..p : h[j] = s[j]
  <2>1. <<e>> \in Seq(S) /\ Len(<<e>>) = 1 /\ <<e>>[1] = e
    OBVIOUS
  <2>2. h \in Seq(S) /\ Len(h) = p + 1
    BY <1>0, <1>1, <2>1
  <2>3. \A j \in 1..p : h[j] = front[j]
    BY <1>0, <1>1, <2>1
  <2>4. h[p + 1] = <<e>>[p + 1 - p]
    BY <1>0, <1>1, <2>1
  <2>5. QED
    BY <1>0, <1>1, <2>1, <2>2, <2>3, <2>4
<1>g. r = h \o back
  BY <1>3
<1> HIDE DEF h
<1>4. r \in Seq(S) /\ Len(r) = Len(s) + 1
  <2>1. h \in Seq(S) /\ back \in Seq(S)
    BY <1>2, <1>h
  <2>2. r \in Seq(S) /\ Len(r) = Len(h) + Len(back)
    BY <1>g, <2>1
  <2>3. QED
    BY <1>0, <1>2, <1>h, <2>2, SMTT(30)
<1>5. ASSUME NEW i \in 1..Len(s) + 1
      PROVE  r[i] = IF i <= p THEN s[i] ELSE IF i = p + 1 THEN e ELSE s[i - 1]
  <2>3. CASE i <= p + 1
    BY <1>0, <1>2, <1>h, <1>g, <2>3
  <2>4. CASE i > p + 1
    <3>1. i - (p + 1) \in 1..Len(s) - p /\ p + (i - (p + 1)) = i - 1
      BY <1>0, <2>4
    <3>2. r[i] = back[i - (p + 1)]
      BY <1>0, <1>2, <1>h, <1>g, <2>4, <3>1, SMTT(30)
    <3>3. back[i - (p + 1)] = s[i - 1]
      BY <1>2, <3>1
    <3>4. QED
      BY <1>0, <2>4, <3>2, <3>3
  <2>5. QED
    BY <1>0, <2>3, <2>4
<1>6. QED
  BY <1>4, <1>5 DEF r

\* A sequence without its element m.
LEMMA RemoveProps ==
  ASSUME NEW S, NEW s \in Seq(S), NEW m \in 1..Len(s)
  PROVE  /\ RemoveAt(s, m) \in Seq(S) /\ Len(RemoveAt(s, m)) = Len(s) - 1
         /\ \A i \in 1..Len(s) - 1 : RemoveAt(s, m)[i] = IF i < m THEN s[i] ELSE s[i + 1]
<1> DEFINE front == SubSeq(s, 1, m - 1)
           back == SubSeq(s, m + 1, Len(s))
           r == RemoveAt(s, m)
<1>0. Len(s) \in Nat /\ m \in Nat /\ 1 <= m /\ m <= Len(s) /\ m - 1 \in 0..Len(s) /\ m \in 0..Len(s)
  OBVIOUS
<1>1. front \in Seq(S) /\ Len(front) = m - 1 /\ \A i \in 1..m - 1 : front[i] = s[i]
  BY <1>0, PrefixProps
<1>2. back \in Seq(S) /\ Len(back) = Len(s) - m /\ \A i \in 1..Len(s) - m : back[i] = s[m + i]
  BY <1>0, SuffixProps
<1>3. r = front \o back
  BY DEF RemoveAt
<1> HIDE DEF front, back, r
<1>4. r \in Seq(S) /\ Len(r) = Len(s) - 1
  BY <1>0, <1>1, <1>2, <1>3
<1>5. ASSUME NEW i \in 1..Len(s) - 1 PROVE r[i] = IF i < m THEN s[i] ELSE s[i + 1]
  <2>1. CASE i < m
    BY <1>0, <1>1, <1>2, <1>3, <2>1
  <2>2. CASE i >= m
    <3>1. i - (m - 1) \in 1..Len(s) - m /\ m + (i - (m - 1)) = i + 1
      BY <1>0, <2>2
    <3>2. r[i] = back[i - (m - 1)]
      BY <1>0, <1>1, <1>2, <1>3, <2>2, <3>1, SMTT(30)
    <3>3. back[i - (m - 1)] = s[i + 1]
      BY <1>2, <3>1
    <3>4. QED
      BY <1>0, <2>2, <3>2, <3>3
  <2>3. QED
    BY <1>0, <2>1, <2>2
<1>6. QED
  BY <1>4, <1>5 DEF r

-----------------------------------------------------------------------------
(* What add_state does to the list                                           *)

\* find_pos_recombine stops after the states that are better.
LEMMA NumBetterProps ==
  ASSUME NEW S, \A x \in S : x.total \in Int, NEW states \in Seq(S), NEW s \in S
  PROVE  LET p == NumBetter(states, s)
         IN /\ p \in 0..Len(states)
            /\ \A i \in 1..p : states[i].total > s.total
            /\ p < Len(states) => states[p + 1].total <= s.total
<1> DEFINE T == {k \in 0..Len(states) : k = Len(states) \/ states[k + 1].total <= s.total}
           Good(k) == /\ \A i \in 1..k : states[i].total > s.total
                      /\ k < Len(states) => states[k + 1].total <= s.total
<1>0. Len(states) \in Nat /\ \A i \in 1..Len(states) : states[i].total \in Int
  OBVIOUS
<1>1. T \in SUBSET Nat /\ T # {}
  BY <1>0
<1>2. PICK k \in T : \A y \in T : k <= y
  BY <1>1, MinExists
<1>3. ASSUME NEW i \in 1..k PROVE states[i].total > s.total
  <2>1. i - 1 \in 0..Len(states) /\ i - 1 < k /\ i - 1 + 1 = i /\ i \in 1..Len(states) /\ i - 1 # Len(states)
    BY <1>0, <1>2
  <2>2. i - 1 \notin T
    <3>1. k \in Nat /\ ~(k <= i - 1)
      BY <1>0, <1>2, <2>1
    <3>2. QED
      BY <1>2, <3>1
  <2>3. ~(states[i].total <= s.total)
    BY <2>1, <2>2
  <2>4. QED
    BY <1>0, <2>1, <2>3
<1>4. k \in 0..Len(states) /\ Good(k)
  BY <1>2, <1>3
<1>5. NumBetter(states, s) = CHOOSE p \in 0..Len(states) : Good(p)
  BY DEF NumBetter
<1> HIDE DEF Good
<1>6. NumBetter(states, s) \in 0..Len(states) /\ Good(NumBetter(states, s))
  BY <1>4, <1>5
<1>7. QED
  BY <1>6 DEF Good

\* Pruning keeps as long a prefix as the capacity and the bound allow.
LEMMA PruneProps ==
  ASSUME NEW S, \A x \in S : x.total \in Int, NEW list \in Seq(S),
         NEW bound \in Int, NEW capacity \in Nat
  PROVE  \E k \in 0..Len(list) :
           /\ PruneStates(list, bound, capacity) = SubSeq(list, 1, k)
           /\ k <= capacity /\ (k > 0 => list[k].total >= bound)
           /\ k = Len(list) \/ k = capacity \/ list[k + 1].total < bound
<1> DEFINE fits == {k \in 0..Len(list) : k <= capacity /\ (k > 0 => list[k].total >= bound)}
           k == CHOOSE i \in fits : \A j \in fits : j <= i
<1>0. Len(list) \in Nat /\ \A i \in 1..Len(list) : list[i].total \in Int
  OBVIOUS
<1>1. fits \in SUBSET (0..Len(list)) /\ fits # {}
  <2>1. 0 \in fits
    BY <1>0
  <2>2. QED
    BY <2>1
<1>2. \E i \in fits : \A j \in fits : j <= i
  <2> HIDE DEF fits
  <2>1. QED
    BY <1>0, <1>1, MaxExists
<1>3. k \in fits /\ \A j \in fits : j <= k
  <2> HIDE DEF fits
  <2>1. QED
    BY <1>2
<1>4. PruneStates(list, bound, capacity) = SubSeq(list, 1, k)
  BY DEF PruneStates
<1> HIDE DEF k
<1>5. k = Len(list) \/ k = capacity \/ list[k + 1].total < bound
  <2>1. SUFFICES ASSUME k # Len(list), k # capacity, ~(list[k + 1].total < bound) PROVE FALSE
    OBVIOUS
  <2>2. k \in Nat /\ k <= Len(list) /\ k <= capacity
    BY <1>0, <1>3
  <2>3. k + 1 \in 0..Len(list) /\ k + 1 <= capacity /\ k + 1 \in 1..Len(list)
    BY <1>0, <2>1, <2>2
  <2>4. list[k + 1].total >= bound
    BY <1>0, <2>1, <2>3
  <2>5. k + 1 \in fits
    BY <2>3, <2>4
  <2>6. QED
    BY <1>3, <2>2, <2>5
<1>6. QED
  BY <1>3, <1>4, <1>5

\* operator== compares fields, so it is reflexive, symmetric and transitive.
LEMMA SameIsEquivalence ==
  ASSUME NEW x, NEW y, NEW z
  PROVE  /\ SameSubproblem(x, x)
         /\ SameSubproblem(x, y) => SameSubproblem(y, x)
         /\ SameSubproblem(x, y) /\ SameSubproblem(y, z) => SameSubproblem(x, z)
BY DEF SameSubproblem

\* The list after add_before inserted s behind p better states and recombined
\* the state at d with it; d is behind the last when there was none.
Merged(list, states, p, s, d) ==
  LET n == Len(states)
  IN /\ Len(list) = IF d = n + 1 THEN n + 1 ELSE n
     /\ \A i \in 1..p : list[i] = states[i]
     /\ list[p + 1] = s
     /\ \A i \in p + 2..d : list[i] = states[i - 1]
     /\ \A i \in d + 1..n : list[i] = states[i]

\* add_before merges the new state in: it comes behind the p better ones, and the
\* first worse state of its sub-problem, if there is one, goes.
LEMMA MergeShape ==
  ASSUME NEW S, NEW states \in Seq(S), NEW s \in S, NEW p \in 0..Len(states), Distinct(states),
         \A i \in 1..p : ~SameSubproblem(states[i], s)
  PROVE  \E d \in p + 1..Len(states) + 1 :
           /\ Merged(RecombineFrom(InsertAt(states, p + 1, s), p + 2, s), states, p, s, d)
           /\ RecombineFrom(InsertAt(states, p + 1, s), p + 2, s) \in Seq(S)
           /\ \A i \in 1..Len(states) : i # d => ~SameSubproblem(states[i], s)
           /\ d <= Len(states) => SameSubproblem(states[d], s)
<1> DEFINE n == Len(states)
           ins == InsertAt(states, p + 1, s)
           same == {i \in p + 2..Len(ins) : SameSubproblem(ins[i], s)}
           list == RecombineFrom(ins, p + 2, s)
<1>0. n \in Nat /\ p \in Nat /\ p <= n
  OBVIOUS
<1>1. /\ ins \in Seq(S) /\ Len(ins) = n + 1
      /\ \A i \in 1..n + 1 : ins[i] = IF i <= p THEN states[i] ELSE IF i = p + 1 THEN s ELSE states[i - 1]
  <2> DEFINE q == p + 1
  <2>1. q = p + 1
    OBVIOUS
  <2> HIDE DEF q
  <2>2. /\ InsertAt(states, q, s) \in Seq(S) /\ Len(InsertAt(states, q, s)) = Len(states) + 1
        /\ \A i \in 1..Len(states) + 1 :
             InsertAt(states, q, s)[i] =
               IF i <= p THEN states[i] ELSE IF i = p + 1 THEN s ELSE states[i - 1]
    BY <2>1, InsertProps
  <2>3. QED
    BY <2>1, <2>2
<1>2. list = IF same = {} THEN ins
             ELSE RemoveAt(ins, CHOOSE i \in same : \A j \in same : i <= j)
  BY DEF RecombineFrom
<1> HIDE DEF list, ins
<1>3. CASE same = {}
  <2>1. Merged(ins, states, p, s, n + 1)
    BY <1>0, <1>1 DEF Merged
  <2>2. ASSUME NEW i \in 1..n PROVE ~SameSubproblem(states[i], s)
    <3>1. CASE i <= p
      BY <1>0, <3>1
    <3>2. CASE i > p
      <4>1. i + 1 \in p + 2..Len(ins) /\ i + 1 \in 1..n + 1 /\ ~(i + 1 <= p) /\ i + 1 # p + 1 /\ i + 1 - 1 = i
        BY <1>0, <1>1, <3>2
      <4>2. ins[i + 1] = states[i]
        BY <1>1, <4>1
      <4>3. ~SameSubproblem(ins[i + 1], s)
        BY <1>3, <4>1
      <4>4. QED
        BY <4>2, <4>3
    <3>3. QED
      BY <1>0, <3>1, <3>2
  <2>3. n + 1 \in p + 1..n + 1 /\ ~(n + 1 <= n)
    BY <1>0
  <2>4. list = ins
    BY <1>2, <1>3
  <2>5. QED
    BY <1>1, <2>1, <2>2, <2>3, <2>4 DEF list, ins
<1>4. CASE same # {}
  <2> DEFINE m == CHOOSE i \in same : \A j \in same : i <= j
             d == m - 1
  <2>1. same \in SUBSET Nat
    BY <1>0, <1>1
  <2>2. \E i \in same : \A j \in same : i <= j
    <3> HIDE DEF same
    <3>1. QED
      BY <1>4, <2>1, MinExists
  <2>3. m \in same
    <3> HIDE DEF same
    <3>1. QED
      BY <2>2
  <2>4. list = RemoveAt(ins, m)
    BY <1>2, <1>4
  <2> HIDE DEF m
  <2>5. m \in p + 2..n + 1 /\ m \in 1..Len(ins) /\ SameSubproblem(ins[m], s)
    BY <1>0, <1>1, <2>3
  <2>6. /\ list \in Seq(S) /\ Len(list) = n
        /\ \A i \in 1..n : list[i] = IF i < m THEN ins[i] ELSE ins[i + 1]
    <3>1. /\ RemoveAt(ins, m) \in Seq(S) /\ Len(RemoveAt(ins, m)) = Len(ins) - 1
          /\ \A i \in 1..Len(ins) - 1 : RemoveAt(ins, m)[i] = IF i < m THEN ins[i] ELSE ins[i + 1]
      BY <1>1, <2>5, RemoveProps
    <3>2. Len(ins) - 1 = n
      BY <1>0, <1>1
    <3>3. QED
      BY <2>4, <3>1, <3>2
  <2>7. d \in p + 1..n + 1 /\ d <= n /\ d \in 1..n /\ d + 1 = m /\ ~(m <= p) /\ m # p + 1
    BY <1>0, <2>5
  <2>8. SameSubproblem(states[d], s)
    <3>1. ins[m] = states[d]
      BY <1>0, <1>1, <2>5, <2>7
    <3>2. QED
      BY <2>5, <3>1
  <2>9. ASSUME NEW i \in 1..n, i # d PROVE ~SameSubproblem(states[i], s)
    <3>1. SameSubproblem(states[i], s) =>
            SameSubproblem(states[i], states[d]) /\ SameSubproblem(states[d], states[i])
      BY <2>8, SameIsEquivalence
    <3>2. ~SameSubproblem(states[i], states[d]) \/ ~SameSubproblem(states[d], states[i])
      <4>1. i < d \/ d < i
        BY <1>0, <2>7, <2>9
      <4>2. QED
        BY <2>7, <4>1 DEF Distinct
    <3>3. QED
      BY <3>1, <3>2
  <2>10. Merged(list, states, p, s, d)
    <3>1. \A i \in 1..p : list[i] = states[i]
      BY <1>0, <1>1, <2>5, <2>6
    <3>2. list[p + 1] = s
      BY <1>0, <1>1, <2>5, <2>6
    <3>3. \A i \in p + 2..d : list[i] = states[i - 1]
      BY <1>0, <1>1, <2>5, <2>6, <2>7, SMTT(30)
    <3>4. ASSUME NEW i \in d + 1..n PROVE list[i] = states[i]
      <4>1. i \in 1..n /\ ~(i < m) /\ i + 1 \in 1..n + 1 /\ ~(i + 1 <= p) /\ i + 1 # p + 1 /\ i + 1 - 1 = i
        BY <1>0, <2>5, <2>7
      <4>2. list[i] = ins[i + 1] /\ ins[i + 1] = states[i]
        BY <1>1, <2>6, <4>1
      <4>3. QED
        BY <4>2
    <3>5. Len(list) = n /\ d # n + 1
      BY <1>0, <2>6, <2>7
    <3>6. QED
      BY <3>1, <3>2, <3>3, <3>4, <3>5 DEF Merged
  <2> HIDE DEF d
  <2>11. QED
    BY <2>6, <2>7, <2>8, <2>9, <2>10 DEF list, ins
<1>5. QED
  BY <1>3, <1>4
\* What the merged list keeps of the old one: it is sorted and without equal
\* states, it has s and for each old state one that stands for it, and nothing
\* in it is worse than the old last state.
LEMMA MergeKeeps ==
  ASSUME NEW S, \A x \in S : x.total \in Int,
         NEW states \in Seq(S), Sorted(states), Distinct(states), NEW s \in S,
         NEW p \in Nat, p < Len(states),
         \A i \in 1..p : states[i].total > s.total /\ ~SameSubproblem(states[i], s),
         states[p + 1].total <= s.total,
         NEW list \in Seq(S), NEW d \in p + 1..Len(states) + 1, Merged(list, states, p, s, d),
         \A i \in 1..Len(states) : i # d => ~SameSubproblem(states[i], s),
         d <= Len(states) => SameSubproblem(states[d], s)
  PROVE  /\ Sorted(list) /\ Distinct(list)
         /\ Len(list) >= Len(states) /\ list[p + 1] = s /\ p + 1 <= Len(list)
         /\ p > 0 => list[1] = states[1]
         /\ \A i \in 1..Len(states) : StoodFor(list, states[i])
         /\ \A j \in 1..Len(list) : list[j].total >= states[Len(states)].total
<1> DEFINE n == Len(states)
<1>0. /\ n \in Nat /\ p < n /\ d \in Nat /\ d >= p + 1 /\ d <= n + 1
      /\ \A i \in 1..n : states[i].total \in Int
      /\ s.total \in Int /\ states[p + 1].total <= s.total
  OBVIOUS
<1>1. /\ Len(list) = IF d = n + 1 THEN n + 1 ELSE n
      /\ \A i \in 1..p : list[i] = states[i]
      /\ list[p + 1] = s
      /\ \A i \in p + 2..d : list[i] = states[i - 1]
      /\ \A i \in d + 1..n : list[i] = states[i]
  BY DEF Merged
\* The old position of each new state other than s.
<1> DEFINE Old(i) == IF i <= p \/ i > d THEN i ELSE i - 1
<1>2. ASSUME NEW i \in 1..Len(list), i # p + 1
      PROVE  Old(i) \in 1..n /\ Old(i) # d /\ list[i] = states[Old(i)]
  <2>1. CASE i <= p
    BY <1>0, <1>1, <2>1
  <2>2. CASE i > d
    BY <1>0, <1>1, <2>2
  <2>3. CASE p < i /\ i <= d
    <3>1. i \in p + 2..d /\ Old(i) = i - 1
      BY <1>0, <1>2, <2>3, SMTT(30)
    <3>2. QED
      BY <1>0, <1>1, <3>1
  <2>4. QED
    BY <1>0, <2>1, <2>2, <2>3
<1>3. ASSUME NEW i \in 1..Len(list), NEW j \in 1..Len(list), i < j, i # p + 1, j # p + 1
      PROVE  Old(i) < Old(j)
  BY <1>0, <1>1, <1>3
<1>4. ASSUME NEW i \in 1..Len(list), i # p + 1
      PROVE  (i < p + 1 => Old(i) \in 1..p) /\ (i > p + 1 => Old(i) >= p + 1)
  BY <1>0, <1>1, <1>4
<1> HIDE DEF Old
<1>5. \A i \in p + 1..n : states[i].total <= s.total
  <2>1. ASSUME NEW i \in p + 1..n PROVE states[i].total <= s.total
    <3>1. CASE i = p + 1
      BY <1>0, <3>1
    <3>2. CASE i # p + 1
      <4>1. p + 1 \in 1..n /\ i \in 1..n /\ p + 1 < i
        BY <1>0, <3>2
      <4>2. states[p + 1].total >= states[i].total
        BY <4>1 DEF Sorted
      <4>3. QED
        BY <1>0, <4>1, <4>2, SMTT(30)
    <3>3. QED
      BY <3>1, <3>2
  <2>2. QED
    BY <2>1
<1>6. Sorted(list)
  <2>1. ASSUME NEW i \in 1..Len(list), NEW j \in 1..Len(list), i < j
        PROVE  list[i].total >= list[j].total
    <3>1. CASE i # p + 1 /\ j # p + 1
      BY <1>2, <1>3, <2>1, <3>1 DEF Sorted
    <3>2. CASE j = p + 1
      <4>1. i < p + 1 /\ i # p + 1
        BY <1>0, <2>1, <3>2
      <4>2. Old(i) \in 1..p /\ Old(i) \in 1..n /\ list[i] = states[Old(i)]
        BY <1>2, <1>4, <4>1
      <4>3. states[Old(i)].total > s.total
        BY <4>2
      <4>4. states[Old(i)].total \in Int /\ list[j] = s
        BY <1>0, <1>1, <3>2, <4>2
      <4>5. QED
        BY <1>0, <4>2, <4>3, <4>4, SMTT(30)
    <3>3. CASE i = p + 1
      <4>1. Old(j) \in p + 1..n /\ list[j] = states[Old(j)]
        BY <1>0, <1>2, <1>4, <2>1, <3>3
      <4>2. QED
        BY <1>0, <1>1, <1>5, <3>3, <4>1
    <3>4. QED
      BY <3>1, <3>2, <3>3
  <2>2. QED
    BY <2>1 DEF Sorted
<1>7. Distinct(list)
  <2>1. ASSUME NEW i \in 1..Len(list), NEW j \in 1..Len(list), i < j
        PROVE  ~SameSubproblem(list[i], list[j])
    <3>1. CASE i # p + 1 /\ j # p + 1
      BY <1>2, <1>3, <2>1, <3>1 DEF Distinct
    <3>2. CASE j = p + 1
      <4>1. i # p + 1
        BY <2>1, <3>2
      <4>2. ~SameSubproblem(states[Old(i)], s)
        BY <1>2, <4>1
      <4>3. QED
        BY <1>1, <1>2, <3>2, <4>1, <4>2
    <3>3. CASE i = p + 1
      <4>1. j # p + 1
        BY <2>1, <3>3
      <4>2. ~SameSubproblem(states[Old(j)], s)
        BY <1>2, <4>1
      <4>3. ~SameSubproblem(s, states[Old(j)])
        BY <4>2, SameIsEquivalence
      <4>4. QED
        BY <1>1, <1>2, <3>3, <4>1, <4>3
    <3>4. QED
      BY <3>1, <3>2, <3>3
  <2>2. QED
    BY <2>1 DEF Distinct
<1>8. Len(list) >= n /\ p + 1 \in 1..Len(list)
  BY <1>0, <1>1
<1>9. ASSUME NEW i \in 1..n PROVE StoodFor(list, states[i])
  <2>1. SUFFICES \E j \in 1..Len(list) :
                   SameSubproblem(list[j], states[i]) /\ list[j].total >= states[i].total
    BY DEF StoodFor
  <2>2. CASE i = d
    <3>1. SameSubproblem(s, states[i]) /\ s.total >= states[i].total
      BY <1>0, <1>5, <2>2, SameIsEquivalence
    <3>2. QED
      BY <1>1, <1>8, <3>1
  <2>3. CASE i # d
    <3> DEFINE j == IF i <= p \/ i > d THEN i ELSE i + 1
    <3>1. j \in 1..Len(list) /\ list[j] = states[i]
      <4>1. CASE i <= p
        BY <1>0, <1>1, <1>8, <4>1
      <4>2. CASE i > d
        BY <1>0, <1>1, <1>8, <4>2
      <4>3. CASE p < i /\ i < d
        <5>1. j = i + 1 /\ i + 1 \in p + 2..d /\ i + 1 - 1 = i
          BY <1>0, <4>3
        <5>2. QED
          BY <1>0, <1>1, <5>1, SMTT(30)
      <4>4. QED
        BY <1>0, <2>3, <4>1, <4>2, <4>3
    <3> HIDE DEF j
    <3>2. SameSubproblem(states[i], states[i])
      BY SameIsEquivalence
    <3>3. states[i].total >= states[i].total
      BY <1>0, SMTT(30)
    <3>4. QED
      BY <3>1, <3>2, <3>3
  <2>4. QED
    BY <2>2, <2>3
<1>10. ASSUME NEW j \in 1..Len(list) PROVE list[j].total >= states[n].total
  <2>1. n \in p + 1..n /\ n \in 1..n
    BY <1>0, SMTT(30)
  <2>2. CASE j = p + 1
    BY <1>0, <1>1, <1>5, <2>1, <2>2
  <2>3. CASE j # p + 1
    <3>1. Old(j) \in 1..n /\ list[j] = states[Old(j)]
      BY <1>2, <2>3
    <3>2. CASE Old(j) = n
      BY <1>0, <2>1, <3>1, <3>2, SMTT(30)
    <3>3. CASE Old(j) # n
      BY <1>0, <2>1, <3>1, <3>3, SMTT(30) DEF Sorted
    <3>4. QED
      BY <3>2, <3>3
  <2>4. QED
    BY <2>2, <2>3
<1>11. p > 0 => list[1] = states[1]
  <2>1. p > 0 => 1 \in 1..p
    BY <1>0
  <2>2. QED
    BY <1>1, <2>1
<1>12. QED
  BY <1>0, <1>1, <1>6, <1>7, <1>8, <1>9, <1>10, <1>11

\* Pruning a sorted list that has enough for t leaves enough for t.
LEMMA PruneKeeps ==
  ASSUME NEW S, \A x \in S : x.total \in Int, NEW list \in Seq(S), Sorted(list), NEW t \in S,
         NEW bound \in Int, NEW ps, ParamsOK(ps), NEW k \in 1..Len(list),
         k = Len(list) \/ k = ps.capacity \/ list[k + 1].total < bound,
         \/ StoodFor(list, t)
         \/ t.total < bound
         \/ Len(list) >= ps.capacity /\ \A j \in 1..Len(list) : list[j].total >= t.total
  PROVE  k <= ps.capacity => Kept(SubSeq(list, 1, k), bound, t, ps)
<1> DEFINE new == SubSeq(list, 1, k)
<1>0. /\ Len(list) \in Nat /\ k \in Nat /\ k <= Len(list) /\ 1 <= k
      /\ \A i \in 1..Len(list) : list[i].total \in Int
      /\ t.total \in Int /\ ps.capacity \in Nat
  BY DEF ParamsOK
<1>1. new \in Seq(S) /\ Len(new) = k /\ \A i \in 1..k : new[i] = list[i]
  <2>1. k \in 0..Len(list)
    BY <1>0
  <2>2. QED
    BY <2>1, PrefixProps
<1> HIDE DEF new
<1>2. SUFFICES ASSUME k <= ps.capacity PROVE Kept(new, bound, t, ps)
  BY DEF new
<1>3. ASSUME StoodFor(list, t) PROVE Kept(new, bound, t, ps)
  <2>1. PICK i \in 1..Len(list) : SameSubproblem(list[i], t) /\ list[i].total >= t.total
    BY <1>3 DEF StoodFor
  <2>2. CASE i <= k
    <3>1. i \in 1..Len(new) /\ new[i] = list[i]
      BY <1>0, <1>1, <2>2
    <3>2. QED
      BY <2>1, <3>1 DEF Kept, StoodFor
  <2>3. CASE i > k
    <3>1. k + 1 \in 1..Len(list) /\ k \in 1..Len(list)
      BY <1>0, <2>3
    <3>2. CASE k = ps.capacity
      <4>1. list[k].total >= list[i].total
        BY <1>0, <2>3, <3>1 DEF Sorted
      <4>2. new[k].total >= t.total
        BY <1>0, <1>1, <2>1, <3>1, <4>1, SMTT(30)
      <4>3. QED
        BY <1>1, <3>2, <4>2 DEF Kept
    <3>3. CASE list[k + 1].total < bound
      <4>1. list[k + 1].total >= list[i].total
        <5>1. CASE i = k + 1
          BY <1>0, <5>1
        <5>2. CASE i # k + 1
          BY <1>0, <2>3, <3>1, <5>2 DEF Sorted
        <5>3. QED
          BY <5>1, <5>2
      <4>2. t.total < bound
        BY <1>0, <2>1, <3>1, <3>3, <4>1, SMTT(30)
      <4>3. QED
        BY <4>2 DEF Kept
    <3>4. QED
      BY <1>0, <2>3, <3>2, <3>3
  <2>4. QED
    BY <1>0, <2>2, <2>3
<1>4. ASSUME Len(list) >= ps.capacity, \A j \in 1..Len(list) : list[j].total >= t.total
      PROVE  Kept(new, bound, t, ps)
  <2>1. CASE k = ps.capacity
    <3>1. new[Len(new)].total >= t.total
      BY <1>0, <1>1, <1>4
    <3>2. QED
      BY <1>1, <2>1, <3>1 DEF Kept
  <2>2. CASE k # ps.capacity
    <3>1. k + 1 \in 1..Len(list) /\ k # Len(list)
      BY <1>0, <1>2, <1>4, <2>2
    <3>2. list[k + 1].total < bound /\ list[k + 1].total >= t.total
      BY <1>4, <2>2, <3>1
    <3>3. t.total < bound
      BY <1>0, <3>1, <3>2
    <3>4. QED
      BY <3>3 DEF Kept
  <2>3. QED
    BY <2>1, <2>2
<1>5. QED
  BY <1>3, <1>4 DEF Kept

-----------------------------------------------------------------------------
(* The theorems                                                              *)

\* A level starts with nothing given to it and nothing in it.
THEOREM EmptyLevelKeeps ==
  ASSUME NEW ps, ParamsOK(ps) PROVE Keeps(EmptyLevel, {}, ps)
<1>1. EmptyLevel.states = <<>> /\ Len(EmptyLevel.states) = 0 /\ ps.capacity \in Nat
  BY DEF EmptyLevel, ParamsOK
<1>2. QED
  BY <1>1 DEF Keeps, Sorted, Distinct

\* Inserting before a state that is no better keeps what the level promises.
LEMMA AddBeforeKeeps ==
  ASSUME NEW S, \A x \in S : x.total \in Int, NEW ps, ParamsOK(ps),
         NEW level, level.states \in Seq(S), level.bound \in Int,
         NEW given \in SUBSET S, Keeps(level, given, ps), NEW s \in S,
         NEW p \in Nat, p < Len(level.states),
         \A i \in 1..p : level.states[i].total > s.total /\ ~SameSubproblem(level.states[i], s),
         level.states[p + 1].total <= s.total
  PROVE  LET new == AddBefore(level, p, s, ps)
         IN /\ new \in [states : Seq(S), bound : Int]
            /\ Keeps(new, given \cup {s}, ps)
<1> DEFINE states == level.states
           n == Len(states)
           bound == IF p = 0 THEN BoundOf(s, ps) ELSE level.bound
           list == RecombineFrom(InsertAt(states, p + 1, s), p + 2, s)
           pruned == PruneStates(list, bound, ps.capacity)
           new == AddBefore(level, p, s, ps)
<1>0. /\ n \in Nat /\ p < n /\ p \in 0..n /\ states \in Seq(S)
      /\ \A i \in 1..n : states[i].total \in Int
      /\ s.total \in Int /\ ps.capacity \in Nat /\ ps.capacity > 0
      /\ ps.threshold \in Int /\ ps.threshold < 0
  BY SMTT(30) DEF ParamsOK
<1>1. /\ Sorted(states) /\ Distinct(states) /\ n <= ps.capacity
      /\ \A i \in 1..n : states[i].total >= level.bound
      /\ level.bound = BoundOf(states[1], ps)
      /\ \A t \in given : states[1].total >= t.total /\ Kept(states, level.bound, t, ps)
  <2>1. states # <<>>
    BY <1>0
  <2>2. QED
    BY <2>1 DEF Keeps, Kept
<1>2. new = [states |-> pruned, bound |-> bound]
  BY DEF AddBefore
<1>3. PICK d \in p + 1..n + 1 :
        /\ Merged(list, states, p, s, d) /\ list \in Seq(S)
        /\ \A i \in 1..n : i # d => ~SameSubproblem(states[i], s)
        /\ d <= n => SameSubproblem(states[d], s)
  BY <1>0, <1>1, MergeShape
<1> HIDE DEF list
<1>4. /\ Sorted(list) /\ Distinct(list)
      /\ Len(list) >= n /\ list[p + 1] = s /\ p + 1 <= Len(list)
      /\ p > 0 => list[1] = states[1]
      /\ \A i \in 1..n : StoodFor(list, states[i])
      /\ \A j \in 1..Len(list) : list[j].total >= states[n].total
  BY <1>0, <1>1, <1>3, MergeKeeps
<1>5. bound \in Int /\ bound >= level.bound
  <2>1. 1 \in 1..n
    BY <1>0
  <2>2. CASE p = 0
    BY <1>0, <1>1, <2>1, <2>2, SMTT(30) DEF BoundOf
  <2>3. CASE p # 0
    BY <2>3
  <2>4. QED
    BY <2>2, <2>3
<1>6. list[1].total >= states[1].total /\ list[1].total >= s.total /\ bound = BoundOf(list[1], ps)
  <2>1. 1 \in 1..n
    BY <1>0
  <2>2. CASE p = 0
    BY <1>0, <1>4, <2>1, <2>2
  <2>3. CASE p # 0
    <3>1. 1 \in 1..p /\ list[1] = states[1]
      BY <1>0, <1>4, <2>3
    <3>2. states[1].total > s.total
      BY <3>1
    <3>3. QED
      BY <1>0, <1>1, <2>1, <2>3, <3>1, <3>2, SMTT(30)
  <2>4. QED
    BY <2>2, <2>3
<1>7. list[1].total > bound /\ list[1].total \in Int /\ Len(list) \in Nat /\ Len(list) >= 1
  <2>1. Len(list) \in Nat /\ Len(list) >= 1
    BY <1>0, <1>3, <1>4
  <2>2. list[1].total \in Int
    BY <1>3, <2>1
  <2>3. QED
    BY <1>0, <1>6, <2>1, <2>2, SMTT(30) DEF BoundOf
<1> HIDE DEF bound
<1>8. PICK k \in 0..Len(list) :
        /\ pruned = SubSeq(list, 1, k)
        /\ k <= ps.capacity /\ (k > 0 => list[k].total >= bound)
        /\ k = Len(list) \/ k = ps.capacity \/ list[k + 1].total < bound
  BY <1>0, <1>3, <1>5, PruneProps
<1>9. k \in 1..Len(list) /\ k \in Nat
  <2>1. k # 0
    BY <1>0, <1>5, <1>7, <1>8
  <2>2. QED
    BY <1>7, <2>1
<1>10. pruned \in Seq(S) /\ Len(pruned) = k /\ \A i \in 1..k : pruned[i] = list[i]
  BY <1>3, <1>8, PrefixProps
<1> HIDE DEF pruned
<1>11. \A i \in 1..Len(list) : list[i].total \in Int
  BY <1>3
<1>12. Sorted(pruned) /\ Distinct(pruned)
  <2>1. \A i \in 1..Len(pruned) : i \in 1..Len(list) /\ pruned[i] = list[i]
    BY <1>7, <1>9, <1>10
  <2>2. QED
    BY <1>4, <2>1 DEF Sorted, Distinct
<1>13. ASSUME NEW i \in 1..Len(pruned) PROVE pruned[i].total >= bound
  <2>1. i \in 1..Len(list) /\ i \in 1..k /\ pruned[i] = list[i] /\ list[k].total >= bound
    BY <1>7, <1>8, <1>9, <1>10
  <2>2. list[i].total >= list[k].total
    <3>1. CASE i = k
      BY <1>11, <2>1, <3>1
    <3>2. CASE i # k
      <4>1. i < k
        BY <1>9, <2>1, <3>2
      <4>2. QED
        BY <1>4, <1>9, <2>1, <4>1 DEF Sorted
    <3>3. QED
      BY <3>1, <3>2
  <2>3. QED
    BY <1>5, <1>9, <1>11, <2>1, <2>2, SMTT(30)
<1>14. pruned # <<>> /\ pruned[1] = list[1]
  BY <1>9, <1>10
<1>15. ASSUME NEW t \in given \cup {s}
       PROVE  pruned[1].total >= t.total /\ Kept(pruned, bound, t, ps)
  <2>1. t \in S /\ t.total \in Int
    OBVIOUS
  <2>2. SUFFICES /\ list[1].total >= t.total
                 /\ \/ StoodFor(list, t)
                    \/ t.total < bound
                    \/ Len(list) >= ps.capacity /\ \A j \in 1..Len(list) : list[j].total >= t.total
    <3>1. k <= ps.capacity => Kept(SubSeq(list, 1, k), bound, t, ps)
      BY <1>3, <1>4, <1>5, <1>8, <1>9, <2>1, <2>2, PruneKeeps
    <3>2. QED
      BY <1>8, <1>14, <2>2, <3>1
  <2>3. CASE t = s
    <3>1. p + 1 \in 1..Len(list) /\ list[p + 1] = t /\ t.total >= t.total
      BY <1>0, <1>4, <1>7, <2>1, <2>3
    <3>2. StoodFor(list, t)
      BY <3>1, SameIsEquivalence DEF StoodFor
    <3>3. QED
      BY <1>6, <2>3, <3>2
  <2>4. CASE t \in given
    <3>1. states[1].total >= t.total /\ Kept(states, level.bound, t, ps) /\ 1 \in 1..n /\ n \in 1..n
      BY <1>0, <1>1, <2>4
    <3>2. list[1].total >= t.total
      BY <1>0, <1>6, <1>7, <2>1, <3>1, SMTT(30)
    <3>3. CASE StoodFor(states, t)
      <4>1. PICK i \in 1..n : SameSubproblem(states[i], t) /\ states[i].total >= t.total
        BY <3>3 DEF StoodFor
      <4>2. PICK j \in 1..Len(list) :
              SameSubproblem(list[j], states[i]) /\ list[j].total >= states[i].total
        BY <1>4 DEF StoodFor
      <4>3. SameSubproblem(list[j], t)
        BY <4>1, <4>2, SameIsEquivalence
      <4>4. list[j].total >= t.total
        <5>1. list[j].total \in Int /\ states[i].total \in Int
          BY <1>0, <1>11
        <5>2. QED
          BY <2>1, <4>1, <4>2, <5>1, SMTT(30)
      <4>5. QED
        BY <3>2, <4>3, <4>4 DEF StoodFor
    <3>4. CASE t.total < level.bound
      BY <1>5, <2>1, <3>2, <3>4
    <3>5. CASE n = ps.capacity /\ states[n].total >= t.total
      <4>1. \A j \in 1..Len(list) : list[j].total >= t.total
        <5>1. states[n].total \in Int /\ states[n].total >= t.total /\ t.total \in Int
          BY <1>0, <2>1, <3>1, <3>5
        <5>2. ASSUME NEW j \in 1..Len(list) PROVE list[j].total >= t.total
          <6>1. list[j].total \in Int /\ list[j].total >= states[n].total
            BY <1>4, <1>11
          <6>2. QED
            BY <5>1, <6>1, SMTT(30)
        <5>3. QED
          BY <5>2
      <4>2. QED
        BY <1>4, <3>2, <3>5, <4>1
    <3>6. QED
      BY <3>1, <3>3, <3>4, <3>5 DEF Kept
  <2>5. QED
    BY <2>3, <2>4
<1>16. Keeps([states |-> pruned, bound |-> bound], given \cup {s}, ps)
  <2> DEFINE l == [states |-> pruned, bound |-> bound]
  <2>1. l.states = pruned /\ l.bound = bound
    OBVIOUS
  <2> HIDE DEF l
  <2>2. Len(pruned) <= ps.capacity /\ bound = BoundOf(pruned[1], ps)
    BY <1>6, <1>8, <1>10, <1>14
  <2>3. Keeps(l, given \cup {s}, ps)
    BY <1>12, <1>13, <1>14, <1>15, <2>1, <2>2 DEF Keeps, Kept
  <2>4. QED
    BY <2>3 DEF l
<1>17. QED
  BY <1>2, <1>5, <1>10, <1>16

\* Whatever state a level is given, in whatever order, it stays sorted, without
\* equal states and within its capacity and its bound, and for every state given
\* so far it has one that stands for it, or its bound is above that state, or it
\* is full of states that are no worse (stack_level::add_state).
THEOREM AddStateKeeps ==
  ASSUME NEW S, \A x \in S : x.total \in Int, NEW ps, ParamsOK(ps),
         NEW level \in [states : Seq(S), bound : Int],
         NEW given \in SUBSET S, Keeps(level, given, ps), NEW s \in S
  PROVE  LET new == AddState(level, s, ps)
         IN /\ new \in [states : Seq(S), bound : Int]
            /\ Keeps(new, given \cup {s}, ps)
<1> DEFINE states == level.states
           n == Len(states)
           p == NumBetter(states, s)
           new == AddState(level, s, ps)
<1>0. /\ level.states \in Seq(S) /\ level.bound \in Int /\ DOMAIN level = {"states", "bound"}
      /\ n \in Nat /\ \A i \in 1..n : states[i].total \in Int
      /\ s.total \in Int /\ ps.capacity \in Nat /\ ps.capacity > 0
      /\ ps.threshold \in Int /\ ps.threshold < 0
  BY DEF ParamsOK
<1>1. /\ Sorted(states) /\ Distinct(states) /\ n <= ps.capacity
      /\ \A i \in 1..n : states[i].total >= level.bound
      /\ states # <<>> => level.bound = BoundOf(states[1], ps)
      /\ \A t \in given : states # <<>> /\ states[1].total >= t.total /\ Kept(states, level.bound, t, ps)
  BY DEF Keeps, Kept
<1>2. /\ p \in 0..n /\ \A i \in 1..p : states[i].total > s.total
      /\ p < n => states[p + 1].total <= s.total
  BY <1>0, NumBetterProps
<1>3. states # <<>> => n > 0 /\ 1 \in 1..n
  BY <1>0
<1>4. ASSUME new = level, states # <<>>, states[1].total >= s.total, Kept(states, level.bound, s, ps)
      PROVE  new \in [states : Seq(S), bound : Int] /\ Keeps(new, given \cup {s}, ps)
  BY <1>0, <1>1, <1>4 DEF Keeps, Kept
<1>5. CASE states = <<>>
  <2> DEFINE l == [states |-> <<s>>, bound |-> BoundOf(s, ps)]
  <2>1. new = l
    BY <1>5 DEF AddState
  <2>2. l.states = <<s>> /\ l.bound = BoundOf(s, ps)
    OBVIOUS
  <2>t. <<s>> \in Seq(S) /\ BoundOf(s, ps) \in Int => l \in [states : Seq(S), bound : Int]
    OBVIOUS
  <2> HIDE DEF l
  <2>3. <<s>> \in Seq(S) /\ Len(<<s>>) = 1 /\ <<s>>[1] = s /\ <<s>> # <<>>
    OBVIOUS
  <2>4. BoundOf(s, ps) \in Int /\ s.total >= BoundOf(s, ps)
    BY <1>0 DEF BoundOf
  <2>5. given = {}
    BY <1>1, <1>5
  <2>6. Sorted(<<s>>) /\ Distinct(<<s>>)
    BY <2>3 DEF Sorted, Distinct
  <2>7. StoodFor(<<s>>, s) /\ s.total >= s.total
    BY <1>0, <2>3, SameIsEquivalence DEF StoodFor
  <2>8. \A i \in 1..1 : <<s>>[i].total >= BoundOf(s, ps)
    BY <2>3, <2>4
  <2>9. Keeps(l, {s}, ps)
    BY <1>0, <2>2, <2>3, <2>4, <2>6, <2>7, <2>8 DEF Keeps, Kept
  <2>10. QED
    BY <2>1, <2>t, <2>3, <2>4, <2>5, <2>9
<1>6. CASE states # <<>> /\ s.total < level.bound
  <2>1. new = level
    BY <1>6 DEF AddState
  <2>2. states[1].total >= s.total
    BY <1>0, <1>1, <1>3, <1>6
  <2>3. QED
    BY <1>4, <1>6, <2>1, <2>2 DEF Kept
<1>7. CASE states # <<>> /\ s.total >= level.bound
  <2>0. ~(s.total < level.bound) /\ n > 0
    BY <1>0, <1>3, <1>7
  <2>1. new = IF \E i \in 1..p : SameSubproblem(states[i], s) THEN level
              ELSE IF p < n THEN AddBefore(level, p, s, ps) ELSE AddLast(level, s, ps)
    BY <1>7, <2>0 DEF AddState
  <2> HIDE DEF p, new
  <2>2. CASE \E i \in 1..p : SameSubproblem(states[i], s)
    <3>1. PICK i \in 1..p : SameSubproblem(states[i], s)
      BY <2>2
    <3>2. i \in 1..n /\ states[i].total > s.total /\ 1 \in 1..p
      BY <1>0, <1>2
    <3>3. StoodFor(states, s)
      BY <1>0, <3>1, <3>2 DEF StoodFor
    <3>4. states[1].total >= s.total
      BY <1>0, <1>2, <1>3, <1>7, <3>2
    <3>5. QED
      BY <1>4, <1>7, <2>1, <2>2, <3>3, <3>4 DEF Kept, p, new
  <2>3. CASE p < n /\ ~\E i \in 1..p : SameSubproblem(states[i], s)
    <3>1. new = AddBefore(level, p, s, ps)
      BY <2>1, <2>3
    <3>2. p \in Nat
      BY <1>2
    <3>3. LET b == AddBefore(level, p, s, ps)
          IN b \in [states : Seq(S), bound : Int] /\ Keeps(b, given \cup {s}, ps)
      BY <1>0, <1>2, <2>3, <3>2, AddBeforeKeeps
    <3>4. QED
      BY <3>1, <3>3 DEF new, p
  <2>4. CASE p = n /\ ~\E i \in 1..p : SameSubproblem(states[i], s)
    <3>1. new = AddLast(level, s, ps)
      BY <1>0, <2>1, <2>4
    <3>2. \A i \in 1..n : states[i].total > s.total /\ ~SameSubproblem(states[i], s)
      BY <1>2, <2>4
    <3>3. states[1].total >= s.total /\ n \in 1..n /\ states[n].total >= s.total
      <4>1. 1 \in 1..n /\ n \in 1..n
        BY <1>0, <1>3, <1>7
      <4>2. states[1].total > s.total /\ states[n].total > s.total
        BY <3>2, <4>1
      <4>3. states[1].total \in Int /\ states[n].total \in Int
        BY <1>0, <4>1
      <4>4. QED
        BY <1>0, <4>1, <4>2, <4>3
    <3>4. CASE n < ps.capacity
      <4> DEFINE app == Append(states, s)
      <4>1. new = [level EXCEPT !.states = Append(@, s)]
        BY <3>1, <3>4 DEF AddLast
      <4>2. app \in Seq(S) /\ Len(app) = n + 1 /\ app[n + 1] = s /\ \A i \in 1..n : app[i] = states[i]
        BY <1>0
      <4> HIDE DEF app
      <4>3. \A i \in 1..Len(app) : (i \in 1..n /\ app[i] = states[i]) \/ (i = n + 1 /\ app[i] = s)
        BY <1>0, <4>2
      <4>s. Sorted(app)
        <5>1. ASSUME NEW i \in 1..Len(app), NEW j \in 1..Len(app), i < j
              PROVE  app[i].total >= app[j].total
          <6>1. i \in 1..n /\ app[i] = states[i]
            BY <1>0, <4>2, <5>1
          <6>2. CASE j \in 1..n
            <7>1. app[j] = states[j]
              BY <4>2, <6>2
            <7>2. QED
              BY <1>1, <5>1, <6>1, <6>2, <7>1 DEF Sorted
          <6>3. CASE j = n + 1
            <7>1. app[j] = s /\ states[i].total > s.total /\ states[i].total \in Int
              BY <1>0, <3>2, <4>2, <6>1, <6>3
            <7>2. QED
              BY <1>0, <6>1, <7>1, SMTT(30)
          <6>4. QED
            BY <4>3, <6>2, <6>3
        <5>2. QED
          BY <5>1 DEF Sorted
      <4>4. Distinct(app)
        <5>1. ASSUME NEW i \in 1..Len(app), NEW j \in 1..Len(app), i < j
              PROVE  ~SameSubproblem(app[i], app[j])
          <6>1. i \in 1..n /\ app[i] = states[i]
            BY <1>0, <4>2, <5>1
          <6>2. CASE j \in 1..n
            <7>1. app[j] = states[j]
              BY <4>2, <6>2
            <7>2. QED
              BY <1>1, <5>1, <6>1, <6>2, <7>1 DEF Distinct
          <6>3. CASE j = n + 1
            BY <3>2, <4>2, <6>1, <6>3
          <6>4. QED
            BY <4>3, <6>2, <6>3
        <5>2. QED
          BY <5>1 DEF Distinct
      <4>5. ASSUME NEW i \in 1..Len(app) PROVE app[i].total >= level.bound
        <5>1. CASE i \in 1..n /\ app[i] = states[i]
          BY <1>1, <5>1
        <5>2. CASE app[i] = s
          BY <1>7, <5>2
        <5>3. QED
          BY <4>3, <5>1, <5>2
      <4>6. ASSUME NEW t, StoodFor(states, t) PROVE StoodFor(app, t)
        <5>1. PICK i \in 1..n : SameSubproblem(states[i], t) /\ states[i].total >= t.total
          BY <4>6 DEF StoodFor
        <5>2. i \in 1..Len(app) /\ app[i] = states[i]
          BY <1>0, <4>2
        <5>3. QED
          BY <5>1, <5>2 DEF StoodFor
      <4>7. StoodFor(app, s)
        <5>1. n + 1 \in 1..Len(app) /\ s.total >= s.total
          BY <1>0, <4>2
        <5>2. QED
          BY <4>2, <5>1, SameIsEquivalence DEF StoodFor
      <4>8. app # <<>> /\ app[1] = states[1]
        BY <1>0, <1>3, <1>7, <4>2
      <4>9. n # ps.capacity /\ n + 1 <= ps.capacity
        BY <1>0, <3>4
      <4>10. \A t \in given \cup {s} :
               app[1].total >= t.total /\ (StoodFor(app, t) \/ t.total < level.bound)
        BY <1>1, <3>3, <4>6, <4>7, <4>8, <4>9 DEF Kept
      <4>11. /\ new.states = app /\ new.bound = level.bound
             /\ new \in [states : Seq(S), bound : Int]
        BY <1>0, <4>1, <4>2 DEF app
      <4>12. Keeps(new, given \cup {s}, ps)
        BY <1>0, <1>1, <1>3, <1>7, <4>2, <4>s, <4>4, <4>5, <4>8, <4>9, <4>10, <4>11 DEF Keeps, Kept
      <4>13. QED
        BY <4>2, <4>11, <4>12 DEF new, p
    <3>5. CASE ~(n < ps.capacity)
      <4>1. new = level /\ n = ps.capacity
        BY <1>0, <1>1, <3>1, <3>5 DEF AddLast
      <4>2. QED
        BY <1>4, <1>7, <3>3, <4>1 DEF Kept, new
    <3>6. QED
      BY <3>4, <3>5
  <2>5. QED
    BY <1>0, <1>2, <2>2, <2>3, <2>4
<1>8. QED
  BY <1>0, <1>5, <1>6, <1>7

-----------------------------------------------------------------------------
(* Induction, recursion and folds                                            *)

\* Induction on a rank: what holds of x when it holds of everything below x
\* holds of all.
LEMMA RankInduction ==
  ASSUME NEW D, NEW rank \in [D -> Nat], NEW P,
         \A x \in D : (\A y \in D : rank[y] < rank[x] => y \in P) => x \in P
  PROVE  D \subseteq P
<1>1. SUFFICES ASSUME NEW z \in D, z \notin P PROVE FALSE
  OBVIOUS
<1> DEFINE ranks == {rank[x] : x \in {y \in D : y \notin P}}
<1>2. ranks \in SUBSET Nat /\ ranks # {}
  BY <1>1
<1>3. PICK k \in ranks : \A j \in ranks : k <= j
  BY <1>2, MinExists
<1>4. PICK x \in D : x \notin P /\ rank[x] = k
  BY <1>3
<1>5. ASSUME NEW y \in D, rank[y] < rank[x] PROVE y \in P
  <2>1. y \notin P => rank[y] \in ranks
    OBVIOUS
  <2>2. rank[y] \in Nat /\ rank[x] \in Nat
    OBVIOUS
  <2>3. QED
    BY <1>3, <1>4, <1>5, <2>1, <2>2, SMTT(30)
<1>6. QED
  BY <1>4, <1>5

\* Induction over an interval, as a fact about sets.
LEMMA IntervalInduction ==
  ASSUME NEW n \in Nat, NEW P, 0 \in P, \A k \in 0..n : k < n /\ k \in P => k + 1 \in P
  PROVE  0..n \subseteq P
<1> DEFINE D == 0..n
           rank == [k \in D |-> k]
<1>1. rank \in [D -> Nat] /\ \A k \in D : rank[k] = k
  OBVIOUS
<1> HIDE DEF rank
<1>2. ASSUME NEW k \in D, \A j \in D : rank[j] < rank[k] => j \in P PROVE k \in P
  <2>1. CASE k # 0
    <3>1. k - 1 \in 0..n /\ k - 1 < n /\ k - 1 + 1 = k /\ k - 1 < k
      BY <2>1
    <3>2. k - 1 \in P
      BY <1>1, <1>2, <3>1
    <3>3. QED
      BY <3>1, <3>2
  <2>2. QED
    BY <2>1
<1> HIDE DEF D
<1>3. D \subseteq P
  BY <1>1, <1>2, RankInduction
<1>4. QED
  BY <1>3 DEF D

\* A recursive definition whose step looks only at lower ranks has a solution.
IsRecursion(D, V, n, rank, step) ==
  /\ V # {} /\ n \in Nat /\ rank \in [D -> 0..n] /\ step \in [D \X [D -> V] -> V]
  /\ \A x \in D : \A g, h \in [D -> V] :
       (\A y \in D : rank[y] < rank[x] => g[y] = h[y]) => step[<<x, g>>] = step[<<x, h>>]
\* A recursive function exists when its rank makes every call smaller.
LEMMA RecursionExists ==
  ASSUME NEW D, NEW V, NEW n, NEW rank, NEW step, IsRecursion(D, V, n, rank, step)
  PROVE  \E f \in [D -> V] : \A x \in D : f[x] = step[<<x, f>>]
<1>a. PICK v \in V : TRUE
  BY DEF IsRecursion
<1>b. n \in Nat /\ rank \in [D -> 0..n] /\ step \in [D \X [D -> V] -> V]
  BY DEF IsRecursion
<1>c. \A x \in D : \A g, h \in [D -> V] :
       (\A y \in D : rank[y] < rank[x] => g[y] = h[y]) => step[<<x, g>>] = step[<<x, h>>]
  BY DEF IsRecursion
<1> DEFINE Good(k) == \E f \in [D -> V] : \A x \in D : rank[x] < k => f[x] = step[<<x, f>>]
           P == {k \in 0..n + 1 : Good(k)}
<1>0. \A x \in D : rank[x] \in Nat /\ rank[x] <= n
  BY <1>b
<1>1. 0 \in P
  <2>1. [x \in D |-> v] \in [D -> V] /\ \A x \in D : ~(rank[x] < 0)
    BY <1>0, <1>a
  <2>2. Good(0)
    BY <2>1
  <2> HIDE DEF Good
  <2>3. 0 \in 0..n + 1
    BY <1>b
  <2>4. QED
    BY <2>2, <2>3
<1>2. ASSUME NEW k \in 0..n + 1, k < n + 1, k \in P PROVE k + 1 \in P
  <2>1. PICK f \in [D -> V] : \A x \in D : rank[x] < k => f[x] = step[<<x, f>>]
    BY <1>2
  <2> DEFINE g == [x \in D |-> IF rank[x] = k THEN step[<<x, f>>] ELSE f[x]]
  <2>2. g \in [D -> V]
    <3>1. \A x \in D : step[<<x, f>>] \in V /\ f[x] \in V
      BY <1>b
    <3>2. QED
      BY <3>1
  <2>3. \A x \in D : g[x] = IF rank[x] = k THEN step[<<x, f>>] ELSE f[x]
    OBVIOUS
  <2> HIDE DEF g
  <2>4. ASSUME NEW x \in D, rank[x] < k + 1 PROVE g[x] = step[<<x, g>>]
    <3>1. ASSUME NEW y \in D, rank[y] < rank[x] PROVE f[y] = g[y]
      <4>1. rank[y] \in Nat /\ rank[x] \in Nat /\ k \in Nat
        BY <1>0, <1>b
      <4>2. rank[y] # k
        BY <2>4, <3>1, <4>1
      <4>3. QED
        BY <2>3, <4>2
    <3>2. step[<<x, f>>] = step[<<x, g>>]
      BY <1>c, <2>2, <3>1
    <3>3. rank[x] = k \/ rank[x] < k
      <4>1. rank[x] \in Nat /\ k \in Nat
        BY <1>0, <1>b
      <4>2. QED
        BY <2>4, <4>1
    <3>4. QED
      BY <2>1, <2>3, <3>2, <3>3
  <2>5. Good(k + 1)
    BY <2>2, <2>4
  <2> HIDE DEF Good
  <2>6. k + 1 \in 0..n + 1
    BY <1>b, <1>2
  <2>7. QED
    BY <2>5, <2>6
<1>3. n + 1 \in Nat /\ n + 1 \in 0..n + 1
  BY <1>b
<1>4. 0..n + 1 \subseteq P
  <2> HIDE DEF P
  <2>1. QED
    BY <1>1, <1>2, <1>3, IntervalInduction
<1>5. Good(n + 1)
  BY <1>3, <1>4
<1>6. PICK f \in [D -> V] : \A x \in D : rank[x] < n + 1 => f[x] = step[<<x, f>>]
  BY <1>5
<1>7. QED
  BY <1>0, <1>b, <1>6

\* The size of a finite set is a rank for its subsets.
LEMMA SubsetRank ==
  ASSUME NEW S, IsFiniteSet(S)
  PROVE  /\ Cardinality(S) \in Nat
         /\ [T \in SUBSET S |-> Cardinality(T)] \in [SUBSET S -> 0..Cardinality(S)]
         /\ \A T \in SUBSET S : \A x \in T :
              T \ {x} \in SUBSET S /\ Cardinality(T \ {x}) < Cardinality(T)
<1>1. Cardinality(S) \in Nat
  BY FS_CardinalityType
<1>2. ASSUME NEW T \in SUBSET S
      PROVE  IsFiniteSet(T) /\ Cardinality(T) \in 0..Cardinality(S)
  <2>1. IsFiniteSet(T) /\ Cardinality(T) <= Cardinality(S)
    BY FS_Subset
  <2>2. Cardinality(T) \in Nat
    BY <2>1, FS_CardinalityType
  <2>3. QED
    BY <1>1, <2>1, <2>2
<1>3. ASSUME NEW T \in SUBSET S, NEW x \in T
      PROVE  T \ {x} \in SUBSET S /\ Cardinality(T \ {x}) < Cardinality(T)
  <2>1. IsFiniteSet(T) /\ Cardinality(T) \in Nat
    BY <1>1, <1>2
  <2>2. Cardinality(T \ {x}) = Cardinality(T) - 1
    BY <2>1, FS_RemoveElement
  <2>3. QED
    BY <2>1, <2>2
<1>4. QED
  BY <1>1, <1>2, <1>3

\* Induction over the subsets of a finite set.
IsSubsetInductive(S, P) ==
  IsFiniteSet(S) /\ \A T \in SUBSET S : (\A x \in T : T \ {x} \in P) => T \in P
\* Induction over the subsets of a finite set.
LEMMA SubsetInduction ==
  ASSUME NEW S, NEW P, IsSubsetInductive(S, P)
  PROVE  SUBSET S \subseteq P
<1>0. IsFiniteSet(S) /\ \A T \in SUBSET S : (\A x \in T : T \ {x} \in P) => T \in P
  BY DEF IsSubsetInductive
<1> DEFINE rank == [T \in SUBSET S |-> Cardinality(T)]
<1>1. /\ rank \in [SUBSET S -> Nat] /\ \A T \in SUBSET S : rank[T] = Cardinality(T)
      /\ \A T \in SUBSET S : \A x \in T :
           T \ {x} \in SUBSET S /\ rank[T \ {x}] < rank[T]
  BY <1>0, SubsetRank
<1> HIDE DEF rank
<1>2. ASSUME NEW T \in SUBSET S, \A U \in SUBSET S : rank[U] < rank[T] => U \in P
      PROVE  T \in P
  BY <1>0, <1>1, <1>2
<1>3. QED
  BY <1>1, <1>2, RankInduction

\* The recursion of a fold over a finite set has a solution.
IsFold(S, V, base, op, pick) ==
  /\ IsFiniteSet(S) /\ base \in V /\ op \in [S \X V -> V]
  /\ \A T \in SUBSET S : T # {} => pick[T] \in T
\* f is the function by which MapThenFoldSet folds the subsets of S.
FoldsTo(S, V, base, op, pick, f) ==
  /\ f \in [SUBSET S -> V]
  /\ \A T \in SUBSET S : f[T] = IF T = {} THEN base ELSE op[<<pick[T], f[T \ {pick[T]}]>>]
\* There is such a function.
LEMMA FoldExists ==
  ASSUME NEW S, NEW V, NEW base, NEW op, NEW pick, IsFold(S, V, base, op, pick)
  PROVE  \E f : FoldsTo(S, V, base, op, pick, f)
<1>0. /\ IsFiniteSet(S) /\ base \in V /\ op \in [S \X V -> V]
      /\ \A T \in SUBSET S : T # {} => pick[T] \in T
  BY DEF IsFold
<1> DEFINE D == SUBSET S
           rank == [T \in D |-> Cardinality(T)]
           step == [p \in D \X [D -> V] |->
                      IF p[1] = {} THEN base ELSE op[<<pick[p[1]], p[2][p[1] \ {pick[p[1]]}]>>]]
<1>1. /\ Cardinality(S) \in Nat /\ rank \in [D -> 0..Cardinality(S)]
      /\ \A T \in D : \A x \in T : T \ {x} \in D /\ rank[T \ {x}] < rank[T]
  BY <1>0, SubsetRank
<1>2. \A T \in D : \A g \in [D -> V] :
        step[<<T, g>>] = IF T = {} THEN base ELSE op[<<pick[T], g[T \ {pick[T]}]>>]
  OBVIOUS
<1>3. step \in [D \X [D -> V] -> V]
  <2>1. ASSUME NEW p \in D \X [D -> V]
        PROVE  (IF p[1] = {} THEN base ELSE op[<<pick[p[1]], p[2][p[1] \ {pick[p[1]]}]>>]) \in V
    <3>1. p[1] \in SUBSET S /\ p[2] \in [D -> V]
      OBVIOUS
    <3>2. CASE p[1] # {}
      <4>1. pick[p[1]] \in p[1] /\ pick[p[1]] \in S
        BY <1>0, <3>1, <3>2
      <4>2. p[1] \ {pick[p[1]]} \in D
        BY <3>1
      <4>3. p[2][p[1] \ {pick[p[1]]}] \in V
        BY <3>1, <4>2
      <4>4. QED
        BY <1>0, <3>2, <4>1, <4>3
    <3>3. QED
      BY <1>0, <3>2
  <2>2. QED
    BY <2>1
<1>p. \A T \in D : T # {} => pick[T] \in T
  BY <1>0
<1> DEFINE n == Cardinality(S)
<1>n. n \in Nat /\ rank \in [D -> 0..n]
  BY <1>1
<1> HIDE DEF rank, step, D, n
<1>4. ASSUME NEW x \in D, NEW g \in [D -> V], NEW h \in [D -> V],
             \A y \in D : rank[y] < rank[x] => g[y] = h[y]
      PROVE  step[<<x, g>>] = step[<<x, h>>]
  <2>1. CASE x # {}
    <3>1. pick[x] \in x
      BY <1>p, <2>1
    <3>2. g[x \ {pick[x]}] = h[x \ {pick[x]}]
      BY <1>1, <1>4, <3>1
    <3>3. step[<<x, g>>] = op[<<pick[x], g[x \ {pick[x]}]>>]
      BY <1>2, <2>1
    <3>4. step[<<x, h>>] = op[<<pick[x], h[x \ {pick[x]}]>>]
      BY <1>2, <2>1
    <3>5. QED
      BY <3>2, <3>3, <3>4
  <2>2. CASE x = {}
    <3>1. step[<<x, g>>] = base
      BY <1>2, <2>2
    <3>2. step[<<x, h>>] = base
      BY <1>2, <2>2
    <3>3. QED
      BY <3>1, <3>2
  <2>3. QED
    BY <2>1, <2>2
<1>r. IsRecursion(D, V, n, rank, step)
  BY <1>0, <1>3, <1>n, <1>4 DEF IsRecursion
<1>5. PICK f \in [D -> V] : \A x \in D : f[x] = step[<<x, f>>]
  BY <1>r, RecursionExists
<1>6. \A x \in D : f[x] = IF x = {} THEN base ELSE op[<<pick[x], f[x \ {pick[x]}]>>]
  BY <1>2, <1>5
<1>7. FoldsTo(S, V, base, op, pick, f)
  BY <1>5, <1>6 DEF D, FoldsTo
<1>8. QED
  BY <1>7

\* A sum of integers is an integer.
LEMMA SumType ==
  ASSUME NEW S, IsFiniteSet(S), NEW fun, \A x \in S : fun[x] \in Int
  PROVE  SumFunctionOnSet(fun, S) \in Int
<1> DEFINE op == [p \in S \X Int |-> fun[p[1]] + p[2]]
           pick == [T \in SUBSET S |-> CHOOSE x \in T : TRUE]
           IsIter(h) == h = [T \in SUBSET S |->
                               IF T = {} THEN 0
                               ELSE LET x == CHOOSE x \in T : TRUE IN fun[x] + h[T \ {x}]]
           iter == CHOOSE h : IsIter(h)
<1>1. op \in [S \X Int -> Int] /\ \A x \in S, k \in Int : op[<<x, k>>] = fun[x] + k
  OBVIOUS
<1>2. /\ \A T \in SUBSET S : T # {} => pick[T] \in T
      /\ \A T \in SUBSET S : pick[T] = CHOOSE x \in T : TRUE
  OBVIOUS
<1> HIDE DEF op, pick
<1>3. IsFold(S, Int, 0, op, pick)
  BY <1>1, <1>2 DEF IsFold
<1>4. PICK f : FoldsTo(S, Int, 0, op, pick, f)
  BY <1>3, FoldExists
<1>5. /\ f \in [SUBSET S -> Int]
      /\ \A T \in SUBSET S : f[T] = IF T = {} THEN 0 ELSE op[<<pick[T], f[T \ {pick[T]}]>>]
  BY <1>4 DEF FoldsTo
<1>6. IsIter(f)
  <2>1. ASSUME NEW T \in SUBSET S
        PROVE  f[T] = IF T = {} THEN 0 ELSE LET x == CHOOSE x \in T : TRUE IN fun[x] + f[T \ {x}]
    <3>1. CASE T # {}
      <4>1. pick[T] \in S /\ T \ {pick[T]} \in SUBSET S
        BY <1>2, <3>1
      <4>2. f[T \ {pick[T]}] \in Int
        BY <1>5, <4>1
      <4>3. f[T] = op[<<pick[T], f[T \ {pick[T]}]>>]
        BY <1>5, <3>1
      <4>4. f[T] = fun[pick[T]] + f[T \ {pick[T]}]
        BY <1>1, <4>1, <4>2, <4>3
      <4>5. QED
        BY <1>2, <3>1, <4>4
    <3>2. QED
      BY <1>5, <3>1
  <2>2. QED
    BY <1>5, <2>1
<1>7. IsIter(iter)
  <2> HIDE DEF IsIter
  <2>1. QED
    BY <1>6
<1>8. SumFunctionOnSet(fun, S) = iter[S]
  BY DEF SumFunctionOnSet, FoldFunctionOnSet, MapThenFoldSet
<1> HIDE DEF iter
<1>9. SUBSET S \subseteq {T \in SUBSET S : iter[T] \in Int}
  <2> DEFINE P == {T \in SUBSET S : iter[T] \in Int}
  <2>1. ASSUME NEW T \in SUBSET S, \A x \in T : T \ {x} \in P PROVE T \in P
    <3>1. CASE T = {}
      BY <1>7, <3>1
    <3>2. CASE T # {}
      <4>1. PICK x \in T : iter[T] = fun[x] + iter[T \ {x}]
        BY <1>7, <3>2
      <4>2. QED
        BY <2>1, <4>1
    <3>3. QED
      BY <3>1, <3>2
  <2> HIDE DEF P
  <2>2. IsSubsetInductive(S, P)
    BY <2>1 DEF IsSubsetInductive
  <2>3. SUBSET S \subseteq P
    BY <2>2, SubsetInduction
  <2>4. QED
    BY <2>3 DEF P
<1>10. QED
  BY <1>8, <1>9

\* The sum of the values of a function on a finite set is an integer.
LEMMA SumFunctionType ==
  ASSUME NEW S, IsFiniteSet(S), NEW fun \in [S -> Int]
  PROVE  SumFunction(fun) \in Int
BY SumType DEF SumFunction

\* Induction upwards over an interval.
IsRangeInductive(a, b, P) ==
  /\ a \in Int /\ b \in Int
  /\ \A k \in a..b : k = a \/ k - 1 \in P => k \in P
\* What is inductive over an interval holds on all of it.
LEMMA RangeInduction ==
  ASSUME NEW a, NEW b, NEW P, IsRangeInductive(a, b, P)
  PROVE  a..b \subseteq P
<1>0. a \in Int /\ b \in Int /\ \A k \in a..b : k = a \/ k - 1 \in P => k \in P
  BY DEF IsRangeInductive
<1> DEFINE D == a..b
           rank == [k \in D |-> k - a]
<1>1. rank \in [D -> Nat] /\ \A k \in D : rank[k] = k - a
  BY <1>0
<1> HIDE DEF rank
<1>2. ASSUME NEW k \in D, \A j \in D : rank[j] < rank[k] => j \in P PROVE k \in P
  <2>1. CASE k # a
    <3>1. k - 1 \in D /\ k \in Int /\ rank[k - 1] = k - 1 - a /\ rank[k] = k - a
      BY <1>0, <1>1, <2>1
    <3>2. k - 1 \in P
      BY <1>0, <1>2, <3>1
    <3>3. QED
      BY <1>0, <3>2
  <2>2. QED
    BY <1>0, <2>1
<1> HIDE DEF D
<1>3. D \subseteq P
  BY <1>1, <1>2, RankInduction
<1>4. QED
  BY <1>3 DEF D

\* A recursion upwards over an interval has a solution.
IsChain(a, b, V, v, step) ==
  a \in Int /\ b \in Int /\ v \in V /\ step \in [(a..b) \X V -> V]
\* f[i] is what a fold has after i steps.
IsChained(a, b, V, v, step, f) ==
  f \in [a..b -> V] /\ \A k \in a..b : f[k] = step[<<k, IF k = a THEN v ELSE f[k - 1]>>]
\* There is such a function.
LEMMA ChainExists ==
  ASSUME NEW a, NEW b, NEW V, NEW v, NEW step, IsChain(a, b, V, v, step)
  PROVE  \E f : IsChained(a, b, V, v, step, f)
<1>0. a \in Int /\ b \in Int /\ v \in V /\ step \in [(a..b) \X V -> V]
  BY DEF IsChain
<1> DEFINE D == a..b
           n == IF a <= b THEN b - a ELSE 0
           rank == [k \in D |-> k - a]
           next == [p \in D \X [D -> V] |-> step[<<p[1], IF p[1] = a THEN v ELSE p[2][p[1] - 1]>>]]
<1>1. n \in Nat /\ rank \in [D -> 0..n] /\ \A k \in D : rank[k] = k - a
  BY <1>0
<1>2. \A k \in D : \A g \in [D -> V] : next[<<k, g>>] = step[<<k, IF k = a THEN v ELSE g[k - 1]>>]
  OBVIOUS
<1>3. \A k \in D : k \in Int /\ (k # a => k - 1 \in D)
  BY <1>0
<1>4. next \in [D \X [D -> V] -> V]
  <2>1. ASSUME NEW p \in D \X [D -> V]
        PROVE  step[<<p[1], IF p[1] = a THEN v ELSE p[2][p[1] - 1]>>] \in V
    <3>1. p[1] \in D /\ p[2] \in [D -> V]
      OBVIOUS
    <3>2. (IF p[1] = a THEN v ELSE p[2][p[1] - 1]) \in V
      BY <1>0, <1>3, <3>1
    <3>3. QED
      BY <1>0, <3>1, <3>2
  <2>2. QED
    BY <2>1
<1> HIDE DEF rank, next, n
<1>5. ASSUME NEW k \in D, NEW g \in [D -> V], NEW h \in [D -> V],
             \A j \in D : rank[j] < rank[k] => g[j] = h[j]
      PROVE  next[<<k, g>>] = next[<<k, h>>]
  <2>1. k # a => g[k - 1] = h[k - 1]
    <3>1. SUFFICES ASSUME k # a PROVE g[k - 1] = h[k - 1]
      OBVIOUS
    <3>2. k - 1 \in D /\ rank[k - 1] = k - 1 - a /\ rank[k] = k - a /\ k \in Int
      BY <1>1, <1>3, <3>1
    <3>3. rank[k - 1] < rank[k]
      BY <1>0, <3>2
    <3>4. QED
      BY <1>5, <3>2, <3>3
  <2>2. next[<<k, g>>] = step[<<k, IF k = a THEN v ELSE g[k - 1]>>]
    BY <1>2
  <2>3. next[<<k, h>>] = step[<<k, IF k = a THEN v ELSE h[k - 1]>>]
    BY <1>2
  <2>4. QED
    BY <2>1, <2>2, <2>3
<1>6. IsRecursion(D, V, n, rank, next)
  BY <1>0, <1>1, <1>4, <1>5 DEF IsRecursion
<1> HIDE DEF D
<1>7. PICK f \in [D -> V] : \A k \in D : f[k] = next[<<k, f>>]
  BY <1>6, RecursionExists
<1>8. IsChained(a, b, V, v, step, f)
  BY <1>2, <1>7 DEF D, IsChained
<1>9. QED
  BY <1>8

\* Flattening: a sequence of sequences over S becomes one, with all their elements.
LEMMA FlattenProps ==
  ASSUME NEW S, NEW seqs \in Seq(Seq(S))
  PROVE  /\ FlattenSeq(seqs) \in Seq(S)
         /\ \A k \in 1..Len(seqs) : \A j \in 1..Len(seqs[k]) :
              \E i \in 1..Len(FlattenSeq(seqs)) : FlattenSeq(seqs)[i] = seqs[k][j]
<1> DEFINE n == Len(seqs)
           IsFlat(h) == h = [i \in 1..n |-> IF i = 1 THEN seqs[i] ELSE h[i - 1] \o seqs[i]]
           flatten == CHOOSE h : IsFlat(h)
           V == Seq(S)
           step == [p \in (1..n) \X V |-> IF p[1] = 1 THEN seqs[p[1]] ELSE p[2] \o seqs[p[1]]]
<1>1. n \in Nat /\ \A i \in 1..n : seqs[i] \in V
  OBVIOUS
<1>2. \A x \in V, y \in V : x \o y \in V
  OBVIOUS
<1>e. <<>> \in V
  OBVIOUS
<1> HIDE DEF V, n
<1>3. step \in [(1..n) \X V -> V]
  BY <1>1, <1>2
<1>4. \A k \in 1..n, x \in V : step[<<k, x>>] = IF k = 1 THEN seqs[k] ELSE x \o seqs[k]
  OBVIOUS
<1> HIDE DEF step
<1>5. IsChain(1, n, V, <<>>, step)
  BY <1>1, <1>e, <1>3 DEF IsChain
<1>6. PICK f : IsChained(1, n, V, <<>>, step, f)
  BY <1>5, ChainExists
<1>7. f \in [1..n -> V] /\ \A k \in 1..n : f[k] = step[<<k, IF k = 1 THEN <<>> ELSE f[k - 1]>>]
  BY <1>6 DEF IsChained
<1>8. IsFlat(f)
  <2>1. ASSUME NEW k \in 1..n PROVE f[k] = IF k = 1 THEN seqs[k] ELSE f[k - 1] \o seqs[k]
    <3>1. k # 1 => k - 1 \in 1..n
      BY <1>1
    <3>2. (IF k = 1 THEN <<>> ELSE f[k - 1]) \in V
      BY <1>7, <1>e, <3>1
    <3>3. QED
      BY <1>4, <1>7, <3>2
  <2>2. QED
    BY <1>7, <2>1
<1>9. IsFlat(flatten)
  <2> HIDE DEF IsFlat
  <2>1. QED
    BY <1>8
<1>10. n # 0 => FlattenSeq(seqs) = flatten[n]
  BY DEF FlattenSeq, n
<1> HIDE DEF flatten
<1> DEFINE Holds(g, m) == /\ g \in Seq(S)
                          /\ \A k \in 1..m : \A j \in 1..Len(seqs[k]) :
                               \E i \in 1..Len(g) : g[i] = seqs[k][j]
           P == {m \in 1..n : Holds(flatten[m], m)}
<1>11. ASSUME NEW m \in 1..n, m = 1 \/ m - 1 \in P PROVE m \in P
  <2>1. seqs[m] \in Seq(S) /\ m \in Nat
    BY <1>1 DEF V
  <2>2. CASE m = 1
    <3>1. flatten[m] = seqs[m]
      BY <1>9, <2>2
    <3>2. Holds(flatten[m], m)
      BY <2>1, <2>2, <3>1
    <3>3. QED
      BY <3>2
  <2>3. CASE m # 1
    <3> DEFINE g == flatten[m - 1]
               h == flatten[m]
    <3>0. m - 1 \in 1..n
      BY <1>1, <2>3
    <3>1. h = g \o seqs[m] /\ m - 1 \in 1..n
      BY <1>9, <2>3, <3>0
    <3>2. Holds(g, m - 1)
      BY <1>11, <2>3
    <3> HIDE DEF g, h
    <3>3. g \in Seq(S)
      BY <3>2
    <3>4. h \in Seq(S) /\ Len(h) = Len(g) + Len(seqs[m])
      BY <2>1, <3>1, <3>3
    <3>5. ASSUME NEW k \in 1..m, NEW j \in 1..Len(seqs[k])
          PROVE  \E i \in 1..Len(h) : h[i] = seqs[k][j]
      <4>1. CASE k = m
        <5>1. Len(g) + j \in 1..Len(h) /\ h[Len(g) + j] = seqs[m][j]
          BY <2>1, <3>1, <3>3, <3>4, <4>1, SMTT(30)
        <5>2. QED
          BY <4>1, <5>1
      <4>2. CASE k # m
        <5>1. k \in 1..m - 1
          BY <2>1, <4>2
        <5>2. PICK i \in 1..Len(g) : g[i] = seqs[k][j]
          BY <3>2, <5>1
        <5>3. i \in 1..Len(h) /\ h[i] = g[i]
          BY <2>1, <3>1, <3>3, <3>4
        <5>4. QED
          BY <5>2, <5>3
      <4>3. QED
        BY <4>1, <4>2
    <3>6. Holds(h, m)
      BY <3>4, <3>5
    <3>7. QED
      BY <3>6 DEF h
  <2>4. QED
    BY <2>2, <2>3
<1>12. IsRangeInductive(1, n, P)
  <2>1. \A m \in 1..n : m = 1 \/ m - 1 \in P => m \in P
    BY <1>11
  <2> HIDE DEF P
  <2>2. QED
    BY <1>1, <2>1 DEF IsRangeInductive
<1>13. 1..n \subseteq P
  BY <1>12, RangeInduction
<1>14. CASE n = 0
  <2>1. FlattenSeq(seqs) = seqs /\ seqs = <<>>
    BY <1>14 DEF FlattenSeq, n
  <2>2. QED
    BY <2>1
<1>15. CASE n # 0
  <2>1. n \in 1..n
    BY <1>1, <1>15
  <2>2. Holds(flatten[n], n)
    BY <1>13, <2>1
  <2>3. Holds(FlattenSeq(seqs), n)
    <3> HIDE DEF Holds
    <3>1. QED
      BY <1>10, <1>15, <2>2
  <2>4. QED
    BY <2>3 DEF n
<1>16. QED
  BY <1>14, <1>15

\* A finite set of integers has a greatest element.
LEMMA FiniteMax ==
  ASSUME NEW S, IsFiniteSet(S), S # {}, S \subseteq Int
  PROVE  MaxSetOf(S) \in S /\ \A y \in S : y <= MaxSetOf(S)
<1> DEFINE HasMax(T) == \E x \in T : \A y \in T : y <= x
           P == {T \in SUBSET S : T # {} => HasMax(T)}
<1>1. ASSUME NEW T \in SUBSET S, \A x \in T : T \ {x} \in P PROVE T \in P
  <2>1. ASSUME T # {} PROVE HasMax(T)
    <3>1. PICK x \in T : TRUE
      BY <2>1
    <3>2. x \in Int /\ \A y \in T : y \in Int
      OBVIOUS
    <3>3. CASE T \ {x} = {}
      <4>1. \A y \in T : y <= x
        BY <3>2, <3>3
      <4>2. QED
        BY <4>1
    <3>4. CASE T \ {x} # {}
      <4>1. PICK z \in T \ {x} : \A y \in T \ {x} : y <= z
        BY <1>1, <3>4
      <4>2. CASE x <= z
        BY <4>1, <4>2
      <4>3. CASE ~(x <= z)
        <5>1. ASSUME NEW y \in T PROVE y <= x
          <6>1. CASE y = x
            BY <3>2, <6>1
          <6>2. CASE y # x
            <7>1. y <= z /\ y \in Int /\ z \in Int
              BY <3>2, <4>1, <6>2
            <7>2. QED
              BY <3>2, <4>3, <7>1
          <6>3. QED
            BY <6>1, <6>2
        <5>2. QED
          BY <5>1
      <4>4. QED
        BY <4>2, <4>3
    <3>5. QED
      BY <3>3, <3>4
  <2> HIDE DEF HasMax
  <2>2. QED
    BY <2>1
<1> HIDE DEF P
<1>2. IsSubsetInductive(S, P)
  BY <1>1 DEF IsSubsetInductive
<1>3. SUBSET S \subseteq P
  BY <1>2, SubsetInduction
<1>4. HasMax(S)
  <2> HIDE DEF HasMax
  <2>1. QED
    BY <1>3 DEF P
<1>5. QED
  BY <1>4 DEF MaxSetOf

\* Folding add_state over a sequence of new states is adding them one by one.
IsAdded(V, stack, states, ps, after) ==
  /\ after \in [0..Len(states) -> V] /\ after[0] = stack
  /\ \A k \in 1..Len(states) :
       after[k] = [after[k - 1] EXCEPT ![states[k].level] = AddState(@, states[k], ps)]
  /\ AddStates(stack, states, ps) = after[Len(states)]
\* AddStates is the last element of such a chain.
LEMMA AddStatesUnfold ==
  ASSUME NEW S, NEW V, NEW stack \in V, NEW states \in Seq(S), NEW ps,
         \A ls \in V, s \in S : [ls EXCEPT ![s.level] = AddState(@, s, ps)] \in V
  PROVE  \E after : IsAdded(V, stack, states, ps, after)
<1> DEFINE n == Len(states)
           Step(ls, s) == [ls EXCEPT ![s.level] = AddState(@, s, ps)]
           op == [p \in (1..n) \X V |-> Step(p[2], states[p[1]])]
           pick == [T \in SUBSET (1..n) |-> Max(T)]
           IsIter(h) == h = [T \in SUBSET DOMAIN states |->
                               IF T = {} THEN stack
                               ELSE LET x == Max(T) IN Step(h[T \ {x}], states[x])]
           iter == CHOOSE h : IsIter(h)
<1>1. n \in Nat /\ \A i \in 1..n : states[i] \in S
  OBVIOUS
<1>2. DOMAIN states = 1..n
  OBVIOUS
<1>3. \A ls \in V, i \in 1..n : Step(ls, states[i]) \in V
  BY <1>1
<1> HIDE DEF Step
<1>4. op \in [(1..n) \X V -> V] /\ \A i \in 1..n, ls \in V : op[<<i, ls>>] = Step(ls, states[i])
  BY <1>3
<1>5. \A T \in SUBSET (1..n) : T # {} => Max(T) \in T /\ \A y \in T : Max(T) >= y
  <2>1. ASSUME NEW T \in SUBSET (1..n), T # {}
        PROVE  Max(T) \in T /\ \A y \in T : Max(T) >= y
    <3>1. T \in SUBSET (0..n)
      BY <1>1
    <3>2. PICK x \in T : \A y \in T : y <= x
      BY <1>1, <2>1, <3>1, MaxExists
    <3>3. \A y \in T : x >= y
      BY <1>1, <3>2
    <3>4. QED
      BY <3>3 DEF Max
  <2>2. QED
    BY <2>1
<1>6. /\ \A T \in SUBSET (1..n) : pick[T] = Max(T)
      /\ \A T \in SUBSET (1..n) : T # {} => pick[T] \in T
  BY <1>5
<1>7. IsFiniteSet(1..n)
  BY <1>1, FS_Interval
<1> HIDE DEF op, pick, n
<1>8. IsFold(1..n, V, stack, op, pick)
  BY <1>4, <1>6, <1>7 DEF IsFold
<1>9. PICK f : FoldsTo(1..n, V, stack, op, pick, f)
  BY <1>8, FoldExists
<1>10. /\ f \in [SUBSET (1..n) -> V]
       /\ \A T \in SUBSET (1..n) : f[T] = IF T = {} THEN stack ELSE op[<<pick[T], f[T \ {pick[T]}]>>]
  BY <1>9 DEF FoldsTo
<1>11. IsIter(f)
  <2>1. ASSUME NEW T \in SUBSET (1..n)
        PROVE  f[T] = IF T = {} THEN stack ELSE LET x == Max(T) IN Step(f[T \ {x}], states[x])
    <3>1. CASE T # {}
      <4>1. pick[T] \in 1..n /\ T \ {pick[T]} \in SUBSET (1..n) /\ pick[T] = Max(T)
        BY <1>6, <3>1
      <4>2. f[T \ {pick[T]}] \in V
        BY <1>10, <4>1
      <4>3. f[T] = op[<<pick[T], f[T \ {pick[T]}]>>]
        BY <1>10, <3>1
      <4>4. f[T] = Step(f[T \ {pick[T]}], states[pick[T]])
        BY <1>4, <4>1, <4>2, <4>3
      <4>5. QED
        BY <3>1, <4>1, <4>4
    <3>2. QED
      BY <1>10, <3>1
  <2>2. QED
    BY <1>2, <1>10, <2>1
<1>12. IsIter(iter)
  <2> HIDE DEF IsIter
  <2>1. QED
    BY <1>11
<1>13. AddStates(stack, states, ps) = iter[DOMAIN states]
  BY DEF AddStates, FoldLeft, MapThenFoldSet, Step
<1> HIDE DEF iter
<1>14. \A T \in SUBSET (1..n) :
         iter[T] = IF T = {} THEN stack ELSE Step(iter[T \ {Max(T)}], states[Max(T)])
  BY <1>2, <1>12
<1> DEFINE after == [k \in 0..n |-> iter[1..k]]
<1>15. after[0] = stack
  <2>1. 1..0 = {} /\ 0 \in 0..n /\ {} \in SUBSET (1..n)
    BY <1>1
  <2>2. QED
    BY <1>14, <2>1
<1>16. ASSUME NEW k \in 1..n PROVE after[k] = Step(after[k - 1], states[k])
  <2>0. k \in 1..k /\ k - 1 \in 0..n /\ k \in 0..n /\ k \in Nat
    BY <1>1
  <2>s. 1..k \in SUBSET (1..n)
    BY <1>1
  <2>1. 1..k \in SUBSET (1..n) /\ 1..k # {} /\ k \in 1..k /\ k - 1 \in 0..n /\ k \in 0..n /\ k \in Nat
    BY <2>0, <2>s
  <2>2. Max(1..k) = k
    <3>1. Max(1..k) \in 1..k /\ Max(1..k) >= k
      BY <1>5, <2>1
    <3>2. QED
      BY <2>1, <3>1
  <2>3. (1..k) \ {k} = 1..(k - 1)
    BY <2>1
  <2>4. iter[1..k] = Step(iter[(1..k) \ {Max(1..k)}], states[Max(1..k)])
    BY <1>14, <2>1
  <2>5. QED
    BY <2>1, <2>2, <2>3, <2>4
<1>17. after \in [0..n -> V]
  <2> DEFINE P == {k \in 0..n : after[k] \in V}
  <2>1. ASSUME NEW k \in 0..n, k = 0 \/ k - 1 \in P PROVE k \in P
    <3>1. CASE k = 0
      BY <1>15, <3>1
    <3>2. CASE k # 0
      <4>1. k \in 1..n /\ after[k - 1] \in V
        BY <1>1, <2>1, <3>2
      <4>2. Step(after[k - 1], states[k]) \in V
        BY <1>3, <4>1
      <4> HIDE DEF after
      <4>3. QED
        BY <1>16, <4>1, <4>2
    <3>3. QED
      BY <3>1, <3>2
  <2> HIDE DEF P
  <2>2. IsRangeInductive(0, n, P)
    BY <1>1, <2>1 DEF IsRangeInductive
  <2>3. 0..n \subseteq P
    BY <2>2, RangeInduction
  <2>4. QED
    BY <2>3 DEF P
<1>18. AddStates(stack, states, ps) = after[n]
  <2>1. n \in 0..n
    BY <1>1
  <2>2. QED
    BY <1>2, <1>13, <2>1
<1> HIDE DEF after
<1>19. IsAdded(V, stack, states, ps, after)
  BY <1>15, <1>16, <1>17, <1>18 DEF IsAdded, Step, n
<1>20. QED
  BY <1>19

-----------------------------------------------------------------------------
(* The hash map                                                              *)

\* Multiples of n are n apart.
LEMMA ProductGap ==
  ASSUME NEW n \in Nat, n > 0, NEW a \in Int, NEW b \in Int, a > b
  PROVE  n * a >= n * b + n
OBVIOUS

\* Quotient and remainder are unique.
LEMMA DivisionIsUnique ==
  ASSUME NEW n \in Nat, n > 0, NEW q \in Int, NEW r \in 0..n - 1,
         NEW p \in Int, NEW s \in 0..n - 1, n * q + r = n * p + s
  PROVE  r = s
<1>1. CASE q > p
  <2>1. n * q >= n * p + n
    BY <1>1, ProductGap
  <2>2. QED
    BY <1>1, <2>1
<1>2. CASE p > q
  <2>1. n * p >= n * q + n
    BY <1>2, ProductGap
  <2>2. QED
    BY <1>2, <2>1
<1>3. QED
  BY <1>1, <1>2

\* A walk of d < n steps around n buckets passes the end at most once.
LEMMA WalkAround ==
  ASSUME NEW n \in Nat, n > 0, NEW h \in Nat, NEW d \in 0..n - 1
  PROVE  /\ h % n \in 0..n - 1
         /\ (h + d) % n = IF (h % n) + d < n THEN (h % n) + d ELSE (h % n) + d - n
<1> DEFINE r == h % n
           q == h \div n
           s == (h + d) % n
           p == (h + d) \div n
<1>1. h = n * q + r /\ r \in 0..n - 1 /\ q \in Int
  OBVIOUS
<1>2. h + d = n * p + s /\ s \in 0..n - 1 /\ p \in Int
  OBVIOUS
<1> HIDE DEF r, q, s, p
<1>3. CASE r + d < n
  <2>1. r + d \in 0..n - 1 /\ n * q + (r + d) = n * p + s
    BY <1>1, <1>2, <1>3
  <2>2. r + d = s
    BY <1>1, <1>2, <2>1, DivisionIsUnique
  <2>3. QED
    BY <1>1, <1>3, <2>2 DEF r, s
<1>4. CASE ~(r + d < n)
  <2> DEFINE t == q + 1
             u == r + d - n
  <2>1. n * (q + 1) = n * q + n
    BY <1>1
  <2>2. t \in Int /\ u \in 0..n - 1 /\ n * t + u = n * p + s
    BY <1>1, <1>2, <1>4, <2>1
  <2> HIDE DEF t, u
  <2>3. u = s
    BY <1>1, <1>2, <2>2, DivisionIsUnique
  <2>4. QED
    BY <1>1, <1>4, <2>3 DEF r, s, u
<1>5. QED
  BY <1>3, <1>4

\* A map of n buckets.  A walk that begins where an element's key hashes to
\* reaches the element, and on the way only elements that were added before it.
MapOK(m, n, K, V) ==
  /\ n \in Nat /\ n > 0
  /\ m \in [buckets : [0..n - 1 -> Nat], elems : Seq([key : K, value : V])]
  /\ Len(m.elems) < n
  /\ \A b \in 0..n - 1 : m.buckets[b] <= Len(m.elems)
  /\ Cardinality({b \in 0..n - 1 : m.buckets[b] # 0}) <= Len(m.elems)
  /\ \A e \in 1..Len(m.elems) : \E d \in 0..n - 1 :
       /\ m.buckets[BucketAt(m, m.elems[e].key, d)] = e
       /\ \A c \in 0..d - 1 : m.buckets[BucketAt(m, m.elems[e].key, c)] \in 1..e - 1

\* The walk from any key's bucket visits all buckets.
LEMMA BucketsVisited ==
  ASSUME NEW n \in Nat, n > 0, NEW m, DOMAIN m.buckets = 0..n - 1, NEW key, Hash(key) \in Nat
  PROVE  /\ \A d \in 0..n - 1 : BucketAt(m, key, d) \in 0..n - 1
         /\ \A b \in 0..n - 1 : \E d \in 0..n - 1 : BucketAt(m, key, d) = b
<1>1. Cardinality(0..n - 1) = n
  BY FS_Interval
<1>2. \A d \in 0..n - 1 : BucketAt(m, key, d) = (Hash(key) + d) % n
  BY <1>1 DEF BucketAt
<1> DEFINE h == Hash(key)
           r == h % n
<1>h. h \in Nat /\ \A d \in 0..n - 1 : BucketAt(m, key, d) = (h + d) % n
  BY <1>2
<1> HIDE DEF h
<1>r. r \in 0..n - 1
  BY <1>h, WalkAround
<1>w. \A d \in 0..n - 1 : (h + d) % n = IF r + d < n THEN r + d ELSE r + d - n
  BY <1>h, WalkAround
<1>3. \A d \in 0..n - 1 : BucketAt(m, key, d) = IF r + d < n THEN r + d ELSE r + d - n
  BY <1>h, <1>w
<1> HIDE DEF r
<1>4. ASSUME NEW d \in 0..n - 1 PROVE BucketAt(m, key, d) \in 0..n - 1
  <2>1. BucketAt(m, key, d) = IF r + d < n THEN r + d ELSE r + d - n
    BY <1>3
  <2>2. QED
    BY <1>r, <2>1
<1>5. ASSUME NEW b \in 0..n - 1 PROVE \E d \in 0..n - 1 : BucketAt(m, key, d) = b
  <2> DEFINE d == IF r <= b THEN b - r ELSE b - r + n
  <2>1. d \in 0..n - 1 /\ b = IF r + d < n THEN r + d ELSE r + d - n
    BY <1>r, SMTT(30)
  <2> HIDE DEF d
  <2>2. BucketAt(m, key, d) = b
    BY <1>3, <2>1
  <2>3. QED
    BY <2>1, <2>2
<1>6. QED
  BY <1>4, <1>5

\* There is an empty bucket on every walk.
LEMMA EmptyBucketMet ==
  ASSUME NEW m, NEW n, NEW K, NEW V, MapOK(m, n, K, V), NEW key, Hash(key) \in Nat
  PROVE  \E d \in 0..n - 1 : m.buckets[BucketAt(m, key, d)] = 0
<1> DEFINE used == {b \in 0..n - 1 : m.buckets[b] # 0}
<1>1. /\ n \in Nat /\ n > 0 /\ DOMAIN m.buckets = 0..n - 1
      /\ Len(m.elems) \in Nat /\ Len(m.elems) < n /\ Cardinality(used) <= Len(m.elems)
  BY DEF MapOK
<1>2. PICK b \in 0..n - 1 : m.buckets[b] = 0
  <2>1. SUFFICES ASSUME \A b \in 0..n - 1 : m.buckets[b] # 0 PROVE FALSE
    OBVIOUS
  <2>2. used = 0..n - 1
    BY <2>1
  <2>3. Cardinality(0..n - 1) = n
    BY <1>1, FS_Interval
  <2> HIDE DEF used
  <2>4. Cardinality(used) = n
    BY <2>2, <2>3
  <2>5. QED
    BY <1>1, <2>4
<1>3. PICK d \in 0..n - 1 : BucketAt(m, key, d) = b
  BY <1>1, BucketsVisited
<1>4. QED
  BY <1>2, <1>3

\* The first of a set of steps.
LEMMA FirstStep ==
  ASSUME NEW steps \in SUBSET Nat, steps # {}
  PROVE  LET d == CHOOSE d \in steps : \A c \in steps : d <= c
         IN d \in steps /\ \A c \in steps : d <= c
<1>1. \E d \in steps : \A c \in steps : d <= c
  BY MinExists
<1>2. QED
  BY <1>1

\* get_element finds the element that was added first for a key, and nothing
\* for a key without an element.
THEOREM GetElementFinds ==
  ASSUME NEW m, NEW n, NEW K, NEW V, MapOK(m, n, K, V), NEW key, Hash(key) \in Nat
  PROVE  \/ /\ \A e \in 1..Len(m.elems) : m.elems[e].key # key
            /\ GetElement(m, key) = NoElement
         \/ \E e \in 1..Len(m.elems) :
              /\ m.elems[e].key = key /\ \A i \in 1..e - 1 : m.elems[i].key # key
              /\ GetElement(m, key) = m.elems[e].value
<1> DEFINE At(d) == m.buckets[BucketAt(m, key, d)]
           steps == {d \in 0..n - 1 : At(d) = 0 \/ m.elems[At(d)].key = key}
           first == CHOOSE d \in steps : \A c \in steps : d <= c
<1>1. /\ n \in Nat /\ n > 0 /\ DOMAIN m.buckets = 0..n - 1 /\ Len(m.elems) \in Nat
      /\ \A b \in 0..n - 1 : m.buckets[b] \in 0..Len(m.elems)
  BY DEF MapOK
<1>2. \A d \in 0..n - 1 : BucketAt(m, key, d) \in 0..n - 1 /\ At(d) \in 0..Len(m.elems)
  BY <1>1, BucketsVisited
<1>3. PICK z \in 0..n - 1 : At(z) = 0
  BY EmptyBucketMet
<1>4. Cardinality(DOMAIN m.buckets) = n
  BY <1>1, FS_Interval
<1> DEFINE given == {d \in 0..(Cardinality(DOMAIN m.buckets) - 1) :
                       At(d) = NO_ELEMENT_INDEX \/ m.elems[At(d)].key = key}
           found == CHOOSE d \in given : \A c \in given : d <= c
<1>a. GetElement(m, key) = IF At(found) = NO_ELEMENT_INDEX THEN NoElement ELSE m.elems[At(found)].value
  BY DEF GetElement, ProbeTo
<1>b. given = steps
  BY <1>4 DEF NO_ELEMENT_INDEX
<1>5. GetElement(m, key) = IF At(first) = 0 THEN NoElement ELSE m.elems[At(first)].value
  <2> HIDE DEF given, steps, At
  <2>1. found = first
    BY <1>b
  <2>2. QED
    BY <1>a, <2>1 DEF NO_ELEMENT_INDEX
<1>6. first \in steps /\ \A c \in steps : first <= c
  <2>1. steps \in SUBSET Nat /\ steps # {}
    BY <1>1, <1>3, SMTT(30)
  <2> HIDE DEF steps
  <2>2. QED
    BY <2>1, FirstStep
<1> HIDE DEF first
<1>7. CASE \A e \in 1..Len(m.elems) : m.elems[e].key # key
  <2>0. first \in 0..n - 1 /\ (At(first) = 0 \/ m.elems[At(first)].key = key)
    BY <1>6
  <2>1. At(first) = 0
    <3>1. At(first) \in 0..Len(m.elems)
      BY <1>2, <2>0
    <3>2. QED
      BY <1>1, <1>7, <2>0, <3>1, SMTT(30)
  <2>2. QED
    BY <1>5, <1>7, <2>1
<1>8. CASE \E e \in 1..Len(m.elems) : m.elems[e].key = key
  <2> DEFINE T == {e \in 1..Len(m.elems) : m.elems[e].key = key}
  <2>1. T \in SUBSET Nat /\ T # {}
    BY <1>8
  <2>2. PICK e \in T : \A i \in T : e <= i
    BY <2>1, MinExists
  <2>3. e \in 1..Len(m.elems) /\ m.elems[e].key = key /\ \A i \in 1..e - 1 : m.elems[i].key # key
    <3>1. ASSUME NEW i \in 1..e - 1, m.elems[i].key = key PROVE FALSE
      <4>1. i \in T /\ ~(e <= i)
        BY <1>1, <2>2, <3>1
      <4>2. QED
        BY <2>2, <4>1
    <3>2. QED
      BY <2>2, <3>1
  <2>4. PICK d \in 0..n - 1 : At(d) = e /\ \A c \in 0..d - 1 : At(c) \in 1..e - 1
    <3>1. \E d \in 0..n - 1 :
            /\ m.buckets[BucketAt(m, m.elems[e].key, d)] = e
            /\ \A c \in 0..d - 1 : m.buckets[BucketAt(m, m.elems[e].key, c)] \in 1..e - 1
      BY <2>3 DEF MapOK
    <3>2. QED
      BY <2>3, <3>1
  <2> HIDE DEF T, At
  <2>5. d \in steps
    BY <2>3, <2>4
  <2>6. \A c \in 0..d - 1 : c \notin steps
    BY <2>3, <2>4
  <2>7. first = d
    <3>1. first \in Nat /\ d \in Nat /\ first <= d
      BY <1>1, <1>6, <2>5
    <3>2. first \notin 0..d - 1
      BY <1>6, <2>6
    <3>3. QED
      BY <3>1, <3>2
  <2>8. GetElement(m, key) = m.elems[e].value
    BY <1>5, <2>3, <2>4, <2>7
  <2>9. QED
    BY <2>3, <2>8
<1>9. QED
  BY <1>7, <1>8

\* add_new_element keeps what was added before where it is found.
THEOREM AddNewElementOK ==
  ASSUME NEW m, NEW n, NEW K, NEW V, MapOK(m, n, K, V), \A k \in K : Hash(k) \in Nat,
         NEW key \in K, NEW value \in V, Len(m.elems) + 1 < n
  PROVE  /\ MapOK(AddNewElement(m, key, value), n, K, V)
         /\ AddNewElement(m, key, value).elems = Append(m.elems, [key |-> key, value |-> value])
<1> DEFINE E == [key : K, value : V]
           elem == [key |-> key, value |-> value]
           len == Len(m.elems)
           At(k, d) == m.buckets[BucketAt(m, k, d)]
           given == {d \in 0..(Cardinality(DOMAIN m.buckets) - 1) : At(key, d) = NO_ELEMENT_INDEX}
           found == CHOOSE d \in given : \A c \in given : d <= c
           bucket == BucketAt(m, key, found)
           new == AddNewElement(m, key, value)
           buckets == [m.buckets EXCEPT ![bucket] = len + 1]
           elems == Append(m.elems, elem)
<1>1. /\ n \in Nat /\ n > 0 /\ m.buckets \in [0..n - 1 -> Nat] /\ DOMAIN m.buckets = 0..n - 1
      /\ m.elems \in Seq(E) /\ len \in Nat /\ len + 1 < n /\ elem \in E
      /\ \A b \in 0..n - 1 : m.buckets[b] \in 0..len
  BY DEF MapOK
<1>2. \A k \in K, d \in 0..n - 1 : BucketAt(m, k, d) \in 0..n - 1
  BY <1>1, BucketsVisited
<1>n. n \in Nat /\ n > 0 /\ DOMAIN m.buckets = 0..n - 1
  BY DEF MapOK
<1>l. len \in Nat
  BY <1>1
<1>3. \A e \in 1..len : m.elems[e].key \in K
  <2>1. m.elems \in Seq([key : K, value : V])
    BY DEF MapOK
  <2>2. ASSUME NEW e \in 1..len PROVE m.elems[e].key \in K
    <3>1. m.elems[e] \in [key : K, value : V]
      BY <2>1, ElementOfSeq
    <3>2. QED
      BY <3>1
  <2>3. QED
    BY <2>2
<1>4. new = [buckets |-> buckets, elems |-> elems]
  BY DEF AddNewElement, ProbeTo
<1>5. /\ found \in 0..n - 1 /\ At(key, found) = 0
      /\ \A c \in 0..found - 1 : At(key, c) # 0
  <2>1. Cardinality(DOMAIN m.buckets) = n
    <3>1. Cardinality(0..n - 1) = n
      BY <1>n, FS_Interval
    <3>2. QED
      BY <1>n, <3>1
  <2>2. given = {d \in 0..n - 1 : At(key, d) = 0}
    BY <2>1 DEF NO_ELEMENT_INDEX
  <2>3. \E z \in 0..n - 1 : At(key, z) = 0
    BY EmptyBucketMet
  <2>4. given \in SUBSET Nat /\ given # {}
    BY <1>n, <2>2, <2>3
  <2> HIDE DEF given
  <2>5. found \in given /\ \A c \in given : found <= c
    BY <2>4, FirstStep
  <2> HIDE DEF found, At
  <2>6. found \in 0..n - 1 /\ At(key, found) = 0
    BY <2>2, <2>5
  <2>7. ASSUME NEW c \in 0..found - 1 PROVE At(key, c) # 0
    <3>1. c \in 0..n - 1 /\ ~(found <= c)
      BY <1>1, <2>6
    <3>2. QED
      BY <2>2, <2>5, <3>1
  <2>8. QED
    BY <2>6, <2>7
<1> HIDE DEF found
<1>6. bucket \in 0..n - 1 /\ m.buckets[bucket] = 0
  BY <1>2, <1>5
<1>7. \A k, d : BucketAt(new, k, d) = BucketAt(m, k, d)
  <2>1. DOMAIN new.buckets = DOMAIN m.buckets
    BY <1>4
  <2>2. QED
    BY <2>1 DEF BucketAt
<1> HIDE DEF bucket, elem, E
<1>8. buckets \in [0..n - 1 -> Nat] /\ buckets[bucket] = len + 1
  BY <1>1, <1>6, SMTT(30)
<1>9. \A b \in 0..n - 1 : b # bucket => buckets[b] = m.buckets[b]
  BY <1>1
<1>10. /\ elems \in Seq(E) /\ Len(elems) = len + 1 /\ elems[len + 1] = elem
       /\ \A e \in 1..len : elems[e] = m.elems[e]
  BY <1>1, SMTT(30)
<1> HIDE DEF buckets, elems
<1>11. Cardinality({b \in 0..n - 1 : buckets[b] # 0}) <= len + 1
  <2> DEFINE old == {b \in 0..n - 1 : m.buckets[b] # 0}
  <2>0. \A b \in 0..n - 1 : buckets[b] # 0 <=> (m.buckets[b] # 0 \/ b = bucket)
    <3>1. len + 1 # 0
      BY <1>1
    <3>2. QED
      BY <1>6, <1>8, <1>9, <3>1
  <2>1. {b \in 0..n - 1 : buckets[b] # 0} = old \cup {bucket}
    BY <1>6, <2>0
  <2>2. Cardinality(old) <= len /\ IsFiniteSet(0..n - 1) /\ old \in SUBSET (0..n - 1)
    BY <1>1, FS_Interval DEF MapOK
  <2> HIDE DEF old
  <2>3. IsFiniteSet(old) /\ Cardinality(old) \in Nat
    BY <2>2, FS_Subset, FS_CardinalityType
  <2>4. Cardinality(old \cup {bucket}) = Cardinality(old) \/ Cardinality(old \cup {bucket}) = Cardinality(old) + 1
    BY <2>3, FS_AddElement
  <2>5. Cardinality(old \cup {bucket}) <= len + 1
    <3>1. len \in Nat /\ Cardinality(old) <= len /\ Cardinality(old) \in Nat
      BY <1>1, <2>2, <2>3
    <3>2. QED
      BY <2>4, <3>1
  <2>6. QED
    BY <2>1, <2>5
<1>12. ASSUME NEW e \in 1..len + 1
       PROVE  \E d \in 0..n - 1 :
                /\ buckets[BucketAt(m, elems[e].key, d)] = e
                /\ \A c \in 0..d - 1 : buckets[BucketAt(m, elems[e].key, c)] \in 1..e - 1
  <2>1. CASE e = len + 1
    <3>1. elems[e].key = key
      BY <1>10, <2>1 DEF elem
    <3>2. buckets[BucketAt(m, key, found)] = e
      BY <1>8, <2>1 DEF bucket
    <3>3. ASSUME NEW c \in 0..found - 1 PROVE buckets[BucketAt(m, key, c)] \in 1..e - 1
      <4>1. c \in 0..n - 1 /\ At(key, c) # 0
        <5>1. found \in 0..n - 1 /\ At(key, c) # 0
          BY <1>5
        <5> HIDE DEF At
        <5>2. QED
          BY <1>n, <5>1
      <4>2. BucketAt(m, key, c) \in 0..n - 1 /\ BucketAt(m, key, c) # bucket
        BY <1>2, <1>6, <4>1
      <4>3. buckets[BucketAt(m, key, c)] = At(key, c) /\ At(key, c) \in 0..len
        BY <1>1, <1>9, <4>2
      <4>4. QED
        BY <1>1, <2>1, <4>1, <4>3
    <3>4. QED
      BY <1>5, <3>1, <3>2, <3>3
  <2>2. CASE e # len + 1
    <3> DEFINE k == m.elems[e].key
    <3>1. e \in 1..len
      <4> HIDE DEF len, At
      <4>1. QED
        BY <1>l, <2>2
    <3>2. elems[e].key = k /\ k \in K
      BY <1>3, <1>10, <3>1
    <3>3. PICK d \in 0..n - 1 : At(k, d) = e /\ \A c \in 0..d - 1 : At(k, c) \in 1..e - 1
      BY <3>1 DEF MapOK
    <3> HIDE DEF k
    <3>4. ASSUME NEW c \in 0..n - 1, At(k, c) # 0 PROVE buckets[BucketAt(m, k, c)] = At(k, c)
      BY <1>2, <1>6, <1>9, <3>2, <3>4
    <3>5. buckets[BucketAt(m, k, d)] = e
      BY <3>1, <3>3, <3>4
    <3>6. ASSUME NEW c \in 0..d - 1 PROVE buckets[BucketAt(m, k, c)] \in 1..e - 1
      <4>1. At(k, c) \in 1..e - 1
        BY <3>3
      <4>2. c \in 0..n - 1 /\ At(k, c) # 0
        <5> HIDE DEF At, len
        <5>1. QED
          BY <1>n, <3>1, <3>3, <4>1, SMTT(30)
      <4>3. QED
        BY <3>4, <4>1, <4>2
    <3>7. QED
      BY <3>2, <3>5, <3>6
  <2>3. QED
    BY <2>1, <2>2
<1>13. \A b \in 0..n - 1 : buckets[b] <= len + 1
  <2>1. ASSUME NEW b \in 0..n - 1 PROVE buckets[b] <= len + 1
    <3>1. CASE b = bucket
      BY <1>1, <1>8, <3>1
    <3>2. CASE b # bucket
      <4>1. buckets[b] = m.buckets[b] /\ m.buckets[b] \in 0..len
        BY <1>1, <1>9, <3>2
      <4>2. QED
        BY <1>1, <4>1, SMTT(30)
    <3>3. QED
      BY <3>1, <3>2
  <2>2. QED
    BY <2>1
<1>14. /\ new.buckets = buckets /\ new.elems = elems
       /\ new \in [buckets : [0..n - 1 -> Nat], elems : Seq(E)]
  BY <1>4, <1>8, <1>10
<1> HIDE DEF new
<1>15. MapOK(new, n, K, V)
  <2>1. new \in [buckets : [0..n - 1 -> Nat], elems : Seq([key : K, value : V])]
    BY <1>14 DEF E
  <2>2. \A e \in 1..len + 1 : \E d \in 0..n - 1 :
          /\ new.buckets[BucketAt(new, new.elems[e].key, d)] = e
          /\ \A c \in 0..d - 1 : new.buckets[BucketAt(new, new.elems[e].key, c)] \in 1..e - 1
    <3>1. \A k, d : new.buckets[BucketAt(new, k, d)] = buckets[BucketAt(m, k, d)]
      BY <1>7, <1>14
    <3>2. \A k, d : new.buckets[BucketAt(new, k, d)] = buckets[BucketAt(m, k, d)] /\ new.elems = elems
      BY <1>14, <3>1
    <3> HIDE DEF len
    <3>3. ASSUME NEW e \in 1..len + 1
          PROVE  \E d \in 0..n - 1 :
                   /\ new.buckets[BucketAt(new, new.elems[e].key, d)] = e
                   /\ \A c \in 0..d - 1 : new.buckets[BucketAt(new, new.elems[e].key, c)] \in 1..e - 1
      <4> DEFINE k == elems[e].key
      <4>1. PICK d \in 0..n - 1 : /\ buckets[BucketAt(m, k, d)] = e
                                  /\ \A c \in 0..d - 1 : buckets[BucketAt(m, k, c)] \in 1..e - 1
        BY <1>12
      <4>2. new.elems[e].key = k
        BY <3>2
      <4> HIDE DEF k
      <4>3. new.buckets[BucketAt(new, k, d)] = e
        BY <3>2, <4>1
      <4>4. \A c \in 0..d - 1 : new.buckets[BucketAt(new, k, c)] \in 1..e - 1
        BY <3>2, <4>1
      <4>5. QED
        BY <4>2, <4>3, <4>4
    <3>4. QED
      BY <3>3
  <2>3. QED
    BY <1>1, <1>10, <1>11, <1>13, <1>14, <2>1, <2>2 DEF MapOK
<1>16. QED
  BY <1>14, <1>15 DEF new, elems, elem

\* set_number_of_elements makes more buckets than elements are announced.
LEMMA NumBucketsSuffice ==
  ASSUME NEW factor, NEW n, factor * (n + 1) \in Nat
  PROVE  NumBuckets(factor, n) \in Nat /\ NumBuckets(factor, n) >= factor * (n + 1)
<1> DEFINE needed == factor * (n + 1)
           IsPower(h) == h = [k \in 0..needed |-> IF k = 0 THEN 1 ELSE 2 * h[k - 1]]
           power == CHOOSE h : IsPower(h)
           step == [p \in (0..needed) \X Nat |-> IF p[1] = 0 THEN 1 ELSE 2 * p[2]]
           fits == {k \in 0..needed : power[k] >= needed}
           Least(k) == power[k] >= needed /\ \A j \in 0..(k - 1) : power[j] < needed
<1>1. needed \in Nat
  OBVIOUS
<1>2. NumBuckets(factor, n) = power[CHOOSE k \in 0..needed : Least(k)]
  BY DEF NumBuckets
<1> HIDE DEF needed
<1>3. step \in [(0..needed) \X Nat -> Nat]
  <2>1. ASSUME NEW p \in (0..needed) \X Nat PROVE (IF p[1] = 0 THEN 1 ELSE 2 * p[2]) \in Nat
    OBVIOUS
  <2>2. QED
    BY <2>1
<1>4. \A k \in 0..needed, x \in Nat : step[<<k, x>>] = IF k = 0 THEN 1 ELSE 2 * x
  OBVIOUS
<1> HIDE DEF step
<1>5. IsChain(0, needed, Nat, 0, step)
  BY <1>1, <1>3 DEF IsChain
<1>6. PICK f : IsChained(0, needed, Nat, 0, step, f)
  BY <1>5, ChainExists
<1>7. f \in [0..needed -> Nat] /\ \A k \in 0..needed : f[k] = step[<<k, IF k = 0 THEN 0 ELSE f[k - 1]>>]
  BY <1>6 DEF IsChained
<1>8. IsPower(f)
  <2>1. ASSUME NEW k \in 0..needed PROVE f[k] = IF k = 0 THEN 1 ELSE 2 * f[k - 1]
    <3>1. k # 0 => k - 1 \in 0..needed
      BY <1>1
    <3>2. (IF k = 0 THEN 0 ELSE f[k - 1]) \in Nat
      BY <1>7, <3>1
    <3>3. QED
      BY <1>4, <1>7, <3>2
  <2>2. QED
    BY <1>7, <2>1
<1>9. IsPower(power)
  <2> HIDE DEF IsPower
  <2>1. QED
    BY <1>8
<1> HIDE DEF power
<1>10. 0..needed \subseteq {k \in 0..needed : power[k] \in Nat /\ power[k] > k}
  <2> DEFINE P == {k \in 0..needed : power[k] \in Nat /\ power[k] > k}
  <2>1. ASSUME NEW k \in 0..needed, k = 0 \/ k - 1 \in P PROVE k \in P
    <3>1. CASE k = 0
      <4>1. power[k] = 1
        BY <1>9, <3>1
      <4>2. QED
        BY <3>1, <4>1
    <3>2. CASE k # 0
      <4>1. power[k] = 2 * power[k - 1]
        BY <1>9, <3>2
      <4>2. power[k - 1] \in Nat /\ power[k - 1] > k - 1 /\ k \in Nat
        BY <1>1, <2>1, <3>2
      <4>3. QED
        BY <3>2, <4>1, <4>2
    <3>3. QED
      BY <3>1, <3>2
  <2> HIDE DEF P
  <2>2. IsRangeInductive(0, needed, P)
    BY <1>1, <2>1 DEF IsRangeInductive
  <2>3. 0..needed \subseteq P
    BY <2>2, RangeInduction
  <2>4. QED
    BY <2>3 DEF P
<1>11. \E k \in 0..needed : Least(k)
  <2>1. needed \in 0..needed /\ power[needed] >= needed
    BY <1>1, <1>10
  <2>2. fits \in SUBSET Nat /\ fits # {}
    BY <1>1, <2>1
  <2> DEFINE k == CHOOSE k \in fits : \A j \in fits : k <= j
  <2>3. k \in fits /\ \A j \in fits : k <= j
    <3> HIDE DEF fits
    <3>1. QED
      BY <2>2, FirstStep
  <2> HIDE DEF k
  <2>4. k \in 0..needed /\ power[k] >= needed
    BY <2>3
  <2>5. ASSUME NEW j \in 0..(k - 1) PROVE power[j] < needed
    <3>1. j \in 0..needed /\ ~(k <= j)
      BY <1>1, <2>4
    <3>2. j \notin fits
      BY <2>3, <3>1
    <3>3. ~(power[j] >= needed) /\ power[j] \in Nat
      BY <1>10, <3>1, <3>2
    <3>4. QED
      BY <1>1, <3>3
  <2>6. QED
    BY <2>4, <2>5
<1> DEFINE least == CHOOSE k \in 0..needed : Least(k)
<1>12. least \in 0..needed /\ Least(least)
  <2> HIDE DEF Least
  <2>1. QED
    BY <1>11
<1> HIDE DEF least
<1>13. power[least] \in Nat /\ power[least] >= needed
  BY <1>10, <1>12
<1>14. QED
  BY <1>2, <1>13 DEF least, needed

\* A new map for n elements has a bucket more than it will have elements.
LEMMA NewMapOK ==
  ASSUME NEW n \in Nat, NEW K, NEW V
  PROVE  \E b \in Nat : /\ b > n /\ MapOK(NewMap(SOURCES_BUCKETS_FACTOR, n), b, K, V)
                        /\ NewMap(SOURCES_BUCKETS_FACTOR, n).elems = <<>>
<1> DEFINE b == NumBuckets(SOURCES_BUCKETS_FACTOR, n)
           m == NewMap(SOURCES_BUCKETS_FACTOR, n)
<1>0. SOURCES_BUCKETS_FACTOR * (n + 1) \in Nat /\ SOURCES_BUCKETS_FACTOR * (n + 1) > n
  BY DEF SOURCES_BUCKETS_FACTOR
<1>1. b \in Nat /\ b >= SOURCES_BUCKETS_FACTOR * (n + 1)
  BY <1>0, NumBucketsSuffice
<1>2. b > n
  BY <1>0, <1>1
<1>3. /\ m.elems = <<>> /\ m.buckets = [i \in 0..b - 1 |-> 0]
      /\ DOMAIN m = {"buckets", "elems"} /\ m = [buckets |-> m.buckets, elems |-> m.elems]
  BY DEF NewMap, NO_ELEMENT_INDEX
<1> HIDE DEF b, m
<1>4. \A i \in 0..b - 1 : m.buckets[i] = 0
  BY <1>3
<1>5. m \in [buckets : [0..b - 1 -> Nat], elems : Seq([key : K, value : V])]
  <2>1. m.elems \in Seq([key : K, value : V]) /\ m.buckets \in [0..b - 1 -> Nat]
    BY <1>3
  <2>2. QED
    BY <1>3, <2>1
<1>6. Cardinality({i \in 0..b - 1 : m.buckets[i] # 0}) = 0
  <2>1. {i \in 0..b - 1 : m.buckets[i] # 0} = {}
    BY <1>4
  <2>2. QED
    BY <2>1, FS_EmptySet
<1>7. MapOK(m, b, K, V)
  <2>1. Len(m.elems) = 0
    BY <1>3
  <2>2. QED
    BY <1>1, <1>2, <1>4, <1>5, <1>6, <2>1 DEF MapOK
<1>8. QED
  BY <1>1, <1>2, <1>3, <1>7 DEF m

-----------------------------------------------------------------------------
(* The language model                                                        *)

\* Down a column that is entered in a row not below its end.
LEMMA RowFoundProps ==
  ASSUME NEW lm, NEW w, NEW from \in Nat, NEW e \in Nat, from <= e
  PROVE  /\ RowFound(lm, w, from, e) \in from..e
         /\ RowFound(lm, w, from, e) = e \/ Found(lm, w, RowFound(lm, w, from, e), e)
<1> DEFINE Ends(r) == r = e \/ Found(lm, w, r, e)
           T == {r \in from..e : Ends(r)}
           Good(r) == /\ r = e \/ Found(lm, w, r, e)
                      /\ \A q \in from..(r - 1) : ~Found(lm, w, q, e)
<1>1. T \in SUBSET Nat /\ T # {}
  <2>1. e \in T
    OBVIOUS
  <2>2. QED
    BY <2>1
<1>2. PICK r \in T : \A q \in T : r <= q
  BY <1>1, MinExists
<1>3. r \in from..e /\ Good(r)
  <2>1. ASSUME NEW q \in from..(r - 1), Found(lm, w, q, e) PROVE FALSE
    <3>1. q \in T /\ ~(r <= q)
      BY <1>2, <2>1
    <3>2. QED
      BY <1>2, <3>1
  <2>2. QED
    BY <1>2, <2>1
<1>4. RowFound(lm, w, from, e) = CHOOSE x \in from..e : Good(x)
  BY DEF RowFound
<1> HIDE DEF Good
<1>5. RowFound(lm, w, from, e) \in from..e /\ Good(RowFound(lm, w, from, e))
  BY <1>3, <1>4
<1>6. QED
  BY <1>5 DEF Good

\* Every column of the m-gram matrix has an integer probability.
LEMMA ColumnProbType ==
  ASSUME NEW lm, LmFields(lm), NEW w \in Seq(Words), NEW e \in 1..Len(w), NEW from \in 1..e
  PROVE  ColumnProb(lm, w, from, e) \in Int
<1> DEFINE r == RowFound(lm, w, from, e)
           costs == [q \in from..(r - 1) |-> BackOff(lm, w, q, e - 1)]
           prob == IF r = e THEN UniGramProb(lm, w, e) ELSE lm.prob[SubSeq(w, r, e)]
<1>1. e \in Nat /\ from \in Nat /\ from <= e
  OBVIOUS
<1>2. r \in from..e /\ (r = e \/ Found(lm, w, r, e))
  BY <1>1, RowFoundProps
<1>3. ColumnProb(lm, w, from, e) = SumFunction(costs) + prob
  BY DEF ColumnProb
<1> HIDE DEF r
<1>4. SumFunction(costs) \in Int
  <2>1. ASSUME NEW q \in from..(r - 1) PROVE BackOff(lm, w, q, e - 1) \in Int
    BY DEF BackOff, LmFields
  <2>2. costs \in [from..(r - 1) -> Int]
    BY <2>1
  <2>3. IsFiniteSet(from..(r - 1))
    BY <1>1, <1>2, FS_Interval
  <2> HIDE DEF costs
  <2> DEFINE D == from..(r - 1)
  <2> HIDE DEF D
  <2>4. IsFiniteSet(D) /\ costs \in [D -> Int]
    BY <2>2, <2>3 DEF D
  <2>5. QED
    BY <2>4, SumFunctionType
<1>5. prob \in Int
  <2>1. UniGramProb(lm, w, e) \in Int
    BY DEF UniGramProb, LmFields
  <2>2. Found(lm, w, r, e) => lm.prob[SubSeq(w, r, e)] \in Int
    BY DEF Found, LmFields
  <2>3. QED
    BY <1>2, <2>1, <2>2
<1>6. QED
  BY <1>3, <1>4, <1>5

\* Every query has an integer as its cost, and the level it returns is one the
\* next query can begin with.
THEOREM ExecuteQueryType ==
  ASSUME NEW lm, LmFields(lm), NEW w \in Seq(Words), NEW minLevel \in 1..LmMax
  PROVE  ExecuteQuery(lm, w, minLevel) \in [cost : Int, level : 1..LmMax]
<1> DEFINE D == minLevel..Len(w)
           Row(e, before) == CASE e >= LmMax + 1 -> e - LmMax + 1
                               [] e = minLevel /\ e <= LmMax -> 1
                               [] OTHER -> RowFound(lm, w, before, e - 1)
           IsFirst(h) == h = [e \in D |-> Row(e, h[e - 1])]
           first == CHOOSE h : IsFirst(h)
           step == [p \in D \X Int |-> IF Row(p[1], p[2]) \in Int THEN Row(p[1], p[2]) ELSE 0]
           probs == [e \in D |-> ColumnProb(lm, w, first[e], e)]
           counted == {e \in D : probs[e] >= ZeroWeight}
<1>1. /\ LmMax \in Nat /\ LmMax > 1 /\ minLevel \in Nat /\ minLevel >= 1 /\ minLevel <= LmMax
      /\ Len(w) \in Nat
  BY LmMaxAssumption
<1>2. ExecuteQuery(lm, w, minLevel) =
        [cost |-> SumFunctionOnSet(probs, counted), level |-> MinOf(MinOf(Len(w), LmMax) + 1, LmMax)]
  BY DEF ExecuteQuery
<1>3. ASSUME NEW e \in D, NEW before, e # minLevel => before \in 1..e - 1
      PROVE  Row(e, before) \in 1..e
  <2>1. e \in Nat /\ e >= minLevel
    BY <1>1
  <2>2. CASE e >= LmMax + 1
    BY <1>1, <2>1, <2>2
  <2>3. CASE ~(e >= LmMax + 1) /\ e = minLevel
    <3>1. e <= LmMax
      BY <1>1, <2>1, <2>3
    <3>2. Row(e, before) = 1
      BY <2>3, <3>1
    <3>3. QED
      BY <1>1, <2>1, <3>2
  <2>4. CASE ~(e >= LmMax + 1) /\ e # minLevel
    <3>1. before \in 1..e - 1 /\ before \in Nat /\ e - 1 \in Nat /\ before <= e - 1
      BY <1>3, <2>1, <2>4
    <3>2. RowFound(lm, w, before, e - 1) \in before..e - 1
      BY <3>1, RowFoundProps
    <3>3. Row(e, before) = RowFound(lm, w, before, e - 1)
      BY <2>4
    <3>4. QED
      BY <2>1, <3>1, <3>2, <3>3
  <2>5. QED
    BY <2>2, <2>3, <2>4
<1> HIDE DEF Row
<1>4. step \in [D \X Int -> Int]
  <2>1. ASSUME NEW p \in D \X Int
        PROVE  (IF Row(p[1], p[2]) \in Int THEN Row(p[1], p[2]) ELSE 0) \in Int
    OBVIOUS
  <2>2. QED
    BY <2>1
<1>5. \A e \in D, x \in Int : step[<<e, x>>] = IF Row(e, x) \in Int THEN Row(e, x) ELSE 0
  OBVIOUS
<1> HIDE DEF step
<1>6. IsChain(minLevel, Len(w), Int, 0, step)
  BY <1>1, <1>4 DEF IsChain
<1>7. PICK f : IsChained(minLevel, Len(w), Int, 0, step, f)
  BY <1>6, ChainExists
<1>8. f \in [D -> Int] /\ \A e \in D : f[e] = step[<<e, IF e = minLevel THEN 0 ELSE f[e - 1]>>]
  BY <1>7 DEF IsChained
<1>9. ASSUME NEW e \in D, e = minLevel \/ f[e - 1] \in 1..e - 1
      PROVE  f[e] = Row(e, f[e - 1]) /\ f[e] \in 1..e
  <2> DEFINE x == IF e = minLevel THEN 0 ELSE f[e - 1]
  <2>1. x \in Int
    BY <1>9
  <2>2. Row(e, x) \in 1..e /\ Row(e, f[e - 1]) \in 1..e
    BY <1>3, <1>9
  <2>3. f[e] = Row(e, x)
    <3>1. f[e] = step[<<e, x>>]
      BY <1>8
    <3>2. Row(e, x) \in Int
      BY <2>2
    <3> HIDE DEF x
    <3>3. QED
      BY <1>5, <2>1, <3>1, <3>2
  <2>4. Row(e, x) = Row(e, f[e - 1])
    <3>1. CASE e = minLevel
      BY <1>1, <3>1 DEF Row
    <3>2. QED
      BY <3>1
  <2>5. QED
    BY <2>2, <2>3, <2>4
<1>10. D \subseteq {e \in D : f[e] \in 1..e}
  <2> DEFINE P == {e \in D : f[e] \in 1..e}
  <2>1. ASSUME NEW e \in D, e = minLevel \/ e - 1 \in P PROVE e \in P
    BY <1>9, <2>1
  <2> HIDE DEF P
  <2>2. IsRangeInductive(minLevel, Len(w), P)
    BY <1>1, <2>1 DEF IsRangeInductive
  <2>3. minLevel..Len(w) \subseteq P
    BY <2>2, RangeInduction
  <2>4. QED
    BY <2>3 DEF P
<1>11. \A e \in D : e # minLevel => e - 1 \in D
  BY <1>1
<1>12. IsFirst(f)
  <2>1. \A e \in D : f[e] = Row(e, f[e - 1])
    BY <1>9, <1>10, <1>11
  <2>2. QED
    BY <1>8, <2>1
<1>13. IsFirst(first)
  <2> HIDE DEF IsFirst
  <2>1. QED
    BY <1>12
<1> HIDE DEF first
<1>14. \A e \in D : first[e] \in 1..e
  <2> DEFINE P == {e \in D : first[e] \in 1..e}
  <2>1. ASSUME NEW e \in D, e = minLevel \/ e - 1 \in P PROVE e \in P
    <3>1. first[e] = Row(e, first[e - 1])
      BY <1>13
    <3>2. e # minLevel => first[e - 1] \in 1..e - 1
      BY <2>1
    <3>3. QED
      BY <1>3, <3>1, <3>2
  <2> HIDE DEF P
  <2>2. IsRangeInductive(minLevel, Len(w), P)
    BY <1>1, <2>1 DEF IsRangeInductive
  <2>3. minLevel..Len(w) \subseteq P
    BY <2>2, RangeInduction
  <2>4. QED
    BY <2>3 DEF P
<1>15. \A e \in D : probs[e] \in Int
  <2>1. ASSUME NEW e \in D PROVE ColumnProb(lm, w, first[e], e) \in Int
    <3>1. e \in 1..Len(w) /\ first[e] \in 1..e
      BY <1>1, <1>14
    <3>2. QED
      BY <3>1, ColumnProbType
  <2>2. QED
    BY <2>1
<1> HIDE DEF probs
<1>16. IsFiniteSet(counted) /\ \A e \in counted : probs[e] \in Int
  <2>1. IsFiniteSet(D) /\ counted \in SUBSET D
    BY <1>1, FS_Interval, SMTT(30)
  <2>2. IsFiniteSet(counted)
    BY <2>1, FS_Subset
  <2>3. QED
    BY <1>15, <2>2
<1> HIDE DEF counted
<1>17. SumFunctionOnSet(probs, counted) \in Int
  BY <1>16, SumType
<1>18. MinOf(MinOf(Len(w), LmMax) + 1, LmMax) \in 1..LmMax
  BY <1>1 DEF MinOf
<1>19. QED
  BY <1>2, <1>17, <1>18

-----------------------------------------------------------------------------
(* The loading of the tables                                                 *)

\* The hash of every key is a natural number (a uint64_t).
HashIsNat == \A key \in Seq(Words) \cup Uids : Hash(key) \in Nat

\* The entries that are stored, and the weights of a reordering entry.
KnownEntries == {e \in Entries : e.known /\ e.targets # <<>>}
\* The weights of a reordering entry: as many for each half.
Weights == {w \in Seq(Int) : Len(w) \in {2, 4, 6, 8}}

\* The lines of the reordering file, up to the k-th, that are stored.
GoodLines(k) == {i \in 1..k : IsGoodPair(inst.rmFile[i])}

\* The lists of translations while the file of phrases is read and converted.
ListsOK ==
  /\ lists \in [DOMAIN lists -> Seq(Targets)]
  /\ DOMAIN lists \subseteq Seq(Words) /\ IsFiniteSet(DOMAIN lists)
  /\ toConvert \subseteq DOMAIN lists /\ (phase = "tm" => toConvert = {})
\* The hash map of the translation model has more buckets than it can get entries.
TmDataOK ==
  \E n \in Nat : /\ MapOK(tmData, n, Seq(Words), KnownEntries)
                 /\ phase = "convert" =>
                      /\ n > Cardinality(DOMAIN lists)
                      /\ Len(tmData.elems) + Cardinality(toConvert) <= Cardinality(DOMAIN lists)
\* The one of the reordering model, too: the counting pass counted what is stored.
RmDataOK ==
  \E n \in Nat : /\ MapOK(rmData, n, Uids, Weights)
                 /\ phase = "build" => n > rmCount
\* The count is that of the good lines read so far.
RmCountOK ==
  /\ line \in Nat /\ line >= 1 /\ rmCount \in 0..Len(inst.rmFile)
  /\ phase = "count" => /\ line <= Len(inst.rmFile) + 1
                        /\ rmCount = Cardinality(GoodLines(line - 1))
  /\ phase = "build" => /\ line <= Len(inst.rmFile) + 1
                        /\ rmCount = Cardinality(GoodLines(Len(inst.rmFile)))
                        /\ Len(rmData.elems) = Cardinality(GoodLines(line - 1))
\* The decoder only runs with entries for <s>, </s> and <unk>.
SpecialsOK == phase = "ready" => \A p \in Specials : RmEntry(p, p) # NoElement

\* The inductive invariant of the loading.
TablesInv ==
  /\ inst \in Instances
  /\ phase \in {"tm", "convert", "count", "build", "ready", "failed"}
  /\ ListsOK /\ TmDataOK /\ RmDataOK /\ RmCountOK /\ SpecialsOK

\* A function's values on a finite set are finitely many.
LEMMA FiniteImage ==
  ASSUME NEW S, IsFiniteSet(S), NEW f
  PROVE  IsFiniteSet({f[x] : x \in S})
<1> DEFINE T == {f[x] : x \in S}
           g == [x \in S |-> f[x]]
<1>1. g \in [S -> T] /\ \A t \in T : \E s \in S : g[s] = t
  OBVIOUS
<1> HIDE DEF g, T
<1>2. g \in Surjection(S, T)
  BY <1>1 DEF Surjection
<1>3. IsFiniteSet(T)
  BY <1>2, FS_Surjection
<1>4. QED
  BY <1>3 DEF T

\* add_elemenent makes a list longer or keeps its length at the limit.
LEMMA AddToListType ==
  ASSUME NEW S, NEW list \in Seq(S), NEW t \in S, NEW limit \in Nat
  PROVE  AddToList(list, t, limit) \in Seq(S) /\ AddToList(list, t, limit) # <<>>
<1> DEFINE greater == {i \in 1..Len(list) : \A j \in 1..i : TotalPlus(t) < TotalPlus(list[j])}
           p == Cardinality(greater)
           longer == InsertAt(list, p + 1, t)
<1>1. Len(list) \in Nat
  OBVIOUS
<1>2. p \in 0..Len(list)
  <2>1. IsFiniteSet(1..Len(list)) /\ Cardinality(1..Len(list)) = Len(list)
    BY <1>1, FS_Interval, SMTT(30)
  <2>2. greater \in SUBSET (1..Len(list))
    OBVIOUS
  <2> HIDE DEF greater
  <2>3. IsFiniteSet(greater) /\ Cardinality(greater) <= Len(list)
    BY <2>1, <2>2, FS_Subset
  <2>4. QED
    BY <1>1, <2>3, FS_CardinalityType
<1> HIDE DEF p
<1>3. longer \in Seq(S) /\ Len(longer) = Len(list) + 1
  BY <1>2, InsertProps
<1>4. AddToList(list, t, limit) =
        IF limit > CAPACITY_THRESHOLD /\ Len(longer) > limit THEN SubSeq(longer, 1, limit) ELSE longer
  BY DEF AddToList, p
<1> HIDE DEF longer
<1>5. CASE limit > CAPACITY_THRESHOLD /\ Len(longer) > limit
  <2>1. limit \in 0..Len(longer) /\ limit > 0
    BY <1>1, <1>3, <1>5 DEF CAPACITY_THRESHOLD
  <2>2. SubSeq(longer, 1, limit) \in Seq(S) /\ Len(SubSeq(longer, 1, limit)) = limit
    BY <1>3, <2>1, PrefixProps
  <2>3. QED
    BY <1>4, <1>5, <2>1, <2>2
<1>6. CASE ~(limit > CAPACITY_THRESHOLD /\ Len(longer) > limit)
  BY <1>1, <1>3, <1>4, <1>6
<1>7. QED
  BY <1>5, <1>6

\* An entry made of a non-empty list is an entry that is known.
LEMMA SourceEntryType ==
  ASSUME NEW targets \in Seq(Targets), NEW known \in BOOLEAN
  PROVE  /\ SourceEntry(targets, known) \in Entries
         /\ SourceEntry(targets, known).targets = targets
         /\ SourceEntry(targets, known).known = known
<1> DEFINE costs == {UnknownCost} \cup {TotalPlus(targets[i]) : i \in 1..Len(targets)}
           f == [i \in 1..Len(targets) |-> TotalPlus(targets[i])]
           image == {f[i] : i \in 1..Len(targets)}
<1>1. Len(targets) \in Nat /\ \A i \in 1..Len(targets) : TotalPlus(targets[i]) \in Int
  <2>1. ASSUME NEW i \in 1..Len(targets) PROVE TotalPlus(targets[i]) \in Int
    <3>1. targets[i] \in Targets
      BY ElementOfSeq
    <3>2. QED
      BY <3>1 DEF TotalPlus, Targets
  <2>2. QED
    BY <2>1
<1>2. IsFiniteSet(image)
  <2>1. IsFiniteSet(1..Len(targets))
    BY <1>1, FS_Interval
  <2> HIDE DEF f
  <2>2. QED
    BY <2>1, FiniteImage
<1>3. costs = image \cup {UnknownCost}
  OBVIOUS
<1>4. costs \subseteq Int /\ costs # {}
  BY <1>1 DEF UnknownCost
<1> HIDE DEF image
<1>5. IsFiniteSet(costs)
  BY <1>2, <1>3, FS_AddElement
<1>6. MaxSetOf(costs) \in Int
  <2> HIDE DEF costs
  <2>1. QED
    BY <1>4, <1>5, FiniteMax
<1>7. SourceEntry(targets, known) = [targets |-> targets, known |-> known, minCost |-> MaxSetOf(costs)]
  BY DEF SourceEntry, MaxSetOf
<1> HIDE DEF costs
<1>8. QED
  BY <1>6, <1>7 DEF Entries

\* The UNK entry has one translation.
LEMMA UnkEntryType ==
  ASSUME InstanceFields(inst)
  PROVE  UnkEntry \in Entries /\ UnkEntry.targets # <<>> /\ ~UnkEntry.known
<1> DEFINE target == [words |-> <<UnkWord>>, weight |-> inst.unkWeight,
                      lmWeight |-> inst.lm.prob[<<UnkWord>>], uid |-> <<UnkPhrase, UnkPhrase>>]
<1>1. inst.unkWeight \in Int /\ inst.lm.prob[<<UnkWord>>] \in Int
  BY DEF InstanceFields, LmFields
<1>2. <<UnkWord>> \in Seq(Words) /\ <<UnkPhrase, UnkPhrase>> \in Uids
  BY UnkWordAssumption, PhrasesAssumption DEF Uids
<1>3. target \in Targets
  BY <1>1, <1>2 DEF Targets
<1>4. UnkEntry = SourceEntry(<<target>>, FALSE)
  BY DEF UnkEntry
<1> HIDE DEF target
<1>5. <<target>> \in Seq(Targets) /\ <<target>> # <<>>
  BY <1>3
<1>6. QED
  BY <1>4, <1>5, SourceEntryType

\* Every instance is what its files and parameters were parsed to.
LEMMA InstanceOK ==
  ASSUME inst \in Instances
  PROVE  InstanceFields(inst)
BY InstancesAssumption

\* What is found for a source phrase is an entry, or nothing.
LEMMA KnownSourceType ==
  ASSUME HashIsNat, TmDataOK, NEW s \in Seq(Words)
  PROVE  KnownSource(s) = NoElement \/ KnownSource(s) \in KnownEntries
<1>1. PICK n \in Nat : MapOK(tmData, n, Seq(Words), KnownEntries)
  BY DEF TmDataOK
<1>2. Hash(s) \in Nat
  BY DEF HashIsNat
<1>3. KnownSource(s) = NoElement \/ \E e \in 1..Len(tmData.elems) : KnownSource(s) = tmData.elems[e].value
  BY <1>1, <1>2, GetElementFinds DEF KnownSource
<1>4. ASSUME NEW e \in 1..Len(tmData.elems) PROVE tmData.elems[e].value \in KnownEntries
  <2>1. tmData.elems \in Seq([key : Seq(Words), value : KnownEntries])
    BY <1>1 DEF MapOK
  <2>2. tmData.elems[e] \in [key : Seq(Words), value : KnownEntries]
    BY <2>1, ElementOfSeq
  <2>3. QED
    BY <2>2
<1>5. QED
  BY <1>3, <1>4

\* What is given out for a source phrase has a translation.
LEMMA GetSourceEntryType ==
  ASSUME HashIsNat, TmDataOK, InstanceFields(inst), NEW s \in Seq(Words)
  PROVE  GetSourceEntry(s) \in Entries /\ GetSourceEntry(s).targets # <<>>
BY KnownSourceType, UnkEntryType DEF GetSourceEntry, KnownEntries

\* What is found for a pair of phrases is its weights, or nothing.
LEMMA RmEntryType ==
  ASSUME HashIsNat, RmDataOK, NEW uid \in Uids
  PROVE  GetElement(rmData, uid) = NoElement \/ GetElement(rmData, uid) \in Weights
<1>1. PICK n \in Nat : MapOK(rmData, n, Uids, Weights)
  BY DEF RmDataOK
<1>2. Hash(uid) \in Nat
  BY DEF HashIsNat
<1>3. \/ GetElement(rmData, uid) = NoElement
      \/ \E e \in 1..Len(rmData.elems) : GetElement(rmData, uid) = rmData.elems[e].value
  BY <1>1, <1>2, GetElementFinds
<1>4. ASSUME NEW e \in 1..Len(rmData.elems) PROVE rmData.elems[e].value \in Weights
  <2>1. rmData.elems \in Seq([key : Uids, value : Weights])
    BY <1>1 DEF MapOK
  <2>2. rmData.elems[e] \in [key : Uids, value : Weights]
    BY <2>1, ElementOfSeq
  <2>3. QED
    BY <2>2
<1>5. QED
  BY <1>3, <1>4

\* What is given out for a pair always is weights.
LEMMA GetReorderingType ==
  ASSUME HashIsNat, RmDataOK, SpecialsOK, phase = "ready"
  PROVE  /\ \A p \in Specials : RmEntry(p, p) \in Weights
         /\ \A uid \in Uids : GetReordering(uid) \in Weights
<1>1. \A p \in Specials : RmEntry(p, p) \in Weights
  <2>1. ASSUME NEW p \in Specials PROVE RmEntry(p, p) \in Weights
    <3>1. <<p, p>> \in Uids
      BY PhrasesAssumption DEF Uids, Specials
    <3>2. RmEntry(p, p) # NoElement
      BY DEF SpecialsOK
    <3>3. QED
      BY <3>1, <3>2, RmEntryType DEF RmEntry
  <2>2. QED
    BY <2>1
<1>2. \A uid \in Uids : GetReordering(uid) \in Weights
  <2>1. UnkPhrase \in Specials
    BY DEF Specials
  <2>2. QED
    BY <1>1, <2>1, RmEntryType DEF GetReordering
<1>3. QED
  BY <1>1, <1>2

\* A line of the phrase table gives a translation.
LEMMA TmLineType ==
  ASSUME InstanceFields(inst), NEW i \in 1..Len(inst.tmFile)
  PROVE  /\ TmLine(inst.tmFile[i]) \in Targets /\ inst.tmFile[i].source \in Seq(Words)
         /\ inst.tmFile[i].passes \in BOOLEAN
<1> DEFINE l == inst.tmFile[i]
<1>1. l \in [source : Seq(Words), words : Seq(Words), weight : Int, passes : BOOLEAN]
  BY ElementOfSeq DEF InstanceFields
<1> HIDE DEF l
<1>2. 1 \in 1..LmMax /\ LmFields(inst.lm)
  BY LmMaxAssumption DEF InstanceFields
<1>3. Execute(inst.lm, l.words) \in Int
  <2>1. l.words \in Seq(Words)
    BY <1>1
  <2>2. QED
    BY <1>2, <2>1, ExecuteQueryType DEF Execute
<1>4. TmLine(l) \in Targets
  BY <1>1, <1>3 DEF TmLine, Targets, Uids
<1>5. QED
  BY <1>1, <1>4 DEF l

\* A line of the reordering file gives a key and weights.
LEMMA RmLineType ==
  ASSUME InstanceFields(inst), NEW i \in 1..Len(inst.rmFile)
  PROVE  /\ <<inst.rmFile[i].source, inst.rmFile[i].target>> \in Uids
         /\ inst.rmFile[i].weights \in Weights
<1>1. inst.rmFile[i] \in [source : Seq(Words), target : Seq(Words), weights : Seq(Int)]
  BY ElementOfSeq DEF InstanceFields
<1>2. Len(inst.rmFile[i].weights) \in {2, 4, 6, 8}
  BY DEF InstanceFields
<1>3. QED
  BY <1>1, <1>2 DEF Uids, Weights

\* The loading begins in the invariant.
LEMMA InitTables == TablesInit => TablesInv
<1> SUFFICES ASSUME TablesInit PROVE TablesInv
  OBVIOUS
<1>1. inst \in Instances /\ phase = "tm" /\ line = 1 /\ rmCount = 0 /\ lists = <<>> /\ toConvert = {}
  BY DEF TablesInit
<1>2. InstanceFields(inst)
  BY <1>1, InstanceOK
<1>3. \E b \in Nat : MapOK(tmData, b, Seq(Words), KnownEntries)
  <2>1. tmData = NewMap(SOURCES_BUCKETS_FACTOR, 0)
    BY DEF TablesInit
  <2>2. QED
    BY <2>1, NewMapOK
<1>4. \E b \in Nat : MapOK(rmData, b, Uids, Weights)
  <2>1. rmData = NewMap(SOURCES_BUCKETS_FACTOR, 0)
    BY DEF TablesInit
  <2>2. QED
    BY <2>1, NewMapOK
<1>5. ListsOK
  <2>1. DOMAIN lists = {} /\ IsFiniteSet({})
    BY <1>1, FS_EmptySet
  <2>2. QED
    BY <1>1, <2>1 DEF ListsOK
<1>6. RmCountOK
  BY <1>1, <1>2 DEF RmCountOK, InstanceFields
<1>7. QED
  BY <1>1, <1>3, <1>4, <1>5, <1>6 DEF TablesInv, TmDataOK, RmDataOK, SpecialsOK

\* The good lines stay while the translation model does.
LEMMA GoodLinesStay ==
  ASSUME inst' = inst, tmData' = tmData
  PROVE  \A k : GoodLines(k)' = GoodLines(k)
BY DEF GoodLines, IsGoodPair, KnownSource, HasTarget, Specials

\* One more line is one more good line, or none.
LEMMA GoodLinesCount ==
  ASSUME NEW k \in Nat, NEW n \in Nat, k <= n
  PROVE  /\ Cardinality(GoodLines(k)) \in 0..k
         /\ Cardinality(GoodLines(k)) <= Cardinality(GoodLines(n))
         /\ Cardinality(GoodLines(k + 1)) =
              IF IsGoodPair(inst.rmFile[k + 1]) THEN Cardinality(GoodLines(k)) + 1
              ELSE Cardinality(GoodLines(k))
<1> DEFINE Good(i) == IsGoodPair(inst.rmFile[i])
<1>1. \A j \in Nat : IsFiniteSet(GoodLines(j)) /\ Cardinality(GoodLines(j)) \in 0..j
  <2>1. ASSUME NEW j \in Nat PROVE IsFiniteSet(GoodLines(j)) /\ Cardinality(GoodLines(j)) \in 0..j
    <3>1. GoodLines(j) \in SUBSET (1..j)
      BY DEF GoodLines
    <3>2. IsFiniteSet(1..j) /\ Cardinality(1..j) = j
      BY FS_Interval
    <3>3. IsFiniteSet(GoodLines(j)) /\ Cardinality(GoodLines(j)) <= j
      BY <3>1, <3>2, FS_Subset
    <3>4. QED
      BY <3>3, FS_CardinalityType
  <2>2. QED
    BY <2>1
<1>2. GoodLines(k) \in SUBSET GoodLines(n)
  BY DEF GoodLines
<1>3. Cardinality(GoodLines(k)) <= Cardinality(GoodLines(n))
  BY <1>1, <1>2, FS_Subset
<1>4. k + 1 \notin GoodLines(k)
  BY DEF GoodLines
<1>5. CASE Good(k + 1)
  <2>1. GoodLines(k + 1) = GoodLines(k) \cup {k + 1}
    <3> HIDE DEF Good
    <3>1. \A j : GoodLines(j) = {i \in 1..j : Good(i)}
      BY DEF GoodLines, Good
    <3>2. QED
      BY <1>5, <3>1
  <2>2. Cardinality(GoodLines(k) \cup {k + 1}) = Cardinality(GoodLines(k)) + 1
    BY <1>1, <1>4, FS_AddElement
  <2>3. QED
    BY <1>1, <1>3, <1>5, <2>1, <2>2
<1>6. CASE ~Good(k + 1)
  <2>1. GoodLines(k + 1) = GoodLines(k)
    <3> HIDE DEF Good
    <3>1. \A j : GoodLines(j) = {i \in 1..j : Good(i)}
      BY DEF GoodLines, Good
    <3>2. QED
      BY <1>6, <3>1
  <2>2. QED
    BY <1>1, <1>3, <1>6, <2>1
<1>7. QED
  BY <1>5, <1>6

\* A line of the phrase table is read: the lists stay lists.
LEMMA ReadTmLineStep ==
  ASSUME HashIsNat, TablesInv, ReadTmLine
  PROVE  TablesInv'
<1> DEFINE l == inst.tmFile[line]
           emptied == {s \in DOMAIN lists : s = source /\ s # l.source /\ lists[s] = <<>>}
           keptNames == DOMAIN lists \ emptied
           kept == Restrict(lists, keptNames)
           names == keptNames \cup {l.source}
           opened == [s \in DOMAIN kept \cup {l.source} |-> IF s \in DOMAIN kept THEN kept[s] ELSE <<>>]
           added == [opened EXCEPT ![l.source] = AddToList(@, TmLine(l), inst.transLimit)]
<1>1. /\ phase = "tm" /\ line \in 1..Len(inst.tmFile) /\ InstanceFields(inst) /\ inst.transLimit \in Nat
      /\ line' = line + 1
      /\ UNCHANGED <<inst, phase, tmData, toConvert, rmCount, rmData>>
  <2>1. /\ phase = "tm" /\ line <= Len(inst.tmFile) /\ line' = line + 1
        /\ UNCHANGED <<inst, phase, tmData, toConvert, rmCount, rmData>>
    BY DEF ReadTmLine
  <2>2. line \in Nat /\ line >= 1 /\ inst \in Instances
    BY DEF TablesInv, RmCountOK
  <2>3. InstanceFields(inst)
    BY <2>2, InstanceOK
  <2>4. inst.transLimit \in Nat /\ Len(inst.tmFile) \in Nat
    BY <2>3 DEF InstanceFields
  <2>5. QED
    BY <2>1, <2>2, <2>3, <2>4
<1>2. lists' = IF l.passes THEN added ELSE opened
  BY DEF ReadTmLine
<1>3. /\ lists \in [DOMAIN lists -> Seq(Targets)] /\ DOMAIN lists \subseteq Seq(Words)
      /\ IsFiniteSet(DOMAIN lists) /\ toConvert \subseteq DOMAIN lists
  BY DEF TablesInv, ListsOK
<1>4. TmLine(l) \in Targets /\ l.source \in Seq(Words)
  BY <1>1, TmLineType
<1>t. toConvert = {}
  BY <1>1 DEF TablesInv, ListsOK
<1> HIDE DEF emptied, l
<1>5. DOMAIN kept = keptNames /\ \A s \in keptNames : kept[s] = lists[s]
  BY DEF Restrict
<1>6. opened \in [names -> Seq(Targets)]
  <2> HIDE DEF kept
  <2>1. ASSUME NEW s \in names
        PROVE  (IF s \in DOMAIN kept THEN kept[s] ELSE <<>>) \in Seq(Targets)
    <3>1. CASE s \in keptNames
      <4>1. kept[s] = lists[s] /\ lists[s] \in Seq(Targets)
        BY <1>3, <1>5, <3>1
      <4>2. QED
        BY <4>1
    <3>2. CASE s \notin keptNames
      BY <1>5, <3>2
    <3>3. QED
      BY <3>1, <3>2
  <2>2. QED
    BY <1>5, <2>1
<1>7. added \in [names -> Seq(Targets)]
  <2>1. opened[l.source] \in Seq(Targets)
    BY <1>6
  <2> HIDE DEF opened
  <2>2. AddToList(opened[l.source], TmLine(l), inst.transLimit) \in Seq(Targets)
    BY <1>1, <1>4, <2>1, AddToListType
  <2>3. QED
    BY <1>6, <2>2
<1>8. IsFiniteSet(names) /\ names \subseteq Seq(Words)
  <2>1. IsFiniteSet(keptNames) /\ keptNames \subseteq Seq(Words)
    BY <1>3, FS_Subset
  <2>2. QED
    BY <1>4, <2>1, FS_AddElement
<1> HIDE DEF added, opened, names
<1>9. lists' \in [names -> Seq(Targets)]
  BY <1>2, <1>6, <1>7
<1>10. DOMAIN lists' = names
  BY <1>9
<1>11. ListsOK'
  BY <1>1, <1>8, <1>9, <1>10, <1>t DEF ListsOK
<1>12. TmDataOK' /\ RmDataOK' /\ SpecialsOK'
  BY <1>1 DEF TablesInv, TmDataOK, RmDataOK, SpecialsOK
<1>13. RmCountOK'
  BY <1>1 DEF TablesInv, RmCountOK
<1>14. QED
  BY <1>1, <1>11, <1>12, <1>13 DEF TablesInv

\* The buckets are allocated, for more entries than there are lists.
LEMMA SetTmEntriesStep ==
  ASSUME HashIsNat, TablesInv, SetTmEntries
  PROVE  TablesInv'
<1>1. /\ phase = "tm" /\ phase' = "convert" /\ toConvert' = DOMAIN lists
      /\ tmData' = NewMap(SOURCES_BUCKETS_FACTOR, Cardinality(DOMAIN lists))
      /\ UNCHANGED <<inst, line, source, lists, rmCount, rmData>>
  BY DEF SetTmEntries
<1>2. IsFiniteSet(DOMAIN lists) /\ Cardinality(DOMAIN lists) \in Nat
  BY FS_CardinalityType DEF TablesInv, ListsOK
<1>3. PICK b \in Nat : /\ b > Cardinality(DOMAIN lists) /\ MapOK(tmData', b, Seq(Words), KnownEntries)
                       /\ tmData'.elems = <<>>
  BY <1>1, <1>2, NewMapOK
<1>4. TmDataOK'
  <2>1. Len(tmData'.elems) + Cardinality(toConvert') <= Cardinality(DOMAIN lists')
    BY <1>1, <1>2, <1>3
  <2>2. MapOK(tmData, b, Seq(Words), KnownEntries)'
    BY <1>3 DEF MapOK, BucketAt
  <2>3. QED
    BY <1>1, <1>3, <2>1, <2>2 DEF TmDataOK
<1>5. ListsOK' /\ RmDataOK' /\ SpecialsOK'
  BY <1>1 DEF TablesInv, ListsOK, RmDataOK, SpecialsOK
<1>6. RmCountOK'
  BY <1>1 DEF TablesInv, RmCountOK
<1>7. QED
  BY <1>1, <1>4, <1>5, <1>6 DEF TablesInv

\* A list is converted: there is a bucket for it.
LEMMA ConvertEntryStep ==
  ASSUME HashIsNat, TablesInv, NEW s \in toConvert, ConvertEntry(s)
  PROVE  TablesInv'
<1>1. /\ phase = "convert" /\ toConvert' = toConvert \ {s}
      /\ tmData' = IF lists[s] = <<>> THEN tmData
                   ELSE AddNewElement(tmData, s, SourceEntry(lists[s], TRUE))
      /\ UNCHANGED <<inst, phase, line, source, lists, rmCount, rmData>>
  BY DEF ConvertEntry
<1>2. /\ lists \in [DOMAIN lists -> Seq(Targets)] /\ DOMAIN lists \subseteq Seq(Words)
      /\ IsFiniteSet(DOMAIN lists) /\ toConvert \subseteq DOMAIN lists
  BY DEF TablesInv, ListsOK
<1>3. PICK n \in Nat :
        /\ MapOK(tmData, n, Seq(Words), KnownEntries) /\ n > Cardinality(DOMAIN lists)
        /\ Len(tmData.elems) + Cardinality(toConvert) <= Cardinality(DOMAIN lists)
  BY <1>1 DEF TablesInv, TmDataOK
<1>4. /\ Cardinality(DOMAIN lists) \in Nat /\ Cardinality(toConvert) \in Nat
      /\ Cardinality(toConvert') = Cardinality(toConvert) - 1 /\ Cardinality(toConvert') \in Nat
  <2>1. IsFiniteSet(toConvert)
    BY <1>2, FS_Subset
  <2>2. IsFiniteSet(toConvert \ {s}) /\ Cardinality(toConvert \ {s}) = Cardinality(toConvert) - 1
    BY <2>1, FS_RemoveElement
  <2>3. QED
    BY <1>1, <1>2, <2>1, <2>2, FS_CardinalityType
<1>5. Len(tmData.elems) \in Nat
  BY <1>3 DEF MapOK
<1>6. TmDataOK'
  <2>1. CASE lists[s] = <<>>
    <3>1. MapOK(tmData', n, Seq(Words), KnownEntries) /\ tmData' = tmData
      BY <1>1, <1>3, <2>1
    <3>2. Len(tmData'.elems) + Cardinality(toConvert') <= Cardinality(DOMAIN lists')
      <4>1. lists' = lists /\ Len(tmData'.elems) = Len(tmData.elems)
        BY <1>1, <3>1
      <4>2. QED
        BY <1>3, <1>4, <1>5, <4>1, SMTT(30)
    <3>3. MapOK(tmData, n, Seq(Words), KnownEntries)'
      BY <3>1 DEF MapOK, BucketAt
    <3>4. QED
      BY <1>1, <1>3, <3>2, <3>3 DEF TmDataOK
  <2>2. CASE lists[s] # <<>>
    <3> DEFINE entry == SourceEntry(lists[s], TRUE)
               new == AddNewElement(tmData, s, entry)
    <3>1. lists[s] \in Seq(Targets) /\ s \in Seq(Words)
      BY <1>2
    <3>2. entry \in KnownEntries
      BY <2>2, <3>1, SourceEntryType DEF KnownEntries
    <3>3. \A k \in Seq(Words) : Hash(k) \in Nat
      BY DEF HashIsNat
    <3> HIDE DEF entry
    <3>4. Len(tmData.elems) + 1 < n
      BY <1>3, <1>4, <1>5
    <3>5. MapOK(new, n, Seq(Words), KnownEntries) /\ new.elems = Append(tmData.elems, [key |-> s, value |-> entry])
      BY <1>3, <3>1, <3>2, <3>3, <3>4, AddNewElementOK
    <3>6. tmData' = new
      BY <1>1, <2>2 DEF entry
    <3> HIDE DEF new
    <3>7. Len(tmData'.elems) = Len(tmData.elems) + 1
      <4>1. tmData.elems \in Seq([key : Seq(Words), value : KnownEntries])
        BY <1>3 DEF MapOK
      <4>2. QED
        BY <3>5, <3>6, <4>1
    <3>8. Len(tmData'.elems) + Cardinality(toConvert') <= Cardinality(DOMAIN lists')
      <4>1. lists' = lists
        BY <1>1
      <4>2. QED
        BY <1>3, <1>4, <1>5, <3>7, <4>1
    <3>9. MapOK(tmData, n, Seq(Words), KnownEntries)'
      BY <3>5, <3>6 DEF MapOK, BucketAt
    <3>10. QED
      BY <1>1, <1>3, <3>8, <3>9 DEF TmDataOK
  <2>3. QED
    BY <2>1, <2>2
<1>7. ListsOK' /\ RmDataOK' /\ SpecialsOK'
  BY <1>1 DEF TablesInv, ListsOK, RmDataOK, SpecialsOK
<1>8. RmCountOK'
  BY <1>1 DEF TablesInv, RmCountOK
<1>9. QED
  BY <1>1, <1>6, <1>7, <1>8 DEF TablesInv

\* The first pass over the reordering file begins.
LEMMA StartCountingStep ==
  ASSUME HashIsNat, TablesInv, StartCounting
  PROVE  TablesInv'
<1>1. /\ phase' = "count" /\ line' = 1 /\ rmCount' = 0
      /\ UNCHANGED <<inst, source, lists, tmData, toConvert, rmData>>
  BY DEF StartCounting
<1>2. ListsOK' /\ TmDataOK' /\ RmDataOK' /\ SpecialsOK'
  BY <1>1 DEF TablesInv, ListsOK, TmDataOK, RmDataOK, SpecialsOK
<1>3. RmCountOK'
  <2>1. Len(inst.rmFile) \in Nat
    BY InstanceOK DEF TablesInv, InstanceFields
  <2>2. Cardinality(GoodLines(line - 1))' = 0
    <3>1. GoodLines(line - 1)' = {}
      BY <1>1 DEF GoodLines
    <3>2. QED
      BY <3>1, FS_EmptySet
  <2>3. QED
    BY <1>1, <2>1, <2>2 DEF RmCountOK
<1>4. QED
  BY <1>1, <1>2, <1>3 DEF TablesInv

\* A line is counted.
LEMMA CountRmLineStep ==
  ASSUME HashIsNat, TablesInv, CountRmLine
  PROVE  TablesInv'
<1>1. /\ phase = "count" /\ line <= Len(inst.rmFile) /\ line' = line + 1
      /\ rmCount' = IF IsGoodPair(inst.rmFile[line]) THEN rmCount + 1 ELSE rmCount
      /\ UNCHANGED <<inst, phase, source, lists, tmData, toConvert, rmData>>
  BY DEF CountRmLine
<1>2. ListsOK' /\ TmDataOK' /\ RmDataOK' /\ SpecialsOK'
  BY <1>1 DEF TablesInv, ListsOK, TmDataOK, RmDataOK, SpecialsOK
<1>3. /\ Len(inst.rmFile) \in Nat /\ line \in Nat /\ line >= 1
      /\ rmCount = Cardinality(GoodLines(line - 1))
  BY <1>1, InstanceOK DEF TablesInv, InstanceFields, RmCountOK
<1>4. /\ rmCount \in 0..line - 1
      /\ Cardinality(GoodLines(line)) = rmCount'
  <2> DEFINE k == line - 1
  <2>1. k \in Nat /\ line = k + 1 /\ k <= k
    BY <1>3
  <2>2. rmCount = Cardinality(GoodLines(k))
    BY <1>3
  <2>3. rmCount' = IF IsGoodPair(inst.rmFile[k + 1]) THEN rmCount + 1 ELSE rmCount
    BY <1>1, <2>1
  <2> HIDE DEF k
  <2>4. rmCount \in 0..k /\ Cardinality(GoodLines(k + 1)) = rmCount'
    BY <2>1, <2>2, <2>3, GoodLinesCount
  <2>5. QED
    BY <2>1, <2>4 DEF k
<1>5. GoodLines(line - 1)' = GoodLines(line)
  <2>1. line' - 1 = line
    BY <1>1, <1>3
  <2>2. QED
    BY <1>1, <2>1 DEF GoodLines, IsGoodPair, KnownSource, HasTarget, Specials
<1>6. Cardinality(GoodLines(line - 1))' = rmCount'
  BY <1>4, <1>5
<1>7. rmCount' \in 0..Len(inst.rmFile) /\ line' <= Len(inst.rmFile) + 1
  BY <1>1, <1>3, <1>4, SMTT(30)
<1>8. RmCountOK'
  BY <1>1, <1>3, <1>6, <1>7 DEF RmCountOK
<1>9. QED
  BY <1>1, <1>2, <1>8 DEF TablesInv

\* The buckets are allocated, for more entries than there are good lines.
LEMMA SetRmEntriesStep ==
  ASSUME HashIsNat, TablesInv, SetRmEntries
  PROVE  TablesInv'
<1>1. /\ phase = "count" /\ line > Len(inst.rmFile) /\ phase' = "build" /\ line' = 1
      /\ rmData' = NewMap(SOURCES_BUCKETS_FACTOR, rmCount)
      /\ UNCHANGED <<inst, source, lists, tmData, toConvert, rmCount>>
  BY DEF SetRmEntries
<1>2. ListsOK' /\ TmDataOK' /\ SpecialsOK'
  BY <1>1 DEF TablesInv, ListsOK, TmDataOK, SpecialsOK
<1>3. /\ Len(inst.rmFile) \in Nat /\ line \in Nat /\ line = Len(inst.rmFile) + 1
      /\ rmCount = Cardinality(GoodLines(line - 1)) /\ rmCount \in 0..Len(inst.rmFile)
  <2>1. InstanceFields(inst) /\ RmCountOK
    BY InstanceOK DEF TablesInv
  <2>2. inst.rmFile \in Seq([source : Seq(Words), target : Seq(Words), weights : Seq(Int)])
    BY <2>1 DEF InstanceFields
  <2>3. Len(inst.rmFile) \in Nat
    BY <2>2
  <2>4. /\ line \in Nat /\ line <= Len(inst.rmFile) + 1
        /\ rmCount = Cardinality(GoodLines(line - 1)) /\ rmCount \in 0..Len(inst.rmFile)
    BY <2>1, <1>1 DEF RmCountOK
  <2>5. QED
    BY <1>1, <2>3, <2>4
<1>4. PICK b \in Nat : b > rmCount /\ MapOK(rmData', b, Uids, Weights) /\ rmData'.elems = <<>>
  <2>1. rmCount \in Nat
    BY <1>3
  <2>2. \E b \in Nat : /\ b > rmCount /\ MapOK(NewMap(SOURCES_BUCKETS_FACTOR, rmCount), b, Uids, Weights)
                        /\ NewMap(SOURCES_BUCKETS_FACTOR, rmCount).elems = <<>>
    BY <2>1, NewMapOK
  <2>3. QED
    BY <1>1, <2>2
<1>5. RmDataOK'
  <2>1. MapOK(rmData, b, Uids, Weights)'
    BY <1>4 DEF MapOK, BucketAt
  <2>2. QED
    BY <1>1, <1>4, <2>1 DEF RmDataOK
<1>6. RmCountOK'
  <2>1. GoodLines(line - 1)' = {}
    BY <1>1 DEF GoodLines
  <2>2. Cardinality(GoodLines(line - 1))' = 0
    BY <2>1, FS_EmptySet
  <2>3. GoodLines(Len(inst.rmFile))' = GoodLines(line - 1)
    <3>1. line - 1 = Len(inst.rmFile)
      BY <1>3
    <3>2. QED
      BY <1>1, <3>1 DEF GoodLines, IsGoodPair, KnownSource, HasTarget, Specials
  <2>4. rmCount' = Cardinality(GoodLines(Len(inst.rmFile)))'
    BY <1>1, <1>3, <2>3
  <2>5. Len(rmData'.elems) = 0
    BY <1>4
  <2>6. QED
    BY <1>1, <1>3, <2>2, <2>4, <2>5 DEF RmCountOK
<1>7. QED
  BY <1>1, <1>2, <1>5, <1>6 DEF TablesInv

\* A line is stored: the count makes sure that there is a bucket.
LEMMA BuildRmLineStep ==
  ASSUME HashIsNat, TablesInv, BuildRmLine
  PROVE  TablesInv'
<1> DEFINE l == inst.rmFile[line]
           uid == <<l.source, l.target>>
           len == Len(rmData.elems)
<1>1. /\ phase = "build" /\ line <= Len(inst.rmFile) /\ line' = line + 1
      /\ rmData' = IF IsGoodPair(l) THEN AddNewElement(rmData, uid, l.weights) ELSE rmData
      /\ UNCHANGED <<inst, phase, source, lists, tmData, toConvert, rmCount>>
  BY DEF BuildRmLine
<1>2. ListsOK' /\ TmDataOK' /\ SpecialsOK'
  BY <1>1 DEF TablesInv, ListsOK, TmDataOK, SpecialsOK
<1>3. /\ Len(inst.rmFile) \in Nat /\ line \in Nat /\ line >= 1 /\ line \in 1..Len(inst.rmFile)
      /\ rmCount \in 0..Len(inst.rmFile) /\ rmCount = Cardinality(GoodLines(Len(inst.rmFile)))
      /\ len = Cardinality(GoodLines(line - 1))
  BY <1>1, InstanceOK DEF TablesInv, InstanceFields, RmCountOK
<1>4. PICK n \in Nat : MapOK(rmData, n, Uids, Weights) /\ n > rmCount
  BY <1>1 DEF TablesInv, RmDataOK
<1>5. uid \in Uids /\ l.weights \in Weights
  BY <1>3, InstanceOK, RmLineType DEF TablesInv
<1>6. /\ len \in Nat
      /\ Cardinality(GoodLines(line)) = IF IsGoodPair(l) THEN len + 1 ELSE len
      /\ Cardinality(GoodLines(line)) <= rmCount
  <2> DEFINE k == line - 1
             N == Len(inst.rmFile)
  <2>1. k \in Nat /\ line = k + 1 /\ N \in Nat /\ k + 1 <= N /\ k + 1 \in Nat /\ k <= k
    BY <1>3
  <2>2. len = Cardinality(GoodLines(k)) /\ rmCount = Cardinality(GoodLines(N))
    BY <1>3
  <2> HIDE DEF k, N, len
  <2>3. /\ Cardinality(GoodLines(k)) \in 0..k
        /\ Cardinality(GoodLines(k + 1)) =
             IF IsGoodPair(inst.rmFile[k + 1]) THEN Cardinality(GoodLines(k)) + 1 ELSE Cardinality(GoodLines(k))
    BY <2>1, GoodLinesCount
  <2>4. Cardinality(GoodLines(k + 1)) <= Cardinality(GoodLines(N))
    BY <2>1, GoodLinesCount
  <2>5. len \in Nat
    BY <2>1, <2>2, <2>3
  <2>6. QED
    BY <2>1, <2>2, <2>3, <2>4, <2>5
<1>7. GoodLines(line - 1)' = GoodLines(line) /\ GoodLines(Len(inst.rmFile))' = GoodLines(Len(inst.rmFile))
  <2>1. line' - 1 = line
    BY <1>1, <1>3
  <2>2. QED
    BY <1>1, <2>1 DEF GoodLines, IsGoodPair, KnownSource, HasTarget, Specials
<1> HIDE DEF uid, l
<1>8. CASE IsGoodPair(l)
  <2> DEFINE w == l.weights
             new == AddNewElement(rmData, uid, w)
  <2>1. len + 1 < n
    BY <1>3, <1>4, <1>6, <1>8
  <2>2. \A key \in Uids : Hash(key) \in Nat
    BY DEF HashIsNat
  <2>3. w \in Weights
    BY <1>5
  <2> HIDE DEF w
  <2>4. MapOK(new, n, Uids, Weights) /\ new.elems = Append(rmData.elems, [key |-> uid, value |-> w])
    BY <1>4, <1>5, <2>1, <2>2, <2>3, AddNewElementOK
  <2>5. rmData' = new
    BY <1>1, <1>8 DEF w
  <2> HIDE DEF new
  <2>6. MapOK(rmData, n, Uids, Weights)'
    BY <2>4, <2>5 DEF MapOK, BucketAt
  <2>7. Len(rmData'.elems) = len + 1
    <3>1. rmData.elems \in Seq([key : Uids, value : Weights])
      BY <1>4 DEF MapOK
    <3>2. QED
      BY <2>4, <2>5, <3>1
  <2>8. RmDataOK'
    BY <1>1, <1>4, <2>6 DEF RmDataOK
  <2>9. Len(rmData'.elems) = Cardinality(GoodLines(line - 1))'
    BY <1>6, <1>7, <1>8, <2>7
  <2>10. RmCountOK'
    BY <1>1, <1>3, <1>7, <2>9 DEF RmCountOK
  <2>11. QED
    BY <1>1, <1>2, <2>8, <2>10 DEF TablesInv
<1>9. CASE ~IsGoodPair(l)
  <2>1. rmData' = rmData
    BY <1>1, <1>9
  <2>2. RmDataOK'
    BY <1>1, <2>1 DEF TablesInv, RmDataOK
  <2>3. Len(rmData'.elems) = Cardinality(GoodLines(line - 1))'
    BY <1>6, <1>7, <1>9, <2>1
  <2>4. RmCountOK'
    BY <1>1, <1>3, <1>7, <2>3 DEF RmCountOK
  <2>5. QED
    BY <1>1, <1>2, <2>2, <2>4 DEF TablesInv
<1>10. QED
  BY <1>8, <1>9

\* The start is refused if a special entry is missing.
LEMMA FindSpecialEntriesStep ==
  ASSUME HashIsNat, TablesInv, FindSpecialEntries
  PROVE  TablesInv'
<1>1. /\ phase = "build"
      /\ phase' = IF NoElement \in {RmEntry(p, p) : p \in Specials} THEN "failed" ELSE "ready"
      /\ UNCHANGED <<inst, line, source, lists, tmData, toConvert, rmCount, rmData>>
  BY DEF FindSpecialEntries
<1>2. phase' \in {"ready", "failed"}
  BY <1>1
<1>3. ListsOK' /\ TmDataOK' /\ RmDataOK' /\ RmCountOK'
  BY <1>1, <1>2 DEF TablesInv, ListsOK, TmDataOK, RmDataOK, RmCountOK
<1>4. SpecialsOK'
  <2>1. \A p : RmEntry(p, p)' = RmEntry(p, p)
    BY <1>1 DEF RmEntry
  <2>2. phase' = "ready" => \A p \in Specials : RmEntry(p, p) # NoElement
    BY <1>1
  <2>3. QED
    BY <2>1, <2>2 DEF SpecialsOK, RmEntry, Specials
<1>5. QED
  BY <1>1, <1>2, <1>3, <1>4 DEF TablesInv

\* The models are loaded right: the counting pass counts what the building pass
\* stores, so that both hash maps keep a free bucket and every walk ends.
LEMMA TablesStep ==
  ASSUME HashIsNat, TablesInv, TablesNext
  PROVE  TablesInv'
<1>1. CASE ReadTmLine
  BY <1>1, ReadTmLineStep
<1>2. CASE SetTmEntries
  BY <1>2, SetTmEntriesStep
<1>3. CASE \E s \in toConvert : ConvertEntry(s)
  BY <1>3, ConvertEntryStep
<1>4. CASE StartCounting
  BY <1>4, StartCountingStep
<1>5. CASE CountRmLine
  BY <1>5, CountRmLineStep
<1>6. CASE SetRmEntries
  BY <1>6, SetRmEntriesStep
<1>7. CASE BuildRmLine
  BY <1>7, BuildRmLineStep
<1>8. CASE FindSpecialEntries
  BY <1>8, FindSpecialEntriesStep
<1>9. QED
  BY <1>1, <1>2, <1>3, <1>4, <1>5, <1>6, <1>7, <1>8 DEF TablesNext

\* The actions of the decoder leave the tables alone.
LEMMA TablesStay ==
  ASSUME TablesInv, UNCHANGED tableVars
  PROVE  TablesInv'
BY DEF TablesInv, ListsOK, TmDataOK, RmDataOK, RmCountOK, SpecialsOK, GoodLines, IsGoodPair,
       KnownSource, HasTarget, Specials, RmEntry, tableVars

\* What holds of a level's list under whatever parameters.
Shaped(level) ==
  /\ Sorted(level.states) /\ Distinct(level.states)
  /\ \A i \in 1..Len(level.states) : level.states[i].total >= level.bound

\* A worse state behind the last one.
LEMMA AppendShape ==
  ASSUME NEW S, \A x \in S : x.total \in Int, NEW states \in Seq(S), Sorted(states), Distinct(states),
         NEW s \in S, \A i \in 1..Len(states) : states[i].total > s.total /\ ~SameSubproblem(states[i], s)
  PROVE  Sorted(Append(states, s)) /\ Distinct(Append(states, s))
<1> DEFINE n == Len(states)
           app == Append(states, s)
<1>1. n \in Nat /\ \A i \in 1..n : states[i].total \in Int
  OBVIOUS
<1>2. app \in Seq(S) /\ Len(app) = n + 1 /\ app[n + 1] = s /\ \A i \in 1..n : app[i] = states[i]
  OBVIOUS
<1> HIDE DEF app
<1>3. ASSUME NEW i \in 1..Len(app), NEW j \in 1..Len(app), i < j
      PROVE  app[i].total >= app[j].total /\ ~SameSubproblem(app[i], app[j])
  <2>1. i \in 1..n /\ app[i] = states[i]
    BY <1>1, <1>2, <1>3
  <2>2. CASE j \in 1..n
    <3>1. app[j] = states[j]
      BY <1>2, <2>2
    <3>2. QED
      BY <1>3, <2>1, <2>2, <3>1 DEF Sorted, Distinct
  <2>3. CASE j = n + 1
    <3>1. app[j] = s /\ states[i].total > s.total /\ states[i].total \in Int /\ s.total \in Int
      BY <1>1, <1>2, <2>1, <2>3
    <3>2. QED
      BY <2>1, <3>1
  <2>4. QED
    BY <1>1, <1>2, <2>2, <2>3
<1>4. QED
  BY <1>3 DEF Sorted, Distinct, app

\* An insertion before the last state keeps the list in order.
LEMMA AddBeforeShape ==
  ASSUME NEW S, \A x \in S : x.total \in Int, NEW ps, ParamsOK(ps),
         NEW level, level.states \in Seq(S), level.bound \in Int, Shaped(level), NEW s \in S,
         NEW p \in Nat, p < Len(level.states), s.total >= level.bound,
         \A i \in 1..p : level.states[i].total > s.total /\ ~SameSubproblem(level.states[i], s),
         level.states[p + 1].total <= s.total
  PROVE  LET new == AddBefore(level, p, s, ps)
         IN /\ new \in [states : Seq(S), bound : Int] /\ Shaped(new)
            /\ Len(new.states) \in 1..ps.capacity
<1> DEFINE states == level.states
           n == Len(states)
           bound == IF p = 0 THEN BoundOf(s, ps) ELSE level.bound
           list == RecombineFrom(InsertAt(states, p + 1, s), p + 2, s)
           pruned == PruneStates(list, bound, ps.capacity)
           new == AddBefore(level, p, s, ps)
<1>0. /\ n \in Nat /\ p < n /\ p \in 0..n /\ states \in Seq(S)
      /\ \A i \in 1..n : states[i].total \in Int
      /\ s.total \in Int /\ ps.capacity \in Nat /\ ps.capacity > 0
      /\ ps.threshold \in Int /\ ps.threshold < 0
  BY SMTT(30) DEF ParamsOK
<1>1. /\ Sorted(states) /\ Distinct(states)
      /\ \A i \in 1..n : states[i].total >= level.bound
  BY DEF Shaped
<1>2. new = [states |-> pruned, bound |-> bound]
  BY DEF AddBefore
<1>3. PICK d \in p + 1..n + 1 :
        /\ Merged(list, states, p, s, d) /\ list \in Seq(S)
        /\ \A i \in 1..n : i # d => ~SameSubproblem(states[i], s)
        /\ d <= n => SameSubproblem(states[d], s)
  BY <1>0, <1>1, MergeShape
<1> HIDE DEF list
<1>4. /\ Sorted(list) /\ Distinct(list)
      /\ Len(list) >= n /\ list[p + 1] = s /\ p + 1 <= Len(list)
      /\ p > 0 => list[1] = states[1]
      /\ \A i \in 1..n : StoodFor(list, states[i])
      /\ \A j \in 1..Len(list) : list[j].total >= states[n].total
  BY <1>0, <1>1, <1>3, MergeKeeps
<1>5. bound \in Int /\ list[1].total >= bound
  <2>1. CASE p = 0
    BY <1>0, <1>4, <2>1 DEF BoundOf
  <2>2. CASE p # 0
    <3>1. 1 \in 1..n
      BY <1>0
    <3>2. QED
      BY <1>0, <1>1, <1>4, <2>2, <3>1, SMTT(30)
  <2>3. QED
    BY <2>1, <2>2
<1>6. Len(list) \in Nat /\ Len(list) >= 1 /\ \A i \in 1..Len(list) : list[i].total \in Int
  BY <1>0, <1>3, <1>4, SMTT(30)
<1> HIDE DEF bound
<1>7. PICK k \in 0..Len(list) :
        /\ pruned = SubSeq(list, 1, k)
        /\ k <= ps.capacity /\ (k > 0 => list[k].total >= bound)
        /\ k = Len(list) \/ k = ps.capacity \/ list[k + 1].total < bound
  BY <1>0, <1>3, <1>5, PruneProps
<1>8. k \in 1..Len(list) /\ k \in Nat
  <2>1. 1 \in 1..Len(list) /\ list[1].total \in Int
    BY <1>6
  <2>2. k # 0
    BY <1>0, <1>5, <1>6, <1>7, <2>1
  <2>3. QED
    BY <1>6, <2>2
<1>9. pruned \in Seq(S) /\ Len(pruned) = k /\ \A i \in 1..k : pruned[i] = list[i]
  BY <1>3, <1>7, PrefixProps
<1> HIDE DEF pruned
<1>10. Sorted(pruned) /\ Distinct(pruned)
  <2>1. \A i \in 1..Len(pruned) : i \in 1..Len(list) /\ pruned[i] = list[i]
    BY <1>6, <1>8, <1>9
  <2>2. QED
    BY <1>4, <2>1 DEF Sorted, Distinct
<1>11. ASSUME NEW i \in 1..Len(pruned) PROVE pruned[i].total >= bound
  <2>1. i \in 1..Len(list) /\ i \in 1..k /\ pruned[i] = list[i] /\ list[k].total >= bound
    BY <1>6, <1>7, <1>8, <1>9
  <2>2. list[i].total >= list[k].total
    <3>1. CASE i = k
      BY <1>6, <2>1, <3>1
    <3>2. CASE i # k
      <4>1. i < k
        BY <1>8, <2>1, <3>2
      <4>2. QED
        BY <1>4, <1>8, <2>1, <4>1 DEF Sorted
    <3>3. QED
      BY <3>1, <3>2
  <2>3. QED
    BY <1>5, <1>6, <1>8, <2>1, <2>2, SMTT(30)
<1>12. Len(pruned) \in 1..ps.capacity
  BY <1>0, <1>7, <1>8, <1>9
<1>13. new.states = pruned /\ new.bound = bound
  BY <1>2
<1>14. new \in [states : Seq(S), bound : Int]
  BY <1>2, <1>5, <1>9
<1> HIDE DEF new
<1>15. Shaped(new)
  BY <1>10, <1>11, <1>13 DEF Shaped
<1>16. QED
  BY <1>12, <1>13, <1>14, <1>15 DEF new

\* Whatever the parameters were before, add_state keeps a level in order, and
\* a level that was given a state is never empty again.  It only gets longer up
\* to the capacity of the moment.
THEOREM AddStateShape ==
  ASSUME NEW S, \A x \in S : x.total \in Int, NEW ps, ParamsOK(ps),
         NEW level \in [states : Seq(S), bound : Int], Shaped(level), NEW s \in S
  PROVE  LET new == AddState(level, s, ps)
         IN /\ new \in [states : Seq(S), bound : Int] /\ Shaped(new) /\ new.states # <<>>
            /\ Len(new.states) <= ps.capacity \/ new = level
<1> DEFINE states == level.states
           n == Len(states)
           p == NumBetter(states, s)
           new == AddState(level, s, ps)
<1>0. /\ level.states \in Seq(S) /\ level.bound \in Int /\ DOMAIN level = {"states", "bound"}
      /\ n \in Nat /\ \A i \in 1..n : states[i].total \in Int
      /\ s.total \in Int /\ ps.capacity \in Nat /\ ps.capacity > 0
      /\ ps.threshold \in Int /\ ps.threshold < 0
  BY DEF ParamsOK
<1>1. /\ p \in 0..n /\ \A i \in 1..p : states[i].total > s.total
      /\ p < n => states[p + 1].total <= s.total
  BY <1>0, NumBetterProps
<1>2. CASE states = <<>>
  <2> DEFINE l == [states |-> <<s>>, bound |-> BoundOf(s, ps)]
  <2>1. new = l
    BY <1>2 DEF AddState
  <2>2. l.states = <<s>> /\ l.bound = BoundOf(s, ps)
    OBVIOUS
  <2>3. <<s>> \in Seq(S) /\ Len(<<s>>) = 1 /\ <<s>>[1] = s /\ <<s>> # <<>>
    OBVIOUS
  <2>4. BoundOf(s, ps) \in Int /\ s.total >= BoundOf(s, ps)
    BY <1>0 DEF BoundOf
  <2>5. l \in [states : Seq(S), bound : Int]
    BY <2>3, <2>4
  <2> HIDE DEF l
  <2>6. Sorted(<<s>>) /\ Distinct(<<s>>) /\ \A i \in 1..1 : <<s>>[i].total >= BoundOf(s, ps)
    BY <2>3, <2>4 DEF Sorted, Distinct
  <2>7. Shaped(l)
    BY <2>2, <2>3, <2>6 DEF Shaped
  <2>8. QED
    BY <1>0, <2>1, <2>2, <2>3, <2>5, <2>7
<1>3. CASE states # <<>> /\ s.total < level.bound
  <2>1. new = level
    BY <1>3 DEF AddState
  <2>2. QED
    BY <1>3, <2>1
<1>4. CASE states # <<>> /\ s.total >= level.bound
  <2>0. ~(s.total < level.bound) /\ n > 0
    BY <1>0, <1>4
  <2>1. new = IF \E i \in 1..p : SameSubproblem(states[i], s) THEN level
              ELSE IF p < n THEN AddBefore(level, p, s, ps) ELSE AddLast(level, s, ps)
    BY <1>4, <2>0 DEF AddState
  <2> HIDE DEF p, new
  <2>2. CASE \E i \in 1..p : SameSubproblem(states[i], s)
    BY <1>4, <2>1, <2>2 DEF p, new
  <2>3. CASE p < n /\ ~\E i \in 1..p : SameSubproblem(states[i], s)
    <3>1. new = AddBefore(level, p, s, ps)
      BY <2>1, <2>3
    <3>2. p \in Nat
      BY <1>1
    <3>3. LET b == AddBefore(level, p, s, ps)
          IN /\ b \in [states : Seq(S), bound : Int] /\ Shaped(b)
             /\ Len(b.states) \in 1..ps.capacity
      BY <1>0, <1>1, <1>4, <2>3, <3>2, AddBeforeShape
    <3> HIDE DEF states, n
    <3>4. Len(new.states) >= 1 /\ Len(new.states) <= ps.capacity
      BY <1>0, <3>1, <3>3
    <3>5. new.states # <<>>
      BY <3>4
    <3>6. QED
      BY <3>1, <3>3, <3>4, <3>5 DEF new, p
  <2>4. CASE p = n /\ ~\E i \in 1..p : SameSubproblem(states[i], s)
    <3>1. new = AddLast(level, s, ps)
      BY <1>0, <2>1, <2>4
    <3>2. \A i \in 1..n : states[i].total > s.total /\ ~SameSubproblem(states[i], s)
      BY <1>1, <2>4
    <3>3. CASE n < ps.capacity
      <4> DEFINE app == Append(states, s)
      <4>1. new = [level EXCEPT !.states = Append(@, s)]
        BY <3>1, <3>3 DEF AddLast
      <4>2. app \in Seq(S) /\ Len(app) = n + 1 /\ app[n + 1] = s /\ \A i \in 1..n : app[i] = states[i]
        BY <1>0
      <4>3. Sorted(app) /\ Distinct(app)
        BY <3>2, AppendShape DEF Shaped
      <4> HIDE DEF app
      <4>4. ASSUME NEW i \in 1..Len(app) PROVE app[i].total >= level.bound
        <5>1. CASE i \in 1..n
          BY <4>2, <5>1 DEF Shaped
        <5>2. CASE i = n + 1
          BY <1>4, <4>2, <5>2
        <5>3. QED
          BY <1>0, <4>2, <5>1, <5>2
      <4>5. /\ new.states = app /\ new.bound = level.bound
            /\ new \in [states : Seq(S), bound : Int]
        BY <1>0, <4>1, <4>2 DEF app
      <4>6. Shaped(new) /\ app # <<>> /\ Len(app) <= ps.capacity
        BY <1>0, <3>3, <4>2, <4>3, <4>4, <4>5 DEF Shaped
      <4>7. QED
        BY <4>5, <4>6 DEF new, p
    <3>4. CASE ~(n < ps.capacity)
      BY <1>4, <3>1, <3>4 DEF AddLast, new
    <3>5. QED
      BY <3>3, <3>4
  <2>5. QED
    BY <1>0, <1>1, <2>2, <2>3, <2>4
<1>5. QED
  BY <1>0, <1>2, <1>3, <1>4

-----------------------------------------------------------------------------
(* The inductive invariant                                                   *)

\* The phrases that a path may have: short enough, with one of the translations
\* that the query found.
Phrases == {p \in [span : Spans, target : Targets] :
              /\ Length(p.span) <= inst.maxPhraseLen
              /\ \E k \in 1..Len(sentData[p.span].targets) : p.target = sentData[p.span].targets[k]}
\* No two phrases of a path share a word.
DisjointSpans(path) ==
  \A i \in 1..Len(path) : \A j \in 1..(i - 1) :
    path[j].span[2] < path[i].span[1] \/ path[i].span[2] < path[j].span[1]
\* The hypotheses, by the types of their fields.
States ==
  [begin : Int, end : Int, level : Nat, fncs : Nat, covered : SUBSET Positions,
   frame : Seq(Words), history : Seq(Words), lmLevel : 1..LmMax, from : Seq(Int) \ {<<>>},
   partial : Int, total : Int, path : Seq(Phrases)]

\* The states that the stack may hold in level l.
StatesOf(l) ==
  {s \in States :
     /\ s.level = l /\ Cardinality(s.covered) = MinOf(l, NumWords)
     /\ s.covered = CoveredBy(s.path) /\ DisjointSpans(s.path)
     /\ l <= NumWords => /\ -1 <= s.begin /\ s.begin <= s.end /\ s.end < NumWords
                         /\ (s.begin..s.end) \cap Positions \subseteq s.covered
                         /\ 0..(s.fncs - 1) \subseteq s.covered}
\* The states that the stack may hold.
AllStates == UNION {StatesOf(l) : l \in 0..(NumWords + 1)}

\* A level in order, and the stacks whose levels are.
LevelOK(level, l) ==
  /\ level \in [states : Seq(StatesOf(l)), bound : Int]
  /\ Sorted(level.states) /\ Distinct(level.states)
  /\ \A i \in 1..Len(level.states) : level.states[i].total >= level.bound
  /\ \E capacity \in Capacities : Len(level.states) <= capacity
\* The stacks whose levels are in order.
Stacks ==
  {ls \in [0..(NumWords + 1) -> [states : Seq(AllStates), bound : Int]] :
     \A l \in 0..(NumWords + 1) : LevelOK(ls[l], l)}

\* The inductive invariant: the control, the parameters, the queries' results and
\* the stack.
ControlOK ==
  /\ pc \in {"idle", "query_tm", "future", "query_rm", "perform", "expand", "done"}
  /\ isStop \in BOOLEAN /\ isDist \in BOOLEAN /\ limitDropped \in BOOLEAN
  /\ commands \in 0..MaxConsoleCommands
  /\ pc # "idle" => phase = "ready"
  /\ pc \notin {"expand", "done"} => levels = <<>>
  /\ pc \notin {"idle", "done"} \/ Decoding => NumWords \in 1..MaxWords
  /\ result.kind \in {"none", "translated", "source", "empty", "failed"}
  /\ pc = "done" <=> result # NoResult
\* The parameters: what finalize() has let through.
ParamsInv ==
  /\ params \in DecoderParams /\ params.capacity \in Capacities
  /\ commands = 0 => params = inst.params
\* Every span that is short enough has the entry that the tables give for it.
SentDataOK ==
  sentData = [s \in Spans |-> IF Length(s) <= inst.maxPhraseLen
                              THEN GetSourceEntry(SourcePhrase(s)) ELSE NoElement]
\* The results of the queries, once they have been made.
QueriesOK ==
  /\ pc \in {"future", "query_rm", "perform"} \/ Decoding => SentDataOK
  /\ pc \in {"query_rm", "perform"} \/ Decoding => future \in [Spans -> Int]
  /\ pc = "perform" \/ Decoding => rmQuery \in [QueriedUids -> Weights]
\* The stack while the search goes on: the beam has lost nothing so far.
LevelsOK ==
  /\ levels \in Stacks /\ DOMAIN offered = 0..(NumWords + 1)
  /\ \A l \in 0..(NumWords + 1) : offered[l] \subseteq StatesOf(l)
  /\ commands = 0 => \A l \in 0..(NumWords + 1) : Keeps(levels[l], offered[l], params)
  /\ currLevel \in 0..(NumWords + 1) /\ currPos \in Nat \ {0}
\* The inductive invariant of the decoder.
DecoderInv ==
  TablesInv /\ ControlOK /\ ParamsInv /\ QueriesOK /\ (Decoding => LevelsOK)

\* What makes the search arrive, as long as the console does not take its limit
\* away: the limit is one, and a level that it has passed has states.
LevelsReached ==
  pc = "expand" /\ ~limitDropped =>
    /\ isDist => params.distLimit >= 0
    /\ \A l \in 0..currLevel : levels[l].states # <<>>
    /\ currPos > 1 /\ currLevel <= NumWords => levels[currLevel + 1].states # <<>>

\* What the search works with.
DataOK ==
  /\ TablesInv /\ phase = "ready" /\ NumWords >= 1 /\ params \in DecoderParams
  /\ SentDataOK /\ future \in [Spans -> Int] /\ rmQuery \in [QueriedUids -> Weights]

\* The sentence and its spans.
LEMMA SentenceOK ==
  ASSUME TablesInv
  PROVE  /\ InstanceFields(inst) /\ inst.sentence \in Seq(Words) /\ NumWords \in Nat
         /\ inst.maxPhraseLen \in Nat /\ inst.maxPhraseLen >= 1
         /\ IsFiniteSet(Positions) /\ Cardinality(Positions) = NumWords
         /\ IsFiniteSet(Spans) /\ Spans \subseteq Positions \X Positions
         /\ \A s \in Spans : /\ s = <<s[1], s[2]>> /\ s[1] \in Nat /\ s[2] \in Nat
                             /\ s[1] <= s[2] /\ s[2] < NumWords /\ SourcePhrase(s) \in Seq(Words)
                             /\ Length(s) \in Nat \ {0}
<1>1. InstanceFields(inst)
  BY InstanceOK DEF TablesInv
<1>2. inst.sentence \in Seq(Words) /\ inst.maxPhraseLen \in Nat \ {0}
  BY <1>1 DEF InstanceFields
<1>3. NumWords \in Nat
  BY <1>2 DEF NumWords
<1>4. IsFiniteSet(Positions) /\ Cardinality(Positions) = NumWords
  BY <1>3, FS_Interval DEF Positions
<1>5. IsFiniteSet(Positions \X Positions)
  BY <1>4, FS_Product
<1>6. Spans \in SUBSET (Positions \X Positions)
  BY DEF Spans
<1>7. IsFiniteSet(Spans)
  BY <1>5, <1>6, FS_Subset
<1>8. ASSUME NEW s \in Spans
      PROVE  /\ s = <<s[1], s[2]>> /\ s[1] \in Nat /\ s[2] \in Nat
             /\ s[1] <= s[2] /\ s[2] < NumWords /\ SourcePhrase(s) \in Seq(Words)
             /\ Length(s) \in Nat \ {0}
  <2>1. s = <<s[1], s[2]>> /\ s[1] \in Positions /\ s[2] \in Positions /\ s[1] <= s[2]
    BY DEF Spans
  <2>2. s[1] \in Nat /\ s[2] \in Nat /\ s[2] < NumWords
    BY <1>3, <2>1 DEF Positions
  <2>3. \A i \in s[1] + 1..s[2] + 1 : inst.sentence[i] \in Words
    <3>1. \A i \in s[1] + 1..s[2] + 1 : i \in 1..Len(inst.sentence)
      BY <1>2, <2>2, SMTT(30) DEF NumWords
    <3>2. QED
      BY <1>2, <3>1, ElementOfSeq
  <2>4. SourcePhrase(s) \in Seq(Words)
    BY <2>2, <2>3, SubSeqProperties DEF SourcePhrase
  <2>5. QED
    BY <2>1, <2>2, <2>4 DEF Length
<1>9. QED
  BY <1>1, <1>2, <1>3, <1>4, <1>6, <1>7, <1>8

\* A span that is short enough has an entry with translations.
LEMMA SentDataType ==
  ASSUME HashIsNat, TablesInv, SentDataOK, NEW s \in Spans
  PROVE  /\ Length(s) <= inst.maxPhraseLen => /\ sentData[s] = GetSourceEntry(SourcePhrase(s))
                                              /\ sentData[s] \in Entries /\ sentData[s].targets # <<>>
                                              /\ sentData[s] # NoElement
         /\ Length(s) > inst.maxPhraseLen => sentData[s] = NoElement
<1>1. /\ InstanceFields(inst) /\ SourcePhrase(s) \in Seq(Words) /\ Length(s) \in Nat
      /\ inst.maxPhraseLen \in Nat
  BY SentenceOK
<1>2. /\ GetSourceEntry(SourcePhrase(s)) \in Entries
      /\ GetSourceEntry(SourcePhrase(s)).targets # <<>>
  BY <1>1, GetSourceEntryType DEF TablesInv
<1>3. sentData[s] = IF Length(s) <= inst.maxPhraseLen THEN GetSourceEntry(SourcePhrase(s)) ELSE NoElement
  BY DEF SentDataOK
<1>4. CASE Length(s) <= inst.maxPhraseLen
  BY <1>1, <1>2, <1>3, <1>4, NoElementAssumption
<1>5. CASE Length(s) > inst.maxPhraseLen
  BY <1>1, <1>3, <1>5
<1>6. QED
  BY <1>1, <1>4, <1>5

\* The translations of a span that the query found, and their uids.
LEMMA TargetType ==
  ASSUME HashIsNat, TablesInv, SentDataOK, NEW s \in Spans, Length(s) <= inst.maxPhraseLen,
         NEW k \in 1..Len(sentData[s].targets)
  PROVE  sentData[s].targets[k] \in Targets /\ sentData[s].targets[k].uid \in QueriedUids
<1>1. sentData[s] \in Entries /\ sentData[s] # NoElement
  BY SentDataType
<1>2. sentData[s].targets \in Seq(Targets)
  BY <1>1 DEF Entries
<1>3. sentData[s].targets[k] \in Targets
  BY <1>2, ElementOfSeq
<1>4. QED
  BY <1>1, <1>3 DEF QueriedUids

\* The last words of a sequence of words are one.
LEMMA LastWordsType ==
  ASSUME NEW words \in Seq(Words), NEW n \in Nat
  PROVE  LastWords(words, n) \in Seq(Words)
<1> DEFINE a == Len(words) - MinOf(Len(words), n) + 1
<1>1. Len(words) \in Nat /\ a \in Nat /\ a >= 1
  BY DEF MinOf
<1>2. \A i \in a..Len(words) : words[i] \in Words
  BY <1>1
<1> HIDE DEF a
<1>3. SubSeq(words, a, Len(words)) \in Seq(Words)
  BY <1>1, <1>2, SubSeqProperties
<1>4. QED
  BY <1>3 DEF LastWords, a

\* The circular queue of the last target words holds words.
LEMMA PushBackType ==
  ASSUME NEW frame \in Seq(Words), NEW words \in Seq(Words)
  PROVE  /\ PushBack(frame, words) \in Seq(Words)
         /\ LastWords(PushBack(frame, words), LmMax - 1) \in Seq(Words)
<1>1. FrameCapacity \in Nat /\ LmMax - 1 \in Nat
  BY LmMaxAssumption, BoundsType DEF FrameCapacity
<1>2. frame \o words \in Seq(Words)
  OBVIOUS
<1>3. PushBack(frame, words) \in Seq(Words)
  BY <1>1, <1>2, LastWordsType DEF PushBack
<1>4. QED
  BY <1>1, <1>3, LastWordsType

\* A query of the language model has an integer cost and a level.
LEMMA LmQueryType ==
  ASSUME InstanceFields(inst), NEW prev, prev.frame \in Seq(Words), prev.lmLevel \in 1..LmMax,
         NEW words \in Seq(Words)
  PROVE  LmQuery(prev, words).cost \in Int /\ LmQuery(prev, words).level \in 1..LmMax
<1>1. LmMax - 1 \in Nat
  BY LmMaxAssumption
<1>2. LastWords(prev.frame, LmMax - 1) \in Seq(Words)
  BY <1>1, LastWordsType
<1>3. LastWords(prev.frame, LmMax - 1) \o words \in Seq(Words)
  BY <1>2
<1>4. LmFields(inst.lm)
  BY DEF InstanceFields
<1>5. LmQuery(prev, words) \in [cost : Int, level : 1..LmMax]
  BY <1>3, <1>4, ExecuteQueryType DEF LmQuery
<1>6. QED
  BY <1>5

\* Both halves of a reordering entry's weights have one.
LEMMA HalvesType ==
  ASSUME NEW weights \in Weights
  PROVE  /\ FromWeights(weights) \in Seq(Int) \ {<<>>}
         /\ ToWeights(weights) \in Seq(Int) \ {<<>>}
         /\ Len(ToWeights(weights)) = Len(weights) \div 2
         /\ Len(FromWeights(weights)) = Len(weights) - Len(weights) \div 2
<1> DEFINE n == Len(weights)
           h == n \div 2
<1>1. weights \in Seq(Int) /\ n \in {2, 4, 6, 8}
  BY DEF Weights
<1>2. n \in Nat /\ h \in Nat /\ 1 <= h /\ h < n
  <2>1. \A x \in {2, 4, 6, 8} : x \div 2 \in Nat /\ 1 <= x \div 2 /\ x \div 2 < x
    OBVIOUS
  <2> HIDE DEF n
  <2>2. QED
    BY <1>1, <2>1
<1>3. \A i \in 1..n : weights[i] \in Int
  BY <1>1
<1>t. ToWeights(weights) = SubSeq(weights, 1, h) /\ FromWeights(weights) = SubSeq(weights, h + 1, n)
  BY DEF ToWeights, FromWeights
<1> HIDE DEF h, n
<1>4. SubSeq(weights, 1, h) \in Seq(Int) /\ Len(SubSeq(weights, 1, h)) = h
  <2>1. \A i \in 1..h : weights[i] \in Int
    BY <1>2, <1>3
  <2>2. QED
    BY <1>2, <2>1, SubSeqProperties
<1>5. SubSeq(weights, h + 1, n) \in Seq(Int) /\ Len(SubSeq(weights, h + 1, n)) = n - h
  <2>1. h + 1 \in Int /\ n \in Int /\ h + 1 <= n
    BY <1>2
  <2>2. \A i \in h + 1..n : weights[i] \in Int
    BY <1>2, <1>3
  <2>3. QED
    BY <1>2, <2>1, <2>2, SubSeqProperties
<1>6. \A seq \in Seq(Int) : Len(seq) > 0 => seq # <<>>
  OBVIOUS
<1>7. ToWeights(weights) \in Seq(Int) /\ Len(ToWeights(weights)) = h /\ h > 0
  BY <1>2, <1>t, <1>4
<1>8. FromWeights(weights) \in Seq(Int) /\ Len(FromWeights(weights)) = n - h /\ n - h > 0
  BY <1>2, <1>t, <1>5
<1>9. QED
  BY <1>6, <1>7, <1>8 DEF h, n

\* Every orientation has a weight in a half.
LEMMA WeightType ==
  ASSUME NEW half \in Seq(Int) \ {<<>>}, NEW orient \in DOMAIN Orientations
  PROVE  GetWeight(half, orient) \in Int
<1>1. Orientations[orient] \in 1..4
  BY DEF Orientations
<1>2. Len(half) \in Nat /\ Len(half) >= 1
  OBVIOUS
<1>3. MinOf(Orientations[orient], Len(half)) \in 1..Len(half)
  BY <1>1, <1>2 DEF MinOf
<1>4. QED
  BY <1>3 DEF GetWeight

\* The lexicalised reordering cost is an integer.
LEMMA LexRmCostType ==
  ASSUME NEW prev, prev.from \in Seq(Int) \ {<<>>}, NEW weights \in Weights, NEW begin, NEW end
  PROVE  LexRmCost(prev, begin, end, weights) \in Int
<1> DEFINE orient == GetReorderingOrientation(prev.begin, prev.end, begin, end)
<1>1. orient \in DOMAIN Orientations
  BY DEF GetReorderingOrientation, Orientations
<1> HIDE DEF orient
<1>2. GetWeight(prev.from, orient) \in Int /\ GetWeight(ToWeights(weights), orient) \in Int
  BY <1>1, HalvesType, WeightType
<1>3. QED
  BY <1>2 DEF LexRmCost, orient

\* The linear distortion cost is an integer.
LEMMA LinDistCostType ==
  ASSUME params \in DecoderParams, NEW prev, prev.end \in Int, NEW begin \in Int
  PROVE  LinDistCost(prev, begin) \in Int
<1>1. params.penalty \in Int
  BY DEF DecoderParams
<1>2. - Abs(begin - prev.end - 1) \in Int
  BY DEF Abs
<1>3. \A a, b \in Int : a * b \in Int
  OBVIOUS
<1>4. QED
  BY <1>1, <1>2, <1>3 DEF LinDistCost

\* The future cost of any coverage is an integer.
LEMMA FutureCostType ==
  ASSUME DataOK, NEW covered
  PROVE  FutureCost(covered) \in Int
<1>1. UncoveredSpans(covered) \in SUBSET Spans
  BY DEF UncoveredSpans
<1>2. IsFiniteSet(UncoveredSpans(covered))
  BY <1>1, SentenceOK, FS_Subset DEF DataOK
<1>3. \A s \in UncoveredSpans(covered) : future[s] \in Int
  BY <1>1 DEF DataOK
<1>4. QED
  BY <1>2, <1>3, SumType DEF FutureCost

-----------------------------------------------------------------------------
(* The states that the search makes                                          *)

\* The search begins with a state of level 0.
LEMMA RootStateOK ==
  ASSUME HashIsNat, DataOK
  PROVE  RootState \in StatesOf(0)
<1> DEFINE history == LastWords(BeginTag, LmMax - 1)
           from == FromWeights(RmEntry(BeginTag, BeginTag))
<1>1. NumWords \in Nat /\ NumWords >= 1
  BY SentenceOK DEF DataOK
<1>2. BeginTag \in Seq(Words) /\ LmMax - 1 \in Nat /\ 1 \in 1..LmMax
  BY PhrasesAssumption, LmMaxAssumption
<1>3. history \in Seq(Words)
  BY <1>2, LastWordsType
<1>4. from \in Seq(Int) \ {<<>>}
  <2>1. RmEntry(BeginTag, BeginTag) \in Weights
    BY GetReorderingType DEF DataOK, TablesInv, Specials
  <2>2. QED
    BY <2>1, HalvesType
<1>5. RootState = [begin |-> -1, end |-> -1, level |-> 0, fncs |-> 0, covered |-> {},
                   frame |-> BeginTag, history |-> history, lmLevel |-> 1, from |-> from,
                   partial |-> 0, total |-> 0, path |-> <<>>]
  BY DEF RootState
<1> HIDE DEF history, from
<1>6. RootState \in States
  <2>1. <<>> \in Seq(Phrases)
    OBVIOUS
  <2>2. QED
    BY <1>2, <1>3, <1>4, <1>5, <2>1 DEF States
<1>7. /\ RootState.level = 0 /\ RootState.covered = {} /\ RootState.path = <<>> /\ RootState.fncs = 0
      /\ RootState.begin = -1 /\ RootState.end = -1
  BY <1>5
<1>8. Cardinality({}) = 0 /\ MinOf(0, NumWords) = 0
  BY <1>1, FS_EmptySet DEF MinOf
<1>9. CoveredBy(<<>>) = {} /\ DisjointSpans(<<>>)
  BY DEF CoveredBy, DisjointSpans
<1>10. (RootState.begin..RootState.end) \cap Positions \subseteq {} /\ 0..(RootState.fncs - 1) = {}
  BY <1>1, <1>7 DEF Positions
<1>11. -1 <= -1 /\ -1 < NumWords
  BY <1>1
<1> DEFINE root == RootState
<1> HIDE DEF root
<1>12. /\ root.level = 0 /\ Cardinality(root.covered) = MinOf(0, NumWords)
       /\ root.covered = CoveredBy(root.path) /\ DisjointSpans(root.path)
       /\ -1 <= root.begin /\ root.begin <= root.end /\ root.end < NumWords
       /\ (root.begin..root.end) \cap Positions \subseteq root.covered
       /\ 0..(root.fncs - 1) \subseteq root.covered /\ root \in States
  BY <1>6, <1>7, <1>8, <1>9, <1>10, <1>11 DEF root
<1>13. root \in StatesOf(0)
  BY <1>12 DEF StatesOf
<1>14. QED
  BY <1>13 DEF root

\* One more phrase of a path, over words it does not cover.
LEMMA PathAppend ==
  ASSUME TablesInv, NEW path \in Seq(Phrases), DisjointSpans(path), NEW phrase \in Phrases,
         (phrase.span[1]..phrase.span[2]) \cap CoveredBy(path) = {}
  PROVE  /\ Append(path, phrase) \in Seq(Phrases)
         /\ CoveredBy(Append(path, phrase)) = CoveredBy(path) \cup phrase.span[1]..phrase.span[2]
         /\ DisjointSpans(Append(path, phrase))
<1> DEFINE n == Len(path)
           new == Append(path, phrase)
<1>1. n \in Nat /\ \A i \in 1..n : path[i] \in Phrases
  OBVIOUS
<1>2. new \in Seq(Phrases) /\ Len(new) = n + 1 /\ new[n + 1] = phrase /\ \A i \in 1..n : new[i] = path[i]
  OBVIOUS
<1>3. \A p \in Phrases : p.span \in Spans
  BY DEF Phrases
<1> HIDE DEF new
<1>4. \A i \in 1..n + 1 : i \in 1..n \/ i = n + 1
  BY <1>1
<1>5. CoveredBy(new) = CoveredBy(path) \cup phrase.span[1]..phrase.span[2]
  <2> DEFINE Words1(i) == path[i].span[1]..path[i].span[2]
             Words2(i) == new[i].span[1]..new[i].span[2]
             last == phrase.span[1]..phrase.span[2]
  <2>1. (\A i \in 1..n : Words2(i) = Words1(i)) /\ Words2(n + 1) = last
    BY <1>2
  <2>2. CoveredBy(new) = UNION {Words2(i) : i \in 1..n + 1} /\ CoveredBy(path) = UNION {Words1(i) : i \in 1..n}
    BY <1>2 DEF CoveredBy
  <2>3. 1..n \subseteq 1..n + 1 /\ n + 1 \in 1..n + 1
    BY <1>1
  <2> HIDE DEF Words1, Words2, last
  <2>4. ASSUME NEW x PROVE x \in CoveredBy(new) <=> x \in CoveredBy(path) \cup last
    <3>1. ASSUME NEW i \in 1..n + 1, x \in Words2(i) PROVE x \in CoveredBy(path) \cup last
      BY <1>4, <2>1, <2>2, <3>1
    <3>2. ASSUME NEW i \in 1..n, x \in Words1(i) PROVE x \in CoveredBy(new)
      BY <2>1, <2>2, <2>3, <3>2
    <3>3. ASSUME x \in last PROVE x \in CoveredBy(new)
      BY <2>1, <2>2, <2>3, <3>3
    <3>4. QED
      BY <2>2, <3>1, <3>2, <3>3
  <2>5. CoveredBy(new) = CoveredBy(path) \cup last
    BY <2>4
  <2>6. QED
    BY <2>5 DEF last
<1>6. ASSUME NEW i \in 1..n + 1, NEW j \in 1..(i - 1)
      PROVE  new[j].span[2] < new[i].span[1] \/ new[i].span[2] < new[j].span[1]
  <2>1. j \in 1..n /\ new[j] = path[j]
    BY <1>1, <1>2
  <2>2. CASE i \in 1..n
    BY <1>2, <2>1, <2>2 DEF DisjointSpans
  <2>3. CASE i = n + 1
    <3>1. new[i] = phrase
      BY <1>2, <2>3
    <3>2. path[j].span[1]..path[j].span[2] \subseteq CoveredBy(path)
      BY <2>1 DEF CoveredBy
    <3>3. \A k : ~(k \in phrase.span[1]..phrase.span[2] /\ k \in path[j].span[1]..path[j].span[2])
      BY <3>2
    <3>4. path[j].span \in Spans /\ phrase.span \in Spans
      BY <1>1, <1>3, <2>1
    <3> DEFINE a == path[j].span[1]
               b == path[j].span[2]
               c == phrase.span[1]
               d == phrase.span[2]
    <3>5. a \in Nat /\ b \in Nat /\ c \in Nat /\ d \in Nat /\ a <= b /\ c <= d
      BY <3>4, SentenceOK
    <3> HIDE DEF a, b, c, d
    <3>6. \A k : ~(k \in c..d /\ k \in a..b)
      BY <3>3 DEF a, b, c, d
    <3>7. b < c \/ d < a
      <4>1. a \in a..b /\ c \in c..d
        BY <3>5
      <4>2. ~(a \in c..d) /\ ~(c \in a..b)
        BY <3>6, <4>1
      <4>3. (c <= a => d < a) /\ (a <= c => b < c)
        BY <3>5, <4>2
      <4>4. QED
        BY <3>5, <4>3
    <3>8. QED
      BY <2>1, <3>1, <3>7 DEF a, b, c, d
  <2>4. QED
    BY <1>4, <2>2, <2>3
<1>7. QED
  BY <1>2, <1>5, <1>6 DEF new, DisjointSpans

\* A phrase over uncovered words makes a state of a later level.
LEMMA PhraseStateOK ==
  ASSUME HashIsNat, DataOK, NEW l \in Nat, l < NumWords, NEW s \in StatesOf(l), NEW fncs \in Nat,
         NEW span \in Spans, (span[1]..span[2]) \cap s.covered = {}, Length(span) <= inst.maxPhraseLen,
         0..(fncs - 1) \subseteq s.covered \cup span[1]..span[2],
         NEW k \in 1..Len(sentData[span].targets)
  PROVE  /\ l + Length(span) <= NumWords
         /\ PhraseState(s, fncs, span, sentData[span].targets[k]) \in StatesOf(l + Length(span))
<1> DEFINE target == sentData[span].targets[k]
           covered == s.covered \cup span[1]..span[2]
           lm == LmQuery(s, target.words)
           weights == rmQuery[target.uid]
           frame == PushBack(s.frame, target.words)
           history == LastWords(frame, LmMax - 1)
           from == FromWeights(weights)
           partial == s.partial + target.weight + lm.cost + LinDistCost(s, span[1])
                      + LexRmCost(s, span[1], span[2], weights)
           total == partial + FutureCost(covered)
           phrase == [span |-> span, target |-> target]
           path == Append(s.path, phrase)
           new == PhraseState(s, fncs, span, target)
<1>1. /\ TablesInv /\ InstanceFields(inst) /\ NumWords \in Nat /\ IsFiniteSet(Positions)
      /\ Cardinality(Positions) = NumWords
      /\ span[1] \in Nat /\ span[2] \in Nat /\ span[1] <= span[2] /\ span[2] < NumWords
      /\ Length(span) = span[2] - span[1] + 1
  BY SentenceOK DEF DataOK, Length
<1>2. /\ s \in States /\ s.level = l /\ Cardinality(s.covered) = l
      /\ s.covered = CoveredBy(s.path) /\ DisjointSpans(s.path)
  BY <1>1 DEF StatesOf, MinOf
<1>3. /\ s.end \in Int /\ s.covered \in SUBSET Positions /\ s.frame \in Seq(Words)
      /\ s.lmLevel \in 1..LmMax /\ s.from \in Seq(Int) \ {<<>>} /\ s.partial \in Int
      /\ s.path \in Seq(Phrases)
  BY <1>2 DEF States
<1>4. target \in Targets /\ target.uid \in QueriedUids
  BY <1>1, TargetType DEF DataOK
<1>5. target.words \in Seq(Words) /\ target.weight \in Int
  BY <1>4 DEF Targets
<1>6. weights \in Weights
  BY <1>4 DEF DataOK
<1>7. lm.cost \in Int /\ lm.level \in 1..LmMax
  BY <1>1, <1>3, <1>5, LmQueryType
<1>8. frame \in Seq(Words) /\ history \in Seq(Words)
  BY <1>3, <1>5, PushBackType
<1>9. from \in Seq(Int) \ {<<>>} /\ LexRmCost(s, span[1], span[2], weights) \in Int
  BY <1>3, <1>6, HalvesType, LexRmCostType
<1>10. LinDistCost(s, span[1]) \in Int
  <2>1. params \in DecoderParams /\ s.end \in Int /\ span[1] \in Int
    BY <1>1, <1>3, SMTT(30) DEF DataOK
  <2>2. QED
    BY <2>1, LinDistCostType
<1>11. FutureCost(covered) \in Int
  BY FutureCostType
<1> HIDE DEF target
<1>12. new = [begin |-> span[1], end |-> span[2], level |-> s.level + Length(span),
              fncs |-> fncs, covered |-> covered, frame |-> frame, history |-> history,
              lmLevel |-> lm.level, from |-> from, partial |-> partial, total |-> total, path |-> path]
  BY DEF PhraseState
<1> HIDE DEF lm, weights, frame, history, from
<1>13. partial \in Int
  <2>1. \A a, b, c, d, e \in Int : a + b + c + d + e \in Int
    OBVIOUS
  <2>2. s.partial \in Int /\ target.weight \in Int /\ lm.cost \in Int
    BY <1>3, <1>5, <1>7
  <2>3. QED
    BY <1>9, <1>10, <2>1, <2>2
<1> HIDE DEF partial
<1>14. total \in Int
  BY <1>11, <1>13
<1> HIDE DEF total
<1>15. covered \in SUBSET Positions /\ Cardinality(covered) = l + Length(span) /\ l + Length(span) <= NumWords
  <2> DEFINE words == span[1]..span[2]
  <2>1. words \in SUBSET Positions /\ IsFiniteSet(words) /\ Cardinality(words) = Length(span)
    <3>1. IsFiniteSet(words) /\ Cardinality(words) = span[2] - span[1] + 1
      <4>1. span[1] \in Int /\ span[2] \in Int /\ ~(span[1] > span[2])
        BY <1>1
      <4>2. QED
        BY <4>1, FS_Interval
    <3>2. QED
      BY <1>1, <3>1 DEF Positions
  <2>2. IsFiniteSet(s.covered)
    BY <1>1, <1>3, FS_Subset
  <2>3. words \cap s.covered = {}
    OBVIOUS
  <2> HIDE DEF words
  <2>4. s.covered \cap words = {}
    BY <2>3
  <2>5. Cardinality(s.covered \cup words) = Cardinality(s.covered) + Cardinality(words)
    <3>1. Cardinality(s.covered \cup words)
            = Cardinality(s.covered) + Cardinality(words) - Cardinality(s.covered \cap words)
      BY <2>1, <2>2, FS_Union
    <3>2. Cardinality(s.covered \cap words) = 0
      BY <2>4, FS_EmptySet
    <3>3. Cardinality(s.covered) \in Nat /\ Cardinality(words) \in Nat
      BY <2>1, <2>2, FS_CardinalityType
    <3>4. QED
      BY <3>1, <3>2, <3>3
  <2>6. s.covered \cup words \in SUBSET Positions
    BY <1>3, <2>1
  <2>7. Cardinality(s.covered \cup words) <= NumWords
    BY <1>1, <2>6, FS_Subset
  <2>8. QED
    BY <1>2, <2>1, <2>5, <2>6, <2>7 DEF words
<1>16. phrase \in Phrases
  <2>1. phrase \in [span : Spans, target : Targets] /\ phrase.span = span /\ phrase.target = target
    BY <1>4
  <2> HIDE DEF phrase
  <2>2. QED
    BY <2>1 DEF Phrases, target
<1>17. /\ path \in Seq(Phrases) /\ CoveredBy(path) = covered /\ DisjointSpans(path)
  <2>1. phrase.span = span
    OBVIOUS
  <2> HIDE DEF phrase
  <2>2. QED
    BY <1>1, <1>2, <1>3, <1>16, <2>1, PathAppend
<1> HIDE DEF path
<1>18. /\ new.level = l + Length(span) /\ new.covered = covered /\ new.path = path
       /\ new.begin = span[1] /\ new.end = span[2] /\ new.fncs = fncs
  BY <1>2, <1>12
<1>19. new \in States
  <2>1. l + Length(span) \in Nat /\ span[1] \in Int /\ span[2] \in Int
    BY <1>1, SMTT(30)
  <2> HIDE DEF covered
  <2>2. QED
    BY <1>2, <1>7, <1>8, <1>9, <1>12, <1>13, <1>14, <1>15, <1>17, <2>1 DEF States
<1> HIDE DEF new
<1>20. /\ -1 <= new.begin /\ new.begin <= new.end /\ new.end < NumWords
       /\ (new.begin..new.end) \cap Positions \subseteq new.covered
       /\ 0..(new.fncs - 1) \subseteq new.covered
  BY <1>1, <1>18, SMTT(30)
<1>21. MinOf(l + Length(span), NumWords) = l + Length(span)
  BY <1>15 DEF MinOf
<1>22. new \in StatesOf(l + Length(span))
  BY <1>15, <1>17, <1>18, <1>19, <1>20, <1>21 DEF StatesOf
<1>23. QED
  BY <1>15, <1>22 DEF new, target

\* The state with which EndState ends a derivation.
Moved(s, position, level, fncs, frame, history, lmLevel, from, score) ==
  [s EXCEPT !.begin = position, !.end = position, !.level = level, !.fncs = fncs,
            !.frame = frame, !.history = history, !.lmLevel = lmLevel, !.from = from,
            !.partial = score, !.total = score]
\* It is a state.
LEMMA MovedType ==
  ASSUME NEW s \in States, NEW position \in Int, NEW level \in Nat, NEW fncs \in Nat,
         NEW frame \in Seq(Words), NEW history \in Seq(Words), NEW lmLevel \in 1..LmMax,
         NEW from \in Seq(Int) \ {<<>>}, NEW score \in Int
  PROVE  Moved(s, position, level, fncs, frame, history, lmLevel, from, score) \in States
  BY DEF States, Moved

\* The state for </s> is one of the last level.
LEMMA EndStateOK ==
  ASSUME HashIsNat, DataOK, NEW s \in StatesOf(NumWords)
  PROVE  EndState(s) \in StatesOf(NumWords + 1)
<1> DEFINE lm == LmQuery(s, EndTag)
           weights == RmEntry(EndTag, EndTag)
           frame == PushBack(s.frame, EndTag)
           history == LastWords(frame, LmMax - 1)
           from == FromWeights(weights)
           score == s.partial + lm.cost + LinDistCost(s, NumWords)
                    + LexRmCost(s, NumWords, NumWords, weights)
           new == EndState(s)
<1>1. TablesInv /\ InstanceFields(inst) /\ NumWords \in Nat /\ NumWords >= 1 /\ EndTag \in Seq(Words)
  BY SentenceOK, PhrasesAssumption DEF DataOK
<1>2. /\ s \in States /\ s.level = NumWords /\ Cardinality(s.covered) = NumWords
      /\ s.covered = CoveredBy(s.path) /\ DisjointSpans(s.path)
  BY <1>1 DEF StatesOf, MinOf
<1>3. /\ s.end \in Int /\ s.frame \in Seq(Words) /\ s.lmLevel \in 1..LmMax
      /\ s.from \in Seq(Int) \ {<<>>} /\ s.partial \in Int
  BY <1>2 DEF States
<1>4. weights \in Weights
  BY GetReorderingType DEF DataOK, TablesInv, Specials
<1>5. lm.cost \in Int /\ lm.level \in 1..LmMax
  BY <1>1, <1>3, LmQueryType
<1>6. frame \in Seq(Words) /\ history \in Seq(Words)
  BY <1>1, <1>3, PushBackType
<1>7. from \in Seq(Int) \ {<<>>} /\ LexRmCost(s, NumWords, NumWords, weights) \in Int
  BY <1>3, <1>4, HalvesType, LexRmCostType
<1>8. LinDistCost(s, NumWords) \in Int
  BY <1>1, <1>3, LinDistCostType DEF DataOK
<1>9. new = [s EXCEPT !.begin = NumWords, !.end = NumWords, !.level = @ + 1,
                      !.fncs = NumWords - 1, !.frame = frame, !.history = history,
                      !.lmLevel = lm.level, !.from = from, !.partial = score, !.total = score]
  BY DEF EndState
<1> HIDE DEF lm, weights, frame, history, from
<1>10. score \in Int
  BY <1>3, <1>5, <1>7, <1>8, SMTT(30)
<1> HIDE DEF score
<1>11. new \in States
  <2> DEFINE n == NumWords
             level == s.level + 1
             fncs == NumWords - 1
             lmLevel == lm.level
  <2>1. n \in Int /\ level \in Nat /\ fncs \in Nat /\ lmLevel \in 1..LmMax
    BY <1>1, <1>2, <1>5
  <2>2. new = Moved(s, n, level, fncs, frame, history, lmLevel, from, score)
    BY <1>9 DEF Moved
  <2> HIDE DEF n, level, fncs, lmLevel, new
  <2>3. Moved(s, n, level, fncs, frame, history, lmLevel, from, score) \in States
    BY <1>2, <1>6, <1>7, <1>10, <2>1, MovedType
  <2>4. QED
    BY <2>2, <2>3 DEF new
<1>12. new.level = NumWords + 1 /\ new.covered = s.covered /\ new.path = s.path
  BY <1>2, <1>9 DEF States
<1> HIDE DEF new
<1>13. MinOf(NumWords + 1, NumWords) = NumWords /\ ~(NumWords + 1 <= NumWords)
  BY <1>1 DEF MinOf
<1>14. QED
  BY <1>2, <1>11, <1>12, <1>13 DEF StatesOf, new

\* A function on 1..n is a sequence.
LEMMA SeqOfFunction ==
  ASSUME NEW S, NEW n \in Nat, NEW f \in [1..n -> S]
  PROVE  f \in Seq(S) /\ Len(f) = n
  OBVIOUS

\* The first word that a state does not cover, where the search begins.
IsFirstNc(s, p) ==
  /\ p \in s.fncs..(NumWords - 1) /\ p \notin s.covered
  /\ \A q \in s.fncs..(p - 1) : q \in s.covered
\* The first word that s does not cover, from where its parents left off.
FirstNc(s) ==
  CHOOSE p \in s.fncs..(NumWords - 1) : p \notin s.covered /\ \A q \in s.fncs..(p - 1) : q \in s.covered
\* There is one while the state does not cover the sentence.
LEMMA FirstNcProps ==
  ASSUME DataOK, NEW l \in Nat, l < NumWords, NEW s \in StatesOf(l)
  PROVE  /\ FirstNc(s) \in Positions /\ FirstNc(s) \notin s.covered
         /\ 0..(FirstNc(s) - 1) \subseteq s.covered
<1> DEFINE open == Positions \ s.covered
<1>1. NumWords \in Nat /\ IsFiniteSet(Positions) /\ Cardinality(Positions) = NumWords
  BY SentenceOK DEF DataOK
<1>2. /\ s.covered \in SUBSET Positions /\ s.fncs \in Nat /\ Cardinality(s.covered) = l
      /\ 0..(s.fncs - 1) \subseteq s.covered
  BY <1>1, SMTT(30) DEF StatesOf, States, MinOf
<1>3. open # {}
  <2>1. s.covered # Positions
    BY <1>1, <1>2
  <2>2. QED
    BY <1>2, <2>1
<1>4. open \in SUBSET Nat
  BY <1>1 DEF Positions
<1> HIDE DEF open
<1>5. PICK p \in open : \A q \in open : p <= q
  BY <1>3, <1>4, MinExists
<1>6. p \in Nat /\ p < NumWords /\ p \notin s.covered /\ \A q \in 0..(p - 1) : q \in s.covered
  <2>1. p \in Nat /\ p < NumWords /\ p \notin s.covered
    BY <1>1, <1>4, <1>5 DEF open, Positions
  <2>2. ASSUME NEW q \in 0..(p - 1) PROVE q \in s.covered
    <3>1. q \notin open
      BY <1>4, <1>5, <2>1
    <3>2. q \in Positions
      BY <1>1, <2>1 DEF Positions
    <3>3. QED
      BY <3>1, <3>2 DEF open
  <2>3. QED
    BY <2>1, <2>2
<1>7. p >= s.fncs
  BY <1>2, <1>6
<1>8. IsFirstNc(s, p)
  BY <1>1, <1>2, <1>6, <1>7 DEF IsFirstNc
<1>9. IsFirstNc(s, FirstNc(s))
  <2>1. FirstNc(s) = CHOOSE x : IsFirstNc(s, x)
    BY DEF FirstNc, IsFirstNc
  <2>2. QED
    BY <1>8, <2>1
<1>10. FirstNc(s) \in Nat /\ FirstNc(s) < NumWords /\ FirstNc(s) \notin s.covered
  BY <1>1, <1>2, <1>9 DEF IsFirstNc
<1>11. ASSUME NEW q \in 0..(FirstNc(s) - 1) PROVE q \in s.covered
  <2>1. q \in 0..(s.fncs - 1) \/ q \in s.fncs..(FirstNc(s) - 1)
    BY <1>2, <1>10
  <2>2. QED
    BY <1>2, <1>9, <2>1 DEF IsFirstNc
<1>12. QED
  BY <1>1, <1>10, <1>11 DEF Positions

\* The states that one phrase makes, one for each of its translations.
Translations(s, fncs, span) ==
  [i \in 1..Len(sentData[span].targets) |-> PhraseState(s, fncs, span, sentData[span].targets[i])]
\* Where the search for the first uncovered word begins after span is covered.
FncsFor(s, span) == IF span[1] = FirstNc(s) THEN span[2] + 1 ELSE FirstNc(s)
\* Each translation of a span makes a state of a higher level.
LEMMA TranslationsOK ==
  ASSUME HashIsNat, DataOK, NEW l \in Nat, l < NumWords, NEW s \in StatesOf(l),
         NEW p \in Positions, NEW length \in 1..inst.maxPhraseLen,
         Expands(s.covered, <<p, p + length - 1>>)
  PROVE  LET span == <<p, p + length - 1>>
             new == Translations(s, FncsFor(s, span), span)
         IN /\ new \in Seq(AllStates) /\ new # <<>>
            /\ \A i \in 1..Len(new) : new[i] \in StatesOf(l + length)
<1> DEFINE span == <<p, p + length - 1>>
           n == Len(sentData[span].targets)
           fncs == FncsFor(s, span)
           new == Translations(s, fncs, span)
<1>1. TablesInv /\ SentDataOK /\ NumWords \in Nat /\ inst.maxPhraseLen \in Nat
  BY SentenceOK DEF DataOK
<1>2. /\ p \in Nat /\ length \in Nat /\ length >= 1 /\ length <= inst.maxPhraseLen
      /\ p + length - 1 < NumWords
  BY <1>1 DEF Positions, Expands
<1>3. span \in Spans /\ Length(span) = length /\ span[1] = p /\ span[2] = p + length - 1
  BY <1>1, <1>2 DEF Spans, Positions, Length
<1>4. (span[1]..span[2]) \cap s.covered = {}
  BY DEF Expands
<1>5. sentData[span] \in Entries /\ sentData[span].targets # <<>>
  BY <1>1, <1>2, <1>3, SentDataType
<1>6. n \in Nat /\ n >= 1
  <2>1. sentData[span].targets \in Seq(Targets)
    BY <1>5 DEF Entries
  <2>2. QED
    BY <1>5, <2>1
<1>7. /\ FirstNc(s) \in Nat /\ 0..(FirstNc(s) - 1) \subseteq s.covered
  BY <1>1, FirstNcProps DEF Positions
<1> HIDE DEF span
<1>8. fncs \in Nat /\ 0..(fncs - 1) \subseteq s.covered \cup span[1]..span[2]
  <2>1. CASE span[1] = FirstNc(s)
    <3>1. fncs = span[2] + 1 /\ fncs \in Nat
      BY <1>2, <1>3, <2>1 DEF FncsFor
    <3>2. \A q \in 0..span[2] : q \in 0..(FirstNc(s) - 1) \/ q \in span[1]..span[2]
      BY <1>2, <1>3, <1>7, <2>1
    <3>3. fncs - 1 = span[2]
      BY <1>2, <1>3, <3>1
    <3>4. QED
      BY <1>7, <3>1, <3>2, <3>3
  <2>2. CASE span[1] # FirstNc(s)
    BY <1>7, <2>2 DEF FncsFor
  <2>3. QED
    BY <2>1, <2>2
<1> HIDE DEF fncs
<1>9. ASSUME NEW i \in 1..n
      PROVE  /\ PhraseState(s, fncs, span, sentData[span].targets[i]) \in StatesOf(l + length)
             /\ l + length <= NumWords
  <2>1. Length(span) <= inst.maxPhraseLen
    BY <1>2, <1>3
  <2>2. /\ l + Length(span) <= NumWords
        /\ PhraseState(s, fncs, span, sentData[span].targets[i]) \in StatesOf(l + Length(span))
    BY <1>3, <1>4, <1>8, <2>1, PhraseStateOK
  <2>3. QED
    BY <1>3, <2>2
<1>10. StatesOf(l + length) \subseteq AllStates
  <2>1. 1 \in 1..n
    BY <1>6
  <2>2. l + length \in 0..(NumWords + 1)
    BY <1>1, <1>2, <1>9, <2>1, SMTT(30)
  <2>3. QED
    BY <2>2 DEF AllStates
<1>11. new = [i \in 1..n |-> PhraseState(s, fncs, span, sentData[span].targets[i])]
  BY DEF Translations
<1> HIDE DEF n
<1>12. new \in [1..n -> AllStates] /\ \A i \in 1..n : new[i] \in StatesOf(l + length)
  BY <1>9, <1>10, <1>11
<1> HIDE DEF new
<1>13. new \in Seq(AllStates) /\ Len(new) = n
  BY <1>6, <1>12, SeqOfFunction
<1>14. new # <<>>
  BY <1>6, <1>13
<1>15. QED
  BY <1>12, <1>13, <1>14 DEF new, span, fncs

\* The states from one position, for all lengths.
TranslationsFrom(s, p) ==
  FlattenSeq([length \in 1..inst.maxPhraseLen |->
                IF Expands(s.covered, <<p, p + length - 1>>)
                THEN Translations(s, FncsFor(s, <<p, p + length - 1>>), <<p, p + length - 1>>) ELSE <<>>])
\* So do those of all the spans that begin in a word; an uncovered word has one.
LEMMA TranslationsFromOK ==
  ASSUME HashIsNat, DataOK, NEW l \in Nat, l < NumWords, NEW s \in StatesOf(l), NEW p \in Positions
  PROVE  /\ TranslationsFrom(s, p) \in Seq(AllStates)
         /\ p \notin s.covered => \E i \in 1..Len(TranslationsFrom(s, p)) :
                                    TranslationsFrom(s, p)[i].level = l + 1
<1> DEFINE new(length) == IF Expands(s.covered, <<p, p + length - 1>>)
                          THEN Translations(s, FncsFor(s, <<p, p + length - 1>>), <<p, p + length - 1>>)
                          ELSE <<>>
           n == inst.maxPhraseLen
           seqs == [length \in 1..n |-> new(length)]
<1>1. n \in Nat /\ n >= 1 /\ NumWords \in Nat
  BY SentenceOK DEF DataOK
<1>2. ASSUME NEW length \in 1..n PROVE new(length) \in Seq(AllStates)
  <2>1. <<>> \in Seq(AllStates)
    OBVIOUS
  <2>2. QED
    BY <2>1, TranslationsOK
<1>3. seqs \in Seq(Seq(AllStates)) /\ Len(seqs) = n
  <2> HIDE DEF new
  <2>1. seqs \in [1..n -> Seq(AllStates)]
    BY <1>2
  <2> HIDE DEF seqs, n
  <2>2. QED
    BY <1>1, <2>1, SeqOfFunction
<1>4. TranslationsFrom(s, p) = FlattenSeq(seqs)
  BY DEF TranslationsFrom
<1>5. ASSUME p \notin s.covered
      PROVE  \E i \in 1..Len(FlattenSeq(seqs)) : FlattenSeq(seqs)[i].level = l + 1
  <2>1. 1 \in 1..n /\ p \in Nat /\ p < NumWords /\ p + 1 - 1 = p
    BY <1>1 DEF Positions
  <2>2. Expands(s.covered, <<p, p + 1 - 1>>)
    <3>1. \A i \in p..p : i \notin s.covered
      BY <1>5, <2>1
    <3>2. Length(<<p, p>>) = 1
      BY <2>1 DEF Length
    <3>3. QED
      BY <2>1, <3>1, <3>2 DEF Expands
  <2>3. new(1) # <<>> /\ \A i \in 1..Len(new(1)) : new(1)[i] \in StatesOf(l + 1)
    BY <2>1, <2>2, TranslationsOK
  <2>4. seqs[1] = new(1) /\ new(1) \in Seq(AllStates)
    BY <1>2, <2>1
  <2> HIDE DEF new, seqs
  <2>5. 1 \in 1..Len(seqs[1])
    BY <2>3, <2>4
  <2>6. PICK i \in 1..Len(FlattenSeq(seqs)) : FlattenSeq(seqs)[i] = seqs[1][1]
    <3>1. \A k \in 1..Len(seqs) : \A j \in 1..Len(seqs[k]) :
            \E i \in 1..Len(FlattenSeq(seqs)) : FlattenSeq(seqs)[i] = seqs[k][j]
      BY <1>3, FlattenProps, SMTT(30)
    <3>2. 1 \in 1..Len(seqs)
      BY <1>3, <2>1
    <3>3. QED
      BY <2>5, <3>1, <3>2
  <2>7. FlattenSeq(seqs)[i] \in StatesOf(l + 1)
    BY <2>3, <2>4, <2>5, <2>6
  <2>8. QED
    BY <2>7 DEF StatesOf
<1>6. FlattenSeq(seqs) \in Seq(AllStates)
  BY <1>3, FlattenProps
<1>7. QED
  BY <1>4, <1>5, <1>6

\* The positions where the next phrases begin.
MaxRight(s) == IF isDist THEN MinOf(NumWords - 1, FirstNc(s) + params.distLimit) ELSE NumWords - 1
\* Those to the right of the last phrase.
RightOf(s) == [i \in FirstOf(MaxRight(s) - s.end) |-> s.end + i]
\* Those to the left of it.
LeftOf(s) == [i \in FirstOf(s.begin - FirstNc(s)) |-> s.begin - i]
\* All of them, in the order of the code.
Begins(s) == RightOf(s) \o LeftOf(s)

\* FirstOf(n) is an interval, empty for a limit that is not positive.
LEMMA FirstOfProps ==
  ASSUME NEW n \in Int
  PROVE  \E m \in Nat : FirstOf(n) = 1..m /\ (n > 0 => m = n) /\ (n <= 0 => m = 0)
<1>1. CASE n > 0
  BY <1>1 DEF FirstOf
<1>2. CASE n <= 0
  <2>1. FirstOf(n) = 1..0
    BY <1>2 DEF FirstOf
  <2>2. QED
    BY <1>2, <2>1
<1>3. QED
  BY <1>1, <1>2

\* They are uncovered or not, but positions; every uncovered word within the
\* distortion limit is one of them.
LEMMA BeginsProps ==
  ASSUME DataOK, NEW l \in Nat, l < NumWords, NEW s \in StatesOf(l)
  PROVE  /\ Begins(s) \in Seq(Positions)
         /\ \A p \in Positions \ s.covered : (isDist => p <= FirstNc(s) + params.distLimit) =>
              \E i \in 1..Len(Begins(s)) : Begins(s)[i] = p
<1> DEFINE first == FirstNc(s)
           maxRight == MaxRight(s)
           begin == s.begin
           end == s.end
           right == RightOf(s)
           left == LeftOf(s)
<1>1. NumWords \in Nat /\ params.distLimit \in Int
  BY SentenceOK DEF DataOK, DecoderParams
<1>2. first \in Nat /\ first < NumWords /\ 0..(first - 1) \subseteq s.covered
  BY <1>1, FirstNcProps DEF Positions
<1>3. /\ begin \in Int /\ end \in Int /\ -1 <= begin /\ begin <= end /\ end < NumWords
      /\ (begin..end) \cap Positions \subseteq s.covered
  BY <1>1 DEF StatesOf, States
<1>4. ASSUME NEW p \in Positions \ s.covered
      PROVE  p \in Nat /\ p < NumWords /\ first <= p /\ (p < begin \/ end < p)
  <2>1. p \in Nat /\ p < NumWords
    BY <1>1 DEF Positions
  <2>2. p \notin begin..end /\ p \notin 0..(first - 1)
    BY <1>2, <1>3
  <2>3. QED
    BY <1>2, <1>3, <2>1, <2>2
<1>5. /\ maxRight \in Int /\ maxRight <= NumWords - 1
      /\ \A p \in Positions : (isDist => p <= first + params.distLimit) => p <= maxRight
  BY <1>1, <1>2 DEF MaxRight, MinOf, Positions
<1>6. right = [i \in FirstOf(maxRight - end) |-> end + i] /\ left = [i \in FirstOf(begin - first) |-> begin - i]
  BY DEF RightOf, LeftOf
<1> HIDE DEF first, maxRight, begin, end, right, left
<1>7. PICK r \in Nat : /\ FirstOf(maxRight - end) = 1..r
                       /\ (maxRight - end > 0 => r = maxRight - end) /\ (maxRight - end <= 0 => r = 0)
  <2> DEFINE d == maxRight - end
  <2>1. d \in Int
    BY <1>3, <1>5
  <2> HIDE DEF d
  <2>2. \E m \in Nat : FirstOf(d) = 1..m /\ (d > 0 => m = d) /\ (d <= 0 => m = 0)
    BY <2>1, FirstOfProps
  <2>3. QED
    BY <2>2 DEF d
<1>8. PICK m \in Nat : /\ FirstOf(begin - first) = 1..m
                       /\ (begin - first > 0 => m = begin - first) /\ (begin - first <= 0 => m = 0)
  <2> DEFINE d == begin - first
  <2>1. d \in Int
    BY <1>2, <1>3
  <2> HIDE DEF d
  <2>2. \E k \in Nat : FirstOf(d) = 1..k /\ (d > 0 => k = d) /\ (d <= 0 => k = 0)
    BY <2>1, FirstOfProps
  <2>3. QED
    BY <2>2 DEF d
<1>9. right \in Seq(Positions) /\ Len(right) = r /\ \A i \in 1..r : right[i] = end + i
  <2>1. \A i \in 1..r : end + i \in Positions
    BY <1>1, <1>3, <1>5, <1>7 DEF Positions
  <2>2. right \in [1..r -> Positions] /\ \A i \in 1..r : right[i] = end + i
    BY <1>6, <1>7, <2>1
  <2>3. QED
    BY <2>2, SeqOfFunction
<1>10. left \in Seq(Positions) /\ Len(left) = m /\ \A i \in 1..m : left[i] = begin - i
  <2>1. \A i \in 1..m : begin - i \in Positions
    BY <1>1, <1>2, <1>3, <1>8 DEF Positions
  <2>2. left \in [1..m -> Positions] /\ \A i \in 1..m : left[i] = begin - i
    BY <1>6, <1>8, <2>1
  <2>3. QED
    BY <2>2, SeqOfFunction
<1>11. Begins(s) = right \o left
  BY DEF Begins, right, left
<1>12. /\ right \o left \in Seq(Positions) /\ Len(right \o left) = r + m
       /\ \A i \in 1..r : (right \o left)[i] = right[i]
       /\ \A i \in 1..m : (right \o left)[r + i] = left[i]
  <2> HIDE DEF Positions
  <2>1. QED
    BY <1>9, <1>10
<1>13. ASSUME NEW p \in Positions \ s.covered, isDist => p <= first + params.distLimit
       PROVE  \E i \in 1..Len(Begins(s)) : Begins(s)[i] = p
  <2>0. p \in Nat /\ first <= p /\ (p < begin \/ end < p) /\ p <= maxRight
    BY <1>4, <1>5, <1>13
  <2>1. CASE end < p
    <3>1. p - end \in 1..r
      BY <1>3, <1>5, <1>7, <2>0, <2>1
    <3>2. right[p - end] = p
      BY <1>3, <1>9, <2>0, <3>1
    <3>3. p - end \in 1..r + m
      BY <3>1
    <3>4. QED
      BY <1>11, <1>12, <3>1, <3>2, <3>3
  <2>2. CASE p < begin
    <3>1. begin - p \in 1..m
      BY <1>2, <1>3, <1>8, <2>0, <2>2
    <3>2. left[begin - p] = p
      BY <1>3, <1>10, <2>0, <3>1
    <3>3. r + (begin - p) \in 1..r + m
      BY <3>1
    <3>4. QED
      BY <1>11, <1>12, <3>1, <3>2, <3>3
  <2>3. QED
    BY <2>0, <2>1, <2>2
<1>14. QED
  BY <1>11, <1>12, <1>13 DEF first

\* expand_from_first_non_covered makes states of higher levels, one of the next.
LEMMA StatesAfterOK ==
  ASSUME HashIsNat, DataOK, NEW l \in Nat, l < NumWords, NEW s \in StatesOf(l)
  PROVE  /\ StatesAfter(s) \in Seq(AllStates)
         /\ (isDist => params.distLimit >= 0) =>
              \E i \in 1..Len(StatesAfter(s)) : StatesAfter(s)[i].level = l + 1
<1> DEFINE begins == Begins(s)
           n == Len(begins)
           seqs == [i \in 1..n |-> TranslationsFrom(s, begins[i])]
<1>1. StatesAfter(s) = FlattenSeq(seqs)
  BY DEF StatesAfter, Begins, RightOf, LeftOf, MaxRight, FirstNc, FncsFor, Translations, TranslationsFrom
<1>2. begins \in Seq(Positions)
  BY BeginsProps
<1> HIDE DEF begins
<1>3. n \in Nat /\ \A i \in 1..n : begins[i] \in Positions
  BY <1>2, ElementOfSeq
<1>4. \A i \in 1..n : TranslationsFrom(s, begins[i]) \in Seq(AllStates)
  BY <1>3, TranslationsFromOK
<1>5. seqs \in Seq(Seq(AllStates)) /\ Len(seqs) = n /\ \A i \in 1..n : seqs[i] = TranslationsFrom(s, begins[i])
  <2>1. seqs \in [1..n -> Seq(AllStates)] /\ \A i \in 1..n : seqs[i] = TranslationsFrom(s, begins[i])
    BY <1>4
  <2> HIDE DEF seqs
  <2>2. QED
    BY <1>3, <2>1, SeqOfFunction
<1> HIDE DEF seqs
<1>6. FlattenSeq(seqs) \in Seq(AllStates)
  BY <1>5, FlattenProps
<1>7. ASSUME isDist => params.distLimit >= 0
      PROVE  \E i \in 1..Len(FlattenSeq(seqs)) : FlattenSeq(seqs)[i].level = l + 1
  <2>2. FirstNc(s) \in Positions /\ FirstNc(s) \notin s.covered
    BY FirstNcProps
  <2>0. isDist => FirstNc(s) <= FirstNc(s) + params.distLimit
    BY <1>7, <2>2, SentenceOK DEF DataOK, DecoderParams, Positions
  <2>1. PICK i \in 1..n : begins[i] = FirstNc(s)
    BY <2>0, <2>2, BeginsProps DEF begins
  <2>a. \E j \in 1..Len(TranslationsFrom(s, begins[i])) : TranslationsFrom(s, begins[i])[j].level = l + 1
    BY <2>1, <2>2, TranslationsFromOK
  <2>3. PICK j \in 1..Len(seqs[i]) : seqs[i][j].level = l + 1
    BY <1>5, <2>a
  <2>4. \A k \in 1..Len(seqs) : \A h \in 1..Len(seqs[k]) :
          \E e \in 1..Len(FlattenSeq(seqs)) : FlattenSeq(seqs)[e] = seqs[k][h]
    BY <1>5, FlattenProps
  <2>5. i \in 1..Len(seqs)
    BY <1>5
  <2>6. PICK e \in 1..Len(FlattenSeq(seqs)) : FlattenSeq(seqs)[e] = seqs[i][j]
    BY <2>3, <2>4, <2>5
  <2>7. QED
    BY <2>3, <2>6
<1>8. QED
  BY <1>1, <1>6, <1>7

\* What expand makes of a state of level l.
LEMMA NewStatesOK ==
  ASSUME HashIsNat, DataOK, NEW l \in Nat, l <= NumWords, NEW s \in StatesOf(l)
  PROVE  /\ NewStates(s) \in Seq(AllStates)
         /\ (isDist => params.distLimit >= 0) =>
              \E i \in 1..Len(NewStates(s)) : NewStates(s)[i].level = l + 1
<1>1. NumWords \in Nat
  BY SentenceOK DEF DataOK
<1>2. Cardinality(s.covered) = l
  BY <1>1 DEF StatesOf, MinOf
<1>3. CASE l = NumWords
  <2>1. NewStates(s) = <<EndState(s)>>
    BY <1>2, <1>3 DEF NewStates
  <2>2. EndState(s) \in StatesOf(NumWords + 1)
    BY <1>3, EndStateOK
  <2>3. EndState(s).level = NumWords + 1
    BY <2>2 DEF StatesOf
  <2>4. EndState(s) \in AllStates
    BY <1>1, <2>2 DEF AllStates
  <2> DEFINE new == EndState(s)
  <2> HIDE DEF new
  <2>5. <<new>> \in Seq(AllStates) /\ Len(<<new>>) = 1 /\ <<new>>[1] = new
    BY <2>4 DEF new
  <2>6. 1 \in 1..1
    OBVIOUS
  <2>7. QED
    BY <1>3, <2>1, <2>3, <2>5, <2>6 DEF new
<1>4. CASE l # NumWords
  <2>1. NewStates(s) = StatesAfter(s) /\ l < NumWords
    BY <1>1, <1>2, <1>4 DEF NewStates
  <2>2. QED
    BY <2>1, StatesAfterOK
<1>5. QED
  BY <1>3, <1>4

-----------------------------------------------------------------------------
(* The stack                                                                 *)

\* The parameters are usable.
CapacityOK == ParamsOK(params) /\ params.capacity \in Capacities

\* What all states of the stack are.
LEMMA StateFacts ==
  ASSUME DataOK
  PROVE  /\ \A l : \A s \in StatesOf(l) : s.total \in Int /\ s.level = l
         /\ \A l \in 0..(NumWords + 1) : StatesOf(l) \subseteq AllStates
         /\ \A s \in AllStates : s.level \in 0..(NumWords + 1) /\ s \in StatesOf(s.level)
  BY SMTT(30) DEF StatesOf, States, AllStates

\* The level of a state stays in order when it is given the state.
LEMMA LevelAdds ==
  ASSUME DataOK, CapacityOK, NEW l \in 0..(NumWords + 1), NEW level, LevelOK(level, l), NEW s \in StatesOf(l)
  PROVE  LevelOK(AddState(level, s, params), l) /\ AddState(level, s, params).states # <<>>
<1> DEFINE S == StatesOf(l)
           new == AddState(level, s, params)
<1>1. \A x \in S : x.total \in Int
  BY StateFacts
<1>2. level \in [states : Seq(S), bound : Int] /\ Shaped(level)
  BY DEF LevelOK, Shaped
<1>3. ParamsOK(params) /\ params.capacity \in Capacities
  BY DEF CapacityOK
<1>4. s \in S
  OBVIOUS
<1> HIDE DEF S
<1>5. /\ new \in [states : Seq(S), bound : Int] /\ Shaped(new) /\ new.states # <<>>
      /\ Len(new.states) <= params.capacity \/ new = level
  BY <1>1, <1>2, <1>3, <1>4, AddStateShape
<1> HIDE DEF new
<1>6. \E capacity \in Capacities : Len(new.states) <= capacity
  BY <1>3, <1>5 DEF LevelOK
<1>7. LevelOK(new, l)
  BY <1>5, <1>6 DEF LevelOK, Shaped, S
<1>8. QED
  BY <1>5, <1>7 DEF new

\* The stack with one state more, as AddStates adds it.
StackWith(ls, s) == [ls EXCEPT ![s.level] = AddState(@, s, params)]
\* It is a stack, and only the level of the state has changed.
LEMMA StackAdds ==
  ASSUME DataOK, CapacityOK, NEW ls \in Stacks, NEW s \in AllStates
  PROVE  LET new == StackWith(ls, s)
         IN /\ new \in Stacks /\ new[s.level].states # <<>>
            /\ new[s.level] = AddState(ls[s.level], s, params)
            /\ \A l \in 0..(NumWords + 1) : l # s.level => new[l] = ls[l]
<1> DEFINE k == s.level
           added == AddState(ls[k], s, params)
           new == StackWith(ls, s)
           D == 0..(NumWords + 1)
           V == [states : Seq(AllStates), bound : Int]
<1>1. k \in D /\ s \in StatesOf(k) /\ StatesOf(k) \subseteq AllStates
  BY StateFacts
<1>2. ls \in [D -> V] /\ \A l \in D : LevelOK(ls[l], l)
  BY DEF Stacks
<1>3. LevelOK(added, k) /\ added.states # <<>>
  BY <1>1, <1>2, LevelAdds
<1>4. added \in V
  <2>1. added \in [states : Seq(StatesOf(k)), bound : Int]
    BY <1>3 DEF LevelOK
  <2>2. Seq(StatesOf(k)) \subseteq Seq(AllStates)
    BY <1>1
  <2> HIDE DEF added
  <2>3. QED
    BY <2>1, <2>2
<1>5. new = [ls EXCEPT ![k] = added]
  BY DEF StackWith
<1> HIDE DEF k, added, D, V, new
<1>6. new \in [D -> V] /\ new[k] = added /\ \A l \in D : l # k => new[l] = ls[l]
  BY <1>1, <1>2, <1>4, <1>5
<1>7. \A l \in D : LevelOK(new[l], l)
  BY <1>2, <1>3, <1>6
<1>8. new \in Stacks
  BY <1>6, <1>7 DEF Stacks, D, V
<1>9. QED
  BY <1>3, <1>6, <1>8 DEF k, new, added, D

\* What the stack is given, state by state.
GivenTo(given, states, k, l) == given[l] \cup {states[i] : i \in {j \in 1..k : states[j].level = l}}

\* add_stack_state for a list of states.
LEMMA AddStatesOK ==
  ASSUME DataOK, CapacityOK, NEW stack \in Stacks, NEW states \in Seq(AllStates)
  PROVE  /\ AddStates(stack, states, params) \in Stacks
         /\ \A l \in 0..(NumWords + 1) :
              stack[l].states # <<>> => AddStates(stack, states, params)[l].states # <<>>
         /\ \A i \in 1..Len(states) :
              AddStates(stack, states, params)[states[i].level].states # <<>>
<1> DEFINE n == Len(states)
           D == 0..(NumWords + 1)
<1>1. n \in Nat /\ \A i \in 1..n : states[i] \in AllStates
  BY ElementOfSeq
<1>2. \A ls \in Stacks, s \in AllStates : [ls EXCEPT ![s.level] = AddState(@, s, params)] \in Stacks
  <2>1. \A ls \in Stacks, s \in AllStates : StackWith(ls, s) \in Stacks
    BY StackAdds
  <2>2. QED
    BY <2>1 DEF StackWith
<1>3. PICK after : IsAdded(Stacks, stack, states, params, after)
  BY <1>2, AddStatesUnfold
<1>4. after \in [0..n -> Stacks] /\ after[0] = stack /\ AddStates(stack, states, params) = after[n]
  BY <1>3 DEF IsAdded
<1> DEFINE Good(k) == /\ \A l \in D : stack[l].states # <<>> => after[k][l].states # <<>>
                      /\ \A i \in 1..k : after[k][states[i].level].states # <<>>
           P == {k \in 0..n : Good(k)}
<1>5. IsRangeInductive(0, n, P)
  <2>1. ASSUME NEW k \in 0..n, k = 0 \/ k - 1 \in P PROVE Good(k)
    <3>1. CASE k = 0
      <4>1. 1..k = {}
        BY <3>1
      <4>2. QED
        BY <1>4, <3>1, <4>1
    <3>2. CASE k # 0
      <4> DEFINE s == states[k]
                 old == after[k - 1]
      <4>1. k - 1 \in 0..n /\ k \in 1..n /\ Good(k - 1)
        BY <1>1, <2>1, <3>2
      <4>2. old \in Stacks /\ s \in AllStates
        BY <1>1, <1>4, <4>1
      <4>3. after[k] = StackWith(old, s)
        BY <1>3, <4>1 DEF IsAdded, StackWith
      <4>4. /\ after[k][s.level].states # <<>>
            /\ \A l \in D : l # s.level => after[k][l] = old[l]
        <5> HIDE DEF old, s
        <5>1. QED
          BY <4>2, <4>3, StackAdds
      <4>5. \A i \in 1..k : states[i].level \in D
        BY <1>1, StateFacts
      <4> HIDE DEF old
      <4>6. ASSUME NEW i \in 1..k PROVE after[k][states[i].level].states # <<>>
        <5>1. CASE states[i].level = s.level
          BY <4>4, <5>1
        <5>2. CASE states[i].level # s.level
          <6>1. i \in 1..(k - 1)
            BY <4>1, <5>2
          <6>2. QED
            BY <4>1, <4>4, <4>5, <5>2, <6>1 DEF old
        <5>3. QED
          BY <5>1, <5>2
      <4>7. ASSUME NEW l \in D, stack[l].states # <<>> PROVE after[k][l].states # <<>>
        <5>1. CASE l = s.level
          BY <4>4, <5>1
        <5>2. CASE l # s.level
          BY <4>1, <4>4, <4>7, <5>2 DEF old
        <5>3. QED
          BY <5>1, <5>2
      <4>8. QED
        BY <4>6, <4>7
    <3>3. QED
      BY <3>1, <3>2
  <2> HIDE DEF Good
  <2>2. QED
    BY <1>1, <2>1 DEF IsRangeInductive
<1>6. n \in P
  <2>1. 0..n \subseteq P
    BY <1>5, RangeInduction
  <2>2. QED
    BY <1>1, <2>1
<1>7. QED
  BY <1>1, <1>4, <1>6

\* The beam loses nothing that it should keep while a list is added.
LEMMA AddStatesKeep ==
  ASSUME DataOK, CapacityOK, NEW stack \in Stacks, NEW states \in Seq(AllStates), NEW given,
         \A l \in 0..(NumWords + 1) : given[l] \subseteq StatesOf(l) /\ Keeps(stack[l], given[l], params)
  PROVE  \A l \in 0..(NumWords + 1) :
           /\ given[l] \cup {s \in ToSet(states) : s.level = l} \subseteq StatesOf(l)
           /\ Keeps(AddStates(stack, states, params)[l],
                    given[l] \cup {s \in ToSet(states) : s.level = l}, params)
<1> DEFINE n == Len(states)
           D == 0..(NumWords + 1)
<1>1. n \in Nat /\ \A i \in 1..n : states[i] \in AllStates
  BY ElementOfSeq
<1>2. \A ls \in Stacks, s \in AllStates : [ls EXCEPT ![s.level] = AddState(@, s, params)] \in Stacks
  <2>1. \A ls \in Stacks, s \in AllStates : StackWith(ls, s) \in Stacks
    BY StackAdds
  <2>2. QED
    BY <2>1 DEF StackWith
<1>3. PICK after : IsAdded(Stacks, stack, states, params, after)
  BY <1>2, AddStatesUnfold
<1>4. after \in [0..n -> Stacks] /\ after[0] = stack /\ AddStates(stack, states, params) = after[n]
  BY <1>3 DEF IsAdded
<1>5. \A k \in 0..n : \A l \in D : GivenTo(given, states, k, l) \subseteq StatesOf(l)
  <2>1. ASSUME NEW k \in 0..n, NEW l \in D, NEW i \in 1..k, states[i].level = l PROVE states[i] \in StatesOf(l)
    <3>1. i \in 1..n
      BY <1>1
    <3>2. QED
      BY <1>1, <2>1, <3>1, StateFacts
  <2>2. QED
    BY <2>1 DEF GivenTo
<1> DEFINE Good(k) == \A l \in D : Keeps(after[k][l], GivenTo(given, states, k, l), params)
           P == {k \in 0..n : Good(k)}
<1>6. IsRangeInductive(0, n, P)
  <2>1. ASSUME NEW k \in 0..n, k = 0 \/ k - 1 \in P PROVE Good(k)
    <3>1. CASE k = 0
      <4>1. \A l \in D : GivenTo(given, states, 0, l) = given[l]
        BY DEF GivenTo
      <4>2. QED
        BY <1>4, <3>1, <4>1
    <3>2. CASE k # 0
      <4> DEFINE s == states[k]
                 old == after[k - 1]
                 m == s.level
      <4>1. k - 1 \in 0..n /\ k \in 1..n /\ Good(k - 1)
        BY <1>1, <2>1, <3>2
      <4>2. old \in Stacks /\ s \in AllStates
        BY <1>1, <1>4, <4>1
      <4>3. after[k] = StackWith(old, s)
        BY <1>3, <4>1 DEF IsAdded, StackWith
      <4>4. /\ after[k][m] = AddState(old[m], s, params)
            /\ \A l \in D : l # m => after[k][l] = old[l]
        <5> HIDE DEF old, s
        <5>1. QED
          BY <4>2, <4>3, StackAdds
      <4>5. m \in D /\ s \in StatesOf(m)
        BY <4>2, StateFacts
      <4>6. GivenTo(given, states, k, m) = GivenTo(given, states, k - 1, m) \cup {s}
        <5>1. \A j : j \in 1..k <=> j \in 1..(k - 1) \/ j = k
          BY <4>1
        <5>2. QED
          BY <5>1 DEF GivenTo
      <4>7. \A l \in D : l # m => GivenTo(given, states, k, l) = GivenTo(given, states, k - 1, l)
        <5>1. \A j : j \in 1..k <=> j \in 1..(k - 1) \/ j = k
          BY <4>1
        <5>2. QED
          BY <5>1 DEF GivenTo
      <4>8. Keeps(after[k][m], GivenTo(given, states, k, m), params)
        <5> DEFINE S == StatesOf(m)
                   was == GivenTo(given, states, k - 1, m)
        <5>1. \A x \in S : x.total \in Int
          BY StateFacts
        <5>2. old[m] \in [states : Seq(S), bound : Int]
          BY <4>2, <4>5 DEF Stacks, LevelOK
        <5>3. was \in SUBSET S
          BY <1>5, <4>1, <4>5
        <5>4. Keeps(old[m], was, params) /\ ParamsOK(params) /\ s \in S
          BY <4>1, <4>5 DEF CapacityOK
        <5> HIDE DEF S, was, old, s, m
        <5>5. Keeps(AddState(old[m], s, params), was \cup {s}, params)
          BY <5>1, <5>2, <5>3, <5>4, AddStateKeeps
        <5>6. QED
          BY <4>4, <4>6, <5>5 DEF was
      <4>9. ASSUME NEW l \in D, l # m PROVE Keeps(after[k][l], GivenTo(given, states, k, l), params)
        BY <4>1, <4>4, <4>7, <4>9
      <4>10. QED
        BY <4>8, <4>9
    <3>3. QED
      BY <3>1, <3>2
  <2> HIDE DEF Good
  <2>2. QED
    BY <1>1, <2>1 DEF IsRangeInductive
<1>7. n \in P
  <2>1. 0..n \subseteq P
    BY <1>6, RangeInduction
  <2>2. QED
    BY <1>1, <2>1
<1>8. \A l \in D : GivenTo(given, states, n, l) = given[l] \cup {s \in ToSet(states) : s.level = l}
  <2>1. ToSet(states) = {states[i] : i \in 1..n}
    BY <1>1 DEF ToSet
  <2>2. QED
    BY <2>1 DEF GivenTo
<1>9. n \in 0..n
  BY <1>1
<1>10. QED
  BY <1>4, <1>5, <1>7, <1>8, <1>9

\* The sets that the invariant is about depend on nothing that the search changes.
LEMMA StatesStay ==
  ASSUME inst' = inst, sentData' = sentData
  PROVE  /\ NumWords' = NumWords /\ Positions' = Positions /\ Spans' = Spans
         /\ Capacities' = Capacities
         /\ QueriedUids' = QueriedUids
         /\ \A l : StatesOf(l)' = StatesOf(l)
<1>1. NumWords' = NumWords
  BY DEF NumWords
<1>2. Positions' = Positions /\ Spans' = Spans
  BY <1>1 DEF Positions, Spans
<1>3. Capacities' = Capacities
  BY DEF Capacities, NewValue
<1>4. QueriedUids' = QueriedUids
  BY <1>2 DEF QueriedUids
<1>5. Phrases' = Phrases
  BY <1>2 DEF Phrases, Length
<1>6. States' = States
  BY <1>2, <1>5 DEF States
<1>7. \A l : StatesOf(l)' = StatesOf(l)
  BY <1>1, <1>2, <1>6 DEF StatesOf, CoveredBy, DisjointSpans, MinOf
<1>8. QED
  BY <1>1, <1>2, <1>3, <1>4, <1>7

\* Nor do the stacks.
LEMMA StacksStay ==
  ASSUME inst' = inst, sentData' = sentData
  PROVE  /\ AllStates' = AllStates /\ Stacks' = Stacks
<1>1. AllStates' = AllStates
  BY StatesStay DEF AllStates
<1>2. \A x, l : LevelOK(x, l)' = LevelOK(x, l)
  BY StatesStay DEF LevelOK, Sorted, Distinct, SameSubproblem
<1>3. Stacks' = Stacks
  BY <1>1, <1>2, StatesStay DEF Stacks
<1>4. QED
  BY <1>1, <1>3

\* The stack is left alone by whoever leaves it alone.
LEMMA LevelsStay ==
  ASSUME LevelsOK, inst' = inst, sentData' = sentData,
         UNCHANGED <<levels, offered, currLevel, currPos>>,
         commands' = 0 => commands = 0 /\ params' = params
  PROVE  LevelsOK'
  BY StatesStay, StacksStay DEF LevelsOK, Keeps, Kept, StoodFor, Sorted, Distinct, SameSubproblem, BoundOf

\* And the results of the queries.
LEMMA QueriesStay ==
  ASSUME UNCHANGED <<tableVars, sentData, future, rmQuery>>
  PROVE  /\ SentDataOK' = SentDataOK
         /\ (future \in [Spans -> Int])' = (future \in [Spans -> Int])
         /\ (rmQuery \in [QueriedUids -> Weights])' = (rmQuery \in [QueriedUids -> Weights])
<1>1. inst' = inst /\ tmData' = tmData
  BY DEF tableVars
<1>2. Spans' = Spans /\ QueriedUids' = QueriedUids
  BY <1>1, StatesStay
<1>3. SentDataOK' = SentDataOK
  BY <1>1, <1>2 DEF SentDataOK, Length, GetSourceEntry, KnownSource, SourcePhrase, UnkEntry, SourceEntry
<1>4. QED
  BY <1>2, <1>3

-----------------------------------------------------------------------------
(* The steps before the search                                               *)

\* The decoder begins in the invariant.
LEMMA InitDecoder == Init => DecoderInv /\ LevelsReached
<1> SUFFICES ASSUME Init PROVE DecoderInv /\ LevelsReached
  OBVIOUS
<1>1. TablesInv
  BY InitTables DEF Init
<1>2. InstanceFields(inst)
  BY <1>1, SentenceOK
<1>3. /\ pc = "idle" /\ isStop = FALSE /\ commands = 0 /\ isDist = FALSE /\ limitDropped = FALSE
      /\ params = inst.params
      /\ levels = <<>> /\ result = NoResult
  BY DEF Init
<1>4. ControlOK
  <2>1. 0 \in 0..MaxConsoleCommands
    BY BoundsType
  <2>2. ~Decoding
    BY <1>3 DEF Decoding
  <2>3. result.kind = "none"
    BY <1>3 DEF NoResult
  <2>4. QED
    BY <1>3, <2>1, <2>2, <2>3 DEF ControlOK
<1>5. ParamsInv
  BY <1>2, <1>3 DEF ParamsInv, InstanceFields, Capacities
<1>6. QueriesOK /\ ~Decoding /\ LevelsReached
  BY <1>3 DEF QueriesOK, Decoding, LevelsReached
<1>7. QED
  BY <1>1, <1>4, <1>5, <1>6 DEF DecoderInv

\* What an action needs that changes neither the tables nor the parameters.
LEMMA ParamsStay ==
  ASSUME ParamsInv, inst' = inst, params' = params, commands' = commands
  PROVE  ParamsInv'
  BY DEF ParamsInv, Capacities, NewValue

\* The models are loaded while the decoder is idle.
LEMMA LoadTablesStep ==
  ASSUME HashIsNat, DecoderInv, LoadTables
  PROVE  DecoderInv'
<1>1. TablesInv' /\ UNCHANGED decoderVars
  BY TablesStep DEF DecoderInv, LoadTables
<1>2. phase # "ready" /\ inst' = inst
  BY DEF LoadTables, TablesNext, ReadTmLine, SetTmEntries, ConvertEntry, StartCounting,
         CountRmLine, SetRmEntries, BuildRmLine, FindSpecialEntries
<1>3. pc = "idle" /\ pc' = "idle" /\ levels' = <<>>
  BY <1>1, <1>2 DEF DecoderInv, ControlOK, decoderVars
<1>4. ~Decoding' /\ QueriesOK'
  BY <1>3 DEF Decoding, QueriesOK
<1>5. ControlOK'
  BY <1>1, <1>3, <1>4 DEF DecoderInv, ControlOK, decoderVars, NoResult
<1>6. ParamsInv'
  BY <1>1, <1>2, ParamsStay DEF DecoderInv, decoderVars
<1>7. QED
  BY <1>1, <1>4, <1>5, <1>6 DEF DecoderInv

\* translate() takes the sentence or refuses it.
LEMMA TranslateStep ==
  ASSUME DecoderInv, Translate
  PROVE  DecoderInv'
<1>1. /\ phase = "ready" /\ pc = "idle" /\ levels' = levels /\ UNCHANGED tableVars /\ isStop' = isStop
      /\ params' = params /\ commands' = commands /\ isDist' = isDist
      /\ limitDropped' = limitDropped
  BY DEF Translate
<1>2. inst' = inst /\ phase' = phase /\ NumWords' = NumWords
  BY <1>1 DEF tableVars, NumWords
<1>3. levels' = <<>>
  BY <1>1 DEF DecoderInv, ControlOK
<1>4. \/ pc' = "query_tm" /\ result' = result /\ NumWords \in 1..MaxWords
      \/ pc' = "done" /\ result' = [kind |-> "failed", path |-> <<>>]
  BY DEF Translate, Ended
<1>5. TablesInv' /\ ParamsInv'
  BY <1>1, <1>2, TablesStay, ParamsStay DEF DecoderInv
<1>6. ~Decoding' /\ QueriesOK'
  BY <1>3, <1>4 DEF Decoding, QueriesOK
<1>7. ControlOK'
  <2>1. CASE pc' = "query_tm" /\ result' = result /\ NumWords \in 1..MaxWords
    BY <1>1, <1>2, <1>3, <1>6, <2>1 DEF DecoderInv, ControlOK, NoResult
  <2>2. CASE pc' = "done" /\ result' = [kind |-> "failed", path |-> <<>>]
    BY <1>1, <1>2, <1>3, <1>6, <2>2 DEF DecoderInv, ControlOK, NoResult
  <2>3. QED
    BY <1>4, <2>1, <2>2
<1>8. QED
  BY <1>5, <1>6, <1>7 DEF DecoderInv

\* A decoder that is stopped returns between two phases.
LEMMA StoppedStep ==
  ASSUME DecoderInv, Stopped
  PROVE  DecoderInv'
<1>1. /\ pc \in {"future", "query_rm", "perform"} /\ levels' = levels /\ UNCHANGED tableVars
      /\ isStop' = isStop /\ params' = params /\ commands' = commands /\ isDist' = isDist
      /\ limitDropped' = limitDropped
      /\ pc' = "done" /\ result' = [kind |-> "empty", path |-> <<>>]
  BY DEF Stopped, Ended
<1>2. inst' = inst /\ phase' = phase
  BY <1>1 DEF tableVars
<1>3. levels' = <<>>
  BY <1>1 DEF DecoderInv, ControlOK
<1>4. TablesInv' /\ ParamsInv'
  BY <1>1, <1>2, TablesStay, ParamsStay DEF DecoderInv
<1>5. ~Decoding' /\ QueriesOK'
  BY <1>1, <1>3 DEF Decoding, QueriesOK
<1>6. ControlOK'
  BY <1>1, <1>2, <1>3, <1>5 DEF DecoderInv, ControlOK, NoResult
<1>7. QED
  BY <1>4, <1>5, <1>6 DEF DecoderInv

\* The query finds an entry for every span that is short enough.
LEMMA QueryTranslationModelStep ==
  ASSUME DecoderInv, QueryTranslationModel
  PROVE  DecoderInv'
<1>1. /\ pc = "query_tm" /\ levels' = levels /\ UNCHANGED tableVars
      /\ isStop' = isStop /\ params' = params /\ commands' = commands /\ isDist' = isDist
      /\ limitDropped' = limitDropped
      /\ pc' = "future" /\ result' = result
      /\ sentData' = [s \in Spans |-> IF Length(s) <= inst.maxPhraseLen
                                      THEN GetSourceEntry(SourcePhrase(s)) ELSE NoElement]
  BY DEF QueryTranslationModel
<1>2. inst' = inst /\ phase' = phase /\ NumWords' = NumWords /\ tmData' = tmData
  BY <1>1 DEF tableVars, NumWords
<1>3. levels' = <<>>
  BY <1>1 DEF DecoderInv, ControlOK
<1>4. TablesInv' /\ ParamsInv'
  BY <1>1, <1>2, TablesStay, ParamsStay DEF DecoderInv
<1>5. SentDataOK'
  <2>1. Spans' = Spans
    BY <1>2 DEF Spans, Positions
  <2>2. QED
    BY <1>1, <1>2, <2>1
       DEF SentDataOK, Length, GetSourceEntry, KnownSource, SourcePhrase, UnkEntry, SourceEntry
<1>6. ~Decoding' /\ QueriesOK'
  BY <1>1, <1>3, <1>5 DEF Decoding, QueriesOK
<1>7. ControlOK'
  BY <1>1, <1>2, <1>3, <1>6 DEF DecoderInv, ControlOK, NoResult
<1>8. QED
  BY <1>4, <1>6, <1>7 DEF DecoderInv

\* The cost of a span, if h are those of the shorter ones.
CostOf(s, h) ==
  MaxSetOf({InitialCost(s)} \cup {h[<<s[1], m>>] + h[<<m + 1, s[2]>>] : m \in s[1]..(s[2] - 1)})
\* h is what the recursive definition of ComputeFutureCosts asks for.
IsCost(h) == h = [s \in Spans |-> CostOf(s, h)]

\* A span is cut into shorter ones.
LEMMA PartsShorter ==
  ASSUME TablesInv, NEW s \in Spans, NEW m \in s[1]..(s[2] - 1)
  PROVE  /\ <<s[1], m>> \in Spans /\ Length(<<s[1], m>>) < Length(s)
         /\ <<m + 1, s[2]>> \in Spans /\ Length(<<m + 1, s[2]>>) < Length(s)
<1>1. /\ s[1] \in Nat /\ s[2] \in Nat /\ s[1] <= s[2] /\ s[2] < NumWords /\ NumWords \in Nat
  BY SentenceOK
<1>2. m \in Nat /\ s[1] <= m /\ m < s[2]
  BY <1>1
<1>3. QED
  BY <1>1, <1>2 DEF Spans, Positions, Length

\* The best cutting of a span costs an integer if its parts do.
LEMMA CostOfType ==
  ASSUME HashIsNat, TablesInv, SentDataOK, NEW s \in Spans, NEW h,
         \A m \in s[1]..(s[2] - 1) : h[<<s[1], m>>] \in Int /\ h[<<m + 1, s[2]>>] \in Int
  PROVE  CostOf(s, h) \in Int
<1> DEFINE D == s[1]..(s[2] - 1)
           f == [m \in D |-> h[<<s[1], m>>] + h[<<m + 1, s[2]>>]]
           parts == {f[m] : m \in D}
           costs == parts \cup {InitialCost(s)}
<1>1. IsFiniteSet(D) /\ Length(s) \in Nat /\ inst.maxPhraseLen \in Nat
  BY SentenceOK, FS_Interval
<1>2. InitialCost(s) \in Int
  <2>1. sentData[s] = NoElement \/ sentData[s] \in Entries
    BY <1>1, SentDataType
  <2>2. QED
    BY <2>1 DEF InitialCost, Entries, UnknownCost
<1>3. parts \subseteq Int
  <2>1. \A m \in D : f[m] \in Int
    OBVIOUS
  <2> HIDE DEF f
  <2>2. QED
    BY <2>1
<1>4. CostOf(s, h) = MaxSetOf(costs)
  <2>1. {InitialCost(s)} \cup {h[<<s[1], m>>] + h[<<m + 1, s[2]>>] : m \in D} = costs
    OBVIOUS
  <2>2. QED
    BY <2>1 DEF CostOf
<1> HIDE DEF f
<1>5. IsFiniteSet(parts)
  <2> HIDE DEF D
  <2>1. QED
    BY <1>1, FiniteImage
<1> HIDE DEF parts
<1>6. IsFiniteSet(costs) /\ costs # {} /\ costs \subseteq Int
  BY <1>2, <1>3, <1>5, FS_AddElement
<1> HIDE DEF costs
<1>7. MaxSetOf(costs) \in Int
  BY <1>6, FiniteMax
<1>8. QED
  BY <1>4, <1>7

\* The recursion has a solution, and every span an integer future cost.
LEMMA CostsType ==
  ASSUME HashIsNat, TablesInv, SentDataOK
  PROVE  (CHOOSE h : IsCost(h)) \in [Spans -> Int] /\ \E h : IsCost(h)
<1> DEFINE V == Int
           n == NumWords
           rank == [s \in Spans |-> Length(s)]
           step == [p \in Spans \X [Spans -> V] |-> CostOf(p[1], p[2])]
<1>1. n \in Nat /\ rank \in [Spans -> 0..n]
  <2>1. \A s \in Spans : Length(s) \in 0..n
    BY SentenceOK DEF Length
  <2>2. QED
    BY <2>1, SentenceOK
<1>2. ASSUME NEW s \in Spans, NEW m \in s[1]..(s[2] - 1)
      PROVE  /\ <<s[1], m>> \in Spans /\ rank[<<s[1], m>>] < rank[s]
             /\ <<m + 1, s[2]>> \in Spans /\ rank[<<m + 1, s[2]>>] < rank[s]
  <2>1. /\ <<s[1], m>> \in Spans /\ Length(<<s[1], m>>) < Length(s)
        /\ <<m + 1, s[2]>> \in Spans /\ Length(<<m + 1, s[2]>>) < Length(s)
    BY PartsShorter
  <2>2. \A t \in Spans : rank[t] = Length(t)
    OBVIOUS
  <2>3. QED
    BY <2>1, <2>2
<1> HIDE DEF rank
<1>3. ASSUME NEW s \in Spans, NEW h, \A t \in Spans : rank[t] < rank[s] => h[t] \in Int
      PROVE  CostOf(s, h) \in Int
  <2>1. \A m \in s[1]..(s[2] - 1) : h[<<s[1], m>>] \in Int /\ h[<<m + 1, s[2]>>] \in Int
    BY <1>2, <1>3
  <2>2. QED
    BY <2>1, CostOfType
<1>4. step \in [Spans \X [Spans -> V] -> V]
  <2>1. ASSUME NEW s \in Spans, NEW h \in [Spans -> V] PROVE CostOf(s, h) \in V
    BY <1>3
  <2>2. QED
    BY <2>1
<1>5. ASSUME NEW s \in Spans, NEW g \in [Spans -> V], NEW h \in [Spans -> V],
             \A y \in Spans : rank[y] < rank[s] => g[y] = h[y]
      PROVE  step[<<s, g>>] = step[<<s, h>>]
  <2>1. \A m \in s[1]..(s[2] - 1) :
          g[<<s[1], m>>] = h[<<s[1], m>>] /\ g[<<m + 1, s[2]>>] = h[<<m + 1, s[2]>>]
    BY <1>2, <1>5
  <2>2. {g[<<s[1], m>>] + g[<<m + 1, s[2]>>] : m \in s[1]..(s[2] - 1)}
          = {h[<<s[1], m>>] + h[<<m + 1, s[2]>>] : m \in s[1]..(s[2] - 1)}
    BY <2>1
  <2>3. CostOf(s, g) = CostOf(s, h)
    BY <2>2 DEF CostOf
  <2>4. QED
    BY <2>3
<1>6. IsRecursion(Spans, V, n, rank, step)
  <2> HIDE DEF step
  <2>1. V # {}
    OBVIOUS
  <2> HIDE DEF n, V
  <2>2. QED
    BY <1>1, <1>4, <1>5, <2>1 DEF IsRecursion
<1>7. PICK f \in [Spans -> V] : \A x \in Spans : f[x] = step[<<x, f>>]
  <2> HIDE DEF step, V, n
  <2>1. QED
    BY <1>6, RecursionExists
<1>8. \E h : IsCost(h)
  <2>1. \A x \in Spans : f[x] = CostOf(x, f)
    BY <1>7
  <2>2. f = [s \in Spans |-> CostOf(s, f)]
    BY <1>7, <2>1
  <2>3. QED
    BY <2>2 DEF IsCost
<1> DEFINE cost == CHOOSE h : IsCost(h)
<1>9. IsCost(cost)
  BY <1>8
<1> HIDE DEF cost
<1>10. cost = [s \in Spans |-> CostOf(s, cost)]
  BY <1>9 DEF IsCost
<1>11. \A s \in Spans : cost[s] = CostOf(s, cost)
  BY <1>10
<1> DEFINE P == {s \in Spans : cost[s] \in Int}
<1>12. Spans \subseteq P
  <2>1. rank \in [Spans -> Nat]
    BY <1>1
  <2>2. \A x \in Spans : (\A y \in Spans : rank[y] < rank[x] => y \in P) => x \in P
    BY <1>3, <1>11
  <2> HIDE DEF P
  <2>3. QED
    BY <2>1, <2>2, RankInduction
<1>13. cost \in [Spans -> Int]
  BY <1>10, <1>11, <1>12
<1>14. QED
  BY <1>8, <1>13 DEF cost

\* The future costs are there before they are asked for.
LEMMA ComputeFutureCostsStep ==
  ASSUME HashIsNat, DecoderInv, ComputeFutureCosts
  PROVE  DecoderInv'
<1>1. /\ pc = "future" /\ levels' = levels /\ UNCHANGED tableVars /\ sentData' = sentData
      /\ isStop' = isStop /\ params' = params /\ commands' = commands /\ isDist' = isDist
      /\ limitDropped' = limitDropped
      /\ pc' = "query_rm" /\ result' = result
  BY DEF ComputeFutureCosts
<1>2. future' = CHOOSE h : IsCost(h)
  BY DEF ComputeFutureCosts, IsCost, CostOf
<1>3. inst' = inst /\ phase' = phase /\ NumWords' = NumWords /\ tmData' = tmData
  BY <1>1 DEF tableVars, NumWords
<1>4. levels' = <<>>
  BY <1>1 DEF DecoderInv, ControlOK
<1>5. TablesInv' /\ ParamsInv'
  BY <1>1, <1>3, TablesStay, ParamsStay DEF DecoderInv
<1>6. SentDataOK
  BY <1>1 DEF DecoderInv, QueriesOK
<1>7. SentDataOK'
  <2>1. Spans' = Spans
    BY <1>3 DEF Spans, Positions
  <2>2. QED
    BY <1>1, <1>3, <1>6, <2>1
       DEF SentDataOK, Length, GetSourceEntry, KnownSource, SourcePhrase, UnkEntry, SourceEntry
<1>8. (future \in [Spans -> Int])'
  <2>1. future' \in [Spans -> Int]
    BY <1>2, <1>6, CostsType DEF DecoderInv
  <2>2. QED
    BY <1>1, <1>3, <2>1, StatesStay
<1>9. ~Decoding' /\ QueriesOK'
  BY <1>1, <1>4, <1>7, <1>8 DEF Decoding, QueriesOK
<1>10. ControlOK'
  BY <1>1, <1>3, <1>4, <1>9 DEF DecoderInv, ControlOK, NoResult
<1>11. QED
  BY <1>5, <1>9, <1>10 DEF DecoderInv

\* Every uid that the search will look up has been queried.
LEMMA QueryReorderingModelStep ==
  ASSUME HashIsNat, DecoderInv, QueryReorderingModel
  PROVE  DecoderInv'
<1>1. /\ pc = "query_rm" /\ levels' = levels /\ UNCHANGED tableVars /\ sentData' = sentData
      /\ isStop' = isStop /\ params' = params /\ commands' = commands /\ isDist' = isDist
      /\ limitDropped' = limitDropped
      /\ pc' = "perform" /\ result' = result /\ future' = future
      /\ rmQuery' = [uid \in QueriedUids |-> GetReordering(uid)]
  BY DEF QueryReorderingModel
<1>2. inst' = inst /\ phase' = phase /\ NumWords' = NumWords /\ tmData' = tmData
  BY <1>1 DEF tableVars, NumWords
<1>3. levels' = <<>>
  BY <1>1 DEF DecoderInv, ControlOK
<1>4. TablesInv' /\ ParamsInv'
  BY <1>1, <1>2, TablesStay, ParamsStay DEF DecoderInv
<1>5. SentDataOK /\ future \in [Spans -> Int] /\ phase = "ready" /\ TablesInv
  BY <1>1 DEF DecoderInv, QueriesOK, ControlOK
<1>6. Spans' = Spans /\ QueriedUids' = QueriedUids
  BY <1>1, <1>2, StatesStay
<1>7. SentDataOK'
  BY <1>1, <1>2, <1>5, <1>6
     DEF SentDataOK, Length, GetSourceEntry, KnownSource, SourcePhrase, UnkEntry, SourceEntry
<1>8. QueriedUids \subseteq Uids
  <2>1. ASSUME NEW s \in Spans, sentData[s] # NoElement, NEW i \in 1..Len(sentData[s].targets)
        PROVE  sentData[s].targets[i].uid \in Uids
    <3>1. Length(s) \in Nat /\ inst.maxPhraseLen \in Nat
      BY <1>5, SentenceOK
    <3>2. Length(s) <= inst.maxPhraseLen
      BY <1>5, <2>1, <3>1, SentDataType
    <3>3. sentData[s].targets[i] \in Targets
      BY <1>5, <3>2, TargetType
    <3>4. QED
      BY <3>3 DEF Targets
  <2>2. QED
    BY <2>1 DEF QueriedUids
<1>9. rmQuery' \in [QueriedUids -> Weights]
  <2>1. \A uid \in Uids : GetReordering(uid) \in Weights
    BY <1>5, GetReorderingType DEF TablesInv
  <2>2. QED
    BY <1>1, <1>8, <2>1
<1>10. ~Decoding' /\ QueriesOK'
  BY <1>1, <1>3, <1>5, <1>6, <1>7, <1>9 DEF Decoding, QueriesOK
<1>11. ControlOK'
  BY <1>1, <1>2, <1>3, <1>10 DEF DecoderInv, ControlOK, NoResult
<1>12. QED
  BY <1>4, <1>10, <1>11 DEF DecoderInv

-----------------------------------------------------------------------------
(* The steps of the search                                                   *)

\* What the search works with is there when it begins and while it goes on.
LEMMA DataIsThere ==
  ASSUME DecoderInv, pc = "perform" \/ Decoding
  PROVE  DataOK /\ CapacityOK
<1>1. TablesInv /\ ControlOK /\ ParamsInv /\ QueriesOK
  BY DEF DecoderInv
<1>2. phase = "ready"
  BY <1>1 DEF ControlOK, Decoding
<1>3. NumWords >= 1
  <2>1. NumWords \in 1..MaxWords
    BY <1>1 DEF ControlOK, Decoding
  <2>2. QED
    BY <2>1, BoundsType
<1>4. SentDataOK /\ future \in [Spans -> Int] /\ rmQuery \in [QueriedUids -> Weights]
  BY <1>1 DEF QueriesOK
<1>5. params \in DecoderParams /\ params.capacity \in Capacities
  BY <1>1 DEF ParamsInv
<1>6. ParamsOK(params)
  BY <1>5 DEF DecoderParams, ParamsOK
<1>7. QED
  BY <1>1, <1>2, <1>3, <1>4, <1>5, <1>6 DEF DataOK, CapacityOK

\* The search begins with empty levels.
LEMMA EmptyStack ==
  ASSUME DataOK, CapacityOK
  PROVE  LET stack == [l \in 0..(NumWords + 1) |-> EmptyLevel]
         IN /\ stack \in Stacks
            /\ \A l \in 0..(NumWords + 1) : Keeps(stack[l], {}, params)
<1> DEFINE D == 0..(NumWords + 1)
           stack == [l \in D |-> EmptyLevel]
<1>1. EmptyLevel.states = <<>> /\ EmptyLevel.bound = 0 /\ EmptyLevel = [states |-> <<>>, bound |-> 0]
  BY DEF EmptyLevel
<1>2. \A S : EmptyLevel \in [states : Seq(S), bound : Int]
  BY <1>1
<1>3. Sorted(<<>>) /\ Distinct(<<>>)
  BY DEF Sorted, Distinct
<1>4. \E capacity \in Capacities : 0 <= capacity
  BY DEF CapacityOK, ParamsOK
<1>5. \A l \in D : LevelOK(EmptyLevel, l)
  BY <1>1, <1>2, <1>3, <1>4 DEF LevelOK
<1>6. stack \in Stacks
  BY <1>2, <1>5 DEF Stacks
<1>7. Keeps(EmptyLevel, {}, params)
  BY EmptyLevelKeeps DEF CapacityOK
<1>8. QED
  BY <1>6, <1>7

\* What the actions of the search leave alone.
SearchFrame ==
  UNCHANGED <<tableVars, isStop, params, commands, limitDropped, sentData, future, rmQuery>>

\* A step of the search keeps the invariant if it keeps the stack's part of it.
LEMMA SearchStays ==
  ASSUME DecoderInv, DataOK, pc = "perform" \/ Decoding, SearchFrame,
         isDist' \in BOOLEAN, Decoding', LevelsOK',
         pc' = "done" <=> result' # NoResult,
         pc' \in {"expand", "done"},
         result'.kind \in {"none", "translated", "source", "empty", "failed"}
  PROVE  DecoderInv'
<1>1. /\ UNCHANGED tableVars /\ isStop' = isStop /\ params' = params /\ commands' = commands
      /\ limitDropped' = limitDropped /\ sentData' = sentData /\ future' = future /\ rmQuery' = rmQuery
  BY DEF SearchFrame
<1>2. inst' = inst /\ phase' = phase /\ NumWords' = NumWords
  BY <1>1 DEF tableVars, NumWords
<1>3. TablesInv' /\ ParamsInv'
  BY <1>1, <1>2, TablesStay, ParamsStay DEF DecoderInv
<1>4. QueriesOK'
  <2>1. SentDataOK /\ future \in [Spans -> Int] /\ rmQuery \in [QueriedUids -> Weights]
    BY DEF DataOK
  <2>2. SentDataOK' /\ (future \in [Spans -> Int])' /\ (rmQuery \in [QueriedUids -> Weights])'
    BY <1>1, <2>1, QueriesStay
  <2>3. QED
    BY <2>2 DEF QueriesOK
<1>5. NumWords' \in 1..MaxWords'
  <2>1. NumWords \in 1..MaxWords
    BY DEF DecoderInv, ControlOK
  <2>2. QED
    BY <1>2, <2>1
<1>6. ControlOK'
  <2>1. ControlOK /\ phase = "ready"
    BY DEF DecoderInv, DataOK
  <2>2. NoResult' = NoResult
    BY DEF NoResult
  <2>3. (isStop \in BOOLEAN)' /\ (commands \in 0..MaxConsoleCommands)' /\ (limitDropped \in BOOLEAN)'
    BY <1>1, <2>1 DEF ControlOK
  <2>4. (pc \notin {"expand", "done"} => levels = <<>>)' /\ (pc # "idle" => phase = "ready")'
    BY <1>1, <1>2, <2>1
  <2>5. QED
    BY <1>5, <2>2, <2>3, <2>4 DEF ControlOK
<1>7. QED
  BY <1>3, <1>4, <1>6 DEF DecoderInv

\* The root state is put into level 0.
LEMMA PerformTranslationStep ==
  ASSUME HashIsNat, DecoderInv, PerformTranslation
  PROVE  /\ DecoderInv'
         /\ LevelsReached'
<1> DEFINE D == 0..(NumWords + 1)
           stack == [l \in D |-> EmptyLevel]
           given == [l \in D |-> {}]
           root == RootState
           new == AddStates(stack, <<root>>, params)
<1>1. /\ pc = "perform" /\ pc' = "expand" /\ SearchFrame /\ isDist' = (params.distLimit >= 0)
      /\ levels' = new /\ currLevel' = 0 /\ currPos' = 1 /\ result' = result
      /\ offered' = [l \in D |-> IF l = 0 THEN {root} ELSE {}]
  BY DEF PerformTranslation, SearchFrame
<1>2. DataOK /\ CapacityOK /\ NumWords \in Nat /\ NumWords >= 1
  BY <1>1, DataIsThere, SentenceOK DEF DataOK
<1>3. inst' = inst /\ sentData' = sentData /\ params' = params /\ NumWords' = NumWords
  BY <1>1 DEF SearchFrame, tableVars, NumWords
<1>4. root \in StatesOf(0) /\ root \in AllStates /\ root.level = 0 /\ 0 \in D
  BY <1>2, RootStateOK DEF AllStates, StatesOf
<1>5. stack \in Stacks /\ \A l \in D : Keeps(stack[l], {}, params)
  BY <1>2, EmptyStack
<1>6. \A l \in D : given[l] \subseteq StatesOf(l) /\ Keeps(stack[l], given[l], params)
  BY <1>5
<1>7. \A l \in D : given[l] = {}
  OBVIOUS
<1> HIDE DEF root, stack, given
<1>8. <<root>> \in Seq(AllStates) /\ Len(<<root>>) = 1 /\ <<root>>[1] = root /\ ToSet(<<root>>) = {root}
  <2>1. <<root>> \in Seq(AllStates) /\ Len(<<root>>) = 1 /\ <<root>>[1] = root /\ DOMAIN <<root>> = 1..1
    BY <1>4
  <2>2. ToSet(<<root>>) = {root}
    BY <2>1 DEF ToSet
  <2>3. QED
    BY <2>1, <2>2
<1>9. new \in Stacks /\ new[0].states # <<>>
  <2>1. /\ new \in Stacks /\ \A i \in 1..Len(<<root>>) : new[<<root>>[i].level].states # <<>>
    BY <1>2, <1>5, <1>8, AddStatesOK
  <2>2. 1 \in 1..Len(<<root>>)
    BY <1>8
  <2>3. QED
    BY <1>4, <1>8, <2>1, <2>2
<1>10. \A l \in D : /\ given[l] \cup {s \in ToSet(<<root>>) : s.level = l} \subseteq StatesOf(l)
                    /\ Keeps(new[l], given[l] \cup {s \in ToSet(<<root>>) : s.level = l}, params)
  BY <1>2, <1>5, <1>6, <1>8, AddStatesKeep
<1>11. \A l \in D : offered'[l] = given[l] \cup {s \in ToSet(<<root>>) : s.level = l}
  BY <1>1, <1>4, <1>7, <1>8
<1> HIDE DEF new
<1>12. LevelsOK'
  <2>1. Stacks' = Stacks /\ \A l : StatesOf(l)' = StatesOf(l)
    BY <1>3, StatesStay, StacksStay
  <2>2. /\ levels' \in Stacks' /\ DOMAIN offered' = 0..(NumWords' + 1)
        /\ \A l \in 0..(NumWords' + 1) : offered'[l] \subseteq StatesOf(l)'
    BY <1>1, <1>3, <1>9, <1>10, <1>11, <2>1
  <2>3. \A l \in 0..(NumWords' + 1) : Keeps(levels'[l], offered'[l], params')
    <3>1. \A l \in D : Keeps(new[l], offered'[l], params)
      BY <1>10, <1>11
    <3>2. levels' = new /\ params' = params /\ 0..(NumWords' + 1) = D
      BY <1>1, <1>3
    <3>3. QED
      BY <3>1, <3>2
  <2>4. currLevel' \in 0..(NumWords' + 1) /\ currPos' \in Nat \ {0}
    BY <1>1, <1>2, <1>3
  <2>5. QED
    BY <2>2, <2>3, <2>4 DEF LevelsOK, Keeps, Kept, StoodFor, Sorted, Distinct, SameSubproblem, BoundOf
<1>13. DecoderInv'
  <2>1. result = NoResult /\ NoResult' = NoResult /\ result.kind = "none"
    BY <1>1 DEF DecoderInv, ControlOK, NoResult
  <2>2. Decoding' /\ isDist' \in BOOLEAN
    BY <1>1 DEF Decoding
  <2>3. QED
    BY <1>1, <1>2, <1>12, <2>1, <2>2, SearchStays
<1>14. LevelsReached'
  <2>1. isDist' => params.distLimit >= 0
    BY <1>1, Zenon
  <2>2. \A l \in 0..0 : levels'[l].states # <<>>
    BY <1>1, <1>9
  <2>3. QED
    BY <1>1, <1>3, <2>1, <2>2 DEF LevelsReached
<1>15. QED
  BY <1>13, <1>14

\* A state is expanded: what it makes goes to levels that take it, and one to the next.
LEMMA ExpandStateStep ==
  ASSUME HashIsNat, DecoderInv, ExpandState
  PROVE  /\ DecoderInv'
         /\ LevelsReached => LevelsReached'
<1> DEFINE D == 0..(NumWords + 1)
           s == levels[currLevel].states[currPos]
           made == NewStates(s)
           new == AddStates(levels, made, params)
<1>1. /\ pc = "expand" /\ pc' = "expand" /\ SearchFrame /\ isDist' = isDist
      /\ currLevel <= NumWords /\ currPos <= Len(levels[currLevel].states)
      /\ levels' = new /\ currLevel' = currLevel /\ currPos' = currPos + 1 /\ result' = result
      /\ offered' = [l \in DOMAIN offered |-> offered[l] \cup {x \in ToSet(made) : x.level = l}]
  BY DEF ExpandState, SearchFrame
<1>2. Decoding /\ LevelsOK
  BY <1>1 DEF Decoding, DecoderInv
<1>3. DataOK /\ CapacityOK /\ NumWords \in Nat
  BY <1>2, DataIsThere, SentenceOK DEF DataOK
<1>4. inst' = inst /\ sentData' = sentData /\ params' = params /\ NumWords' = NumWords /\ commands' = commands
      /\ limitDropped' = limitDropped
  BY <1>1 DEF SearchFrame, tableVars, NumWords
<1>5. /\ levels \in Stacks /\ DOMAIN offered = D /\ currLevel \in D /\ currPos \in Nat \ {0}
      /\ \A l \in D : offered[l] \subseteq StatesOf(l)
      /\ commands = 0 => \A l \in D : Keeps(levels[l], offered[l], params)
  BY <1>2 DEF LevelsOK
<1>6. s \in StatesOf(currLevel)
  <2>1. levels[currLevel].states \in Seq(StatesOf(currLevel))
    BY <1>5 DEF Stacks, LevelOK
  <2>2. currPos \in 1..Len(levels[currLevel].states)
    BY <1>1, <1>5, <2>1
  <2>3. QED
    BY <2>1, <2>2, ElementOfSeq
<1> HIDE DEF s
<1>7. /\ made \in Seq(AllStates)
      /\ (isDist => params.distLimit >= 0) => \E i \in 1..Len(made) : made[i].level = currLevel + 1
  <2>1. currLevel \in Nat
    BY <1>3, <1>5
  <2>2. QED
    BY <1>1, <1>3, <1>6, <2>1, NewStatesOK
<1> HIDE DEF made
<1>8. /\ new \in Stacks
      /\ \A l \in D : levels[l].states # <<>> => new[l].states # <<>>
      /\ \A i \in 1..Len(made) : new[made[i].level].states # <<>>
  BY <1>3, <1>5, <1>7, AddStatesOK
<1>9. \A l \in D : {x \in ToSet(made) : x.level = l} \subseteq StatesOf(l)
  <2>1. \A x \in ToSet(made) : x \in AllStates
    BY <1>7, ElementOfSeq DEF ToSet
  <2>2. QED
    BY <1>3, <2>1, StateFacts
<1>10. ASSUME commands = 0
       PROVE  \A l \in D : Keeps(new[l], offered[l] \cup {x \in ToSet(made) : x.level = l}, params)
  <2>1. \A l \in D : offered[l] \subseteq StatesOf(l) /\ Keeps(levels[l], offered[l], params)
    BY <1>5, <1>10
  <2>2. QED
    BY <1>3, <1>5, <1>7, <2>1, AddStatesKeep
<1> HIDE DEF new
<1>11. \A l \in D : offered'[l] = offered[l] \cup {x \in ToSet(made) : x.level = l}
  BY <1>1, <1>5
<1>12. LevelsOK'
  <2>1. Stacks' = Stacks /\ \A l : StatesOf(l)' = StatesOf(l)
    BY <1>4, StatesStay, StacksStay
  <2>2. /\ levels' \in Stacks' /\ DOMAIN offered' = 0..(NumWords' + 1)
        /\ \A l \in 0..(NumWords' + 1) : offered'[l] \subseteq StatesOf(l)'
    BY <1>1, <1>4, <1>5, <1>8, <1>9, <1>11, <2>1
  <2>3. commands' = 0 => \A l \in 0..(NumWords' + 1) : Keeps(levels'[l], offered'[l], params')
    BY <1>1, <1>4, <1>10, <1>11
  <2>4. currLevel' \in 0..(NumWords' + 1) /\ currPos' \in Nat \ {0}
    BY <1>1, <1>4, <1>5
  <2>5. QED
    BY <2>2, <2>3, <2>4 DEF LevelsOK, Keeps, Kept, StoodFor, Sorted, Distinct, SameSubproblem, BoundOf
<1>13. DecoderInv'
  <2>1. result = NoResult /\ NoResult' = NoResult /\ result.kind = "none"
    BY <1>1 DEF DecoderInv, ControlOK, NoResult
  <2>2. Decoding' /\ isDist' \in BOOLEAN
    BY <1>1 DEF Decoding, DecoderInv, ControlOK
  <2>3. QED
    BY <1>1, <1>2, <1>3, <1>12, <2>1, <2>2, SearchStays
<1>14. ASSUME LevelsReached, ~limitDropped PROVE LevelsReached'
  <2>1. /\ isDist => params.distLimit >= 0
        /\ \A l \in 0..currLevel : levels[l].states # <<>>
    BY <1>1, <1>14 DEF LevelsReached
  <2>2. PICK i \in 1..Len(made) : made[i].level = currLevel + 1
    BY <1>7, <2>1
  <2>3. new[currLevel + 1].states # <<>>
    BY <1>8, <2>2
  <2>4. \A l \in 0..currLevel : new[l].states # <<>>
    BY <1>3, <1>5, <1>8, <2>1
  <2>5. QED
    BY <1>1, <1>4, <2>1, <2>3, <2>4 DEF LevelsReached
<1>15. ASSUME limitDropped PROVE LevelsReached'
  BY <1>4, <1>15 DEF LevelsReached
<1>16. QED
  BY <1>13, <1>14, <1>15

\* The next level, which has states: every state of this one made one for it.
LEMMA NextLevelStep ==
  ASSUME DecoderInv, NextLevel
  PROVE  /\ DecoderInv'
         /\ LevelsReached => LevelsReached'
<1>1. /\ pc = "expand" /\ pc' = "expand" /\ SearchFrame /\ isDist' = isDist
      /\ currLevel <= NumWords /\ currPos > Len(levels[currLevel].states)
      /\ currLevel' = currLevel + 1 /\ currPos' = 1
      /\ levels' = levels /\ offered' = offered /\ result' = result
  BY DEF NextLevel, SearchFrame
<1>2. Decoding /\ LevelsOK
  BY <1>1 DEF Decoding, DecoderInv
<1>3. DataOK /\ NumWords \in Nat
  BY <1>2, DataIsThere, SentenceOK DEF DataOK
<1>4. inst' = inst /\ sentData' = sentData /\ params' = params /\ NumWords' = NumWords /\ commands' = commands
      /\ limitDropped' = limitDropped
  BY <1>1 DEF SearchFrame, tableVars, NumWords
<1>5. currLevel \in 0..(NumWords + 1) /\ levels \in Stacks /\ currPos \in Nat
  BY <1>2 DEF LevelsOK
<1>6. LevelsOK'
  <2>1. Stacks' = Stacks /\ \A l : StatesOf(l)' = StatesOf(l)
    BY <1>4, StatesStay, StacksStay
  <2>2. (currLevel \in 0..(NumWords + 1))' /\ (currPos \in Nat \ {0})'
    BY <1>1, <1>3, <1>4, <1>5
  <2>3. /\ levels' \in Stacks' /\ DOMAIN offered' = 0..(NumWords' + 1)
        /\ \A l \in 0..(NumWords' + 1) : offered'[l] \subseteq StatesOf(l)'
    BY <1>1, <1>2, <1>4, <2>1 DEF LevelsOK
  <2>4. commands' = 0 => \A l \in 0..(NumWords' + 1) : Keeps(levels'[l], offered'[l], params')
    BY <1>1, <1>2, <1>4 DEF LevelsOK
  <2>5. QED
    BY <2>2, <2>3, <2>4 DEF LevelsOK, Keeps, Kept, StoodFor, Sorted, Distinct, SameSubproblem, BoundOf
<1>7. DecoderInv'
  <2>1. result = NoResult /\ NoResult' = NoResult /\ result.kind = "none"
    BY <1>1 DEF DecoderInv, ControlOK, NoResult
  <2>2. Decoding' /\ isDist' \in BOOLEAN
    BY <1>1 DEF Decoding, DecoderInv, ControlOK
  <2>3. QED
    BY <1>1, <1>2, <1>3, <1>6, <2>1, <2>2, SearchStays
<1>8. ASSUME LevelsReached, ~limitDropped PROVE LevelsReached'
  <2>1. /\ isDist => params.distLimit >= 0
        /\ \A l \in 0..currLevel : levels[l].states # <<>>
        /\ currPos > 1 => levels[currLevel + 1].states # <<>>
    BY <1>1, <1>8 DEF LevelsReached
  <2>2. currPos > 1
    <3>1. levels[currLevel].states \in Seq(AllStates) /\ levels[currLevel].states # <<>>
      BY <1>5, <2>1 DEF Stacks
    <3>2. Len(levels[currLevel].states) >= 1
      BY <3>1
    <3>3. Len(levels[currLevel].states) \in Nat
      BY <3>1
    <3>4. QED
      BY <1>1, <1>5, <3>2, <3>3
  <2>3. \A l \in 0..(currLevel + 1) : levels[l].states # <<>>
    BY <1>5, <2>1, <2>2
  <2>4. QED
    BY <1>1, <1>4, <2>1, <2>3 DEF LevelsReached
<1>9. ASSUME limitDropped PROVE LevelsReached'
  BY <1>4, <1>9 DEF LevelsReached
<1>10. QED
  BY <1>7, <1>8, <1>9

\* A path translates the whole sentence.
Translates(path) ==
  /\ CoveredBy(path) = Positions /\ DisjointSpans(path)
  /\ \A i \in 1..Len(path) :
       \E k \in 1..Len(GetSourceEntry(SourcePhrase(path[i].span)).targets) :
         path[i].target = GetSourceEntry(SourcePhrase(path[i].span)).targets[k]

\* What get_best_trans returns does, whenever there is a state in the last level.
LEMMA LastLevelTranslates ==
  ASSUME HashIsNat, DataOK, LevelsOK, levels[NumWords + 1].states # <<>>
  PROVE  Translates(levels[NumWords + 1].states[1].path)
<1> DEFINE final == levels[NumWords + 1].states
           s == final[1]
           path == s.path
<1>1. NumWords \in Nat /\ IsFiniteSet(Positions) /\ Cardinality(Positions) = NumWords /\ TablesInv /\ SentDataOK
  BY SentenceOK DEF DataOK
<1>2. final \in Seq(StatesOf(NumWords + 1))
  BY <1>1 DEF LevelsOK, Stacks, LevelOK
<1>3. s \in StatesOf(NumWords + 1)
  BY <1>2
<1>4. /\ s \in States /\ Cardinality(s.covered) = MinOf(NumWords + 1, NumWords)
      /\ s.covered = CoveredBy(path) /\ DisjointSpans(path)
  BY <1>3 DEF StatesOf
<1>5. s.covered \in SUBSET Positions /\ path \in Seq(Phrases)
  BY <1>4 DEF States
<1>6. MinOf(NumWords + 1, NumWords) = NumWords
  BY <1>1 DEF MinOf
<1>7. CoveredBy(path) = Positions
  <2> HIDE DEF s, path
  <2>1. s.covered = Positions
    BY <1>1, <1>4, <1>5, <1>6, FS_Subset
  <2>2. QED
    BY <1>4, <2>1
<1>8. ASSUME NEW i \in 1..Len(path)
      PROVE  \E k \in 1..Len(GetSourceEntry(SourcePhrase(path[i].span)).targets) :
               path[i].target = GetSourceEntry(SourcePhrase(path[i].span)).targets[k]
  <2> HIDE DEF path
  <2>1. path[i] \in Phrases
    BY <1>5, ElementOfSeq
  <2>2. /\ path[i].span \in Spans /\ Length(path[i].span) <= inst.maxPhraseLen
        /\ \E k \in 1..Len(sentData[path[i].span].targets) :
             path[i].target = sentData[path[i].span].targets[k]
    BY <2>1 DEF Phrases
  <2>3. sentData[path[i].span] = GetSourceEntry(SourcePhrase(path[i].span))
    BY <1>1, <2>2, SentDataType
  <2>4. QED
    BY <2>2, <2>3
<1>9. QED
  BY <1>4, <1>7, <1>8 DEF Translates

\* What it takes for UnstoppedTranslates to hold from here on.
ResultOK ==
  pc = "done" /\ ~isStop /\ ~limitDropped /\ NumWords \in 1..MaxWords =>
    result.kind = "translated" /\ Translates(result.path)

\* The result stays after the end.
LEMMA ResultStays ==
  ASSUME ResultOK, UNCHANGED tableVars, pc' = pc, isStop' = isStop, limitDropped' = limitDropped,
         result' = result
  PROVE  ResultOK'
<1>1. inst' = inst /\ tmData' = tmData
  BY DEF tableVars
<1>2. NumWords' = NumWords /\ Positions' = Positions
  BY <1>1 DEF NumWords, Positions
<1>3. \A path : Translates(path)' = Translates(path)
  BY <1>1, <1>2
     DEF Translates, CoveredBy, DisjointSpans, GetSourceEntry, KnownSource, SourcePhrase, UnkEntry, SourceEntry
<1>4. QED
  BY <1>2, <1>3 DEF ResultOK

\* The best state of the last level is the result; there is one, unless stopped before.
LEMMA GetBestTransStep ==
  ASSUME HashIsNat, DecoderInv, GetBestTrans
  PROVE  /\ DecoderInv'
         /\ LevelsReached => LevelsReached' /\ ResultOK'
<1> DEFINE final == levels[NumWords + 1].states
<1>1. /\ pc = "expand" /\ pc' = "done" /\ SearchFrame /\ isDist' = isDist
      /\ isStop \/ currLevel > NumWords
      /\ UNCHANGED <<levels, currLevel, currPos, offered>>
      /\ final # <<>> => result' = [kind |-> "translated", path |-> final[1].path]
      /\ final = <<>> => result' = [kind |-> IF isStop THEN "source" ELSE "failed", path |-> <<>>]
  BY DEF GetBestTrans, SearchFrame, Ended
<1>2. Decoding /\ LevelsOK
  BY <1>1 DEF Decoding, DecoderInv
<1>3. DataOK /\ NumWords \in Nat
  BY <1>2, DataIsThere, SentenceOK DEF DataOK
<1>4. inst' = inst /\ sentData' = sentData /\ params' = params /\ NumWords' = NumWords
      /\ commands' = commands /\ limitDropped' = limitDropped /\ isStop' = isStop /\ UNCHANGED tableVars
  BY <1>1 DEF SearchFrame, tableVars, NumWords
<1>5. currLevel \in 0..(NumWords + 1) /\ levels \in Stacks
  BY <1>2 DEF LevelsOK
<1>6. LevelsOK'
  BY <1>1, <1>2, <1>4, LevelsStay
<1>7. Decoding'
  <2>1. DOMAIN levels = 0..(NumWords + 1) /\ 0 \in 0..(NumWords + 1)
    BY <1>3, <1>5 DEF Stacks
  <2>2. DOMAIN <<>> = {}
    OBVIOUS
  <2>3. levels # <<>>
    BY <2>1, <2>2
  <2>4. QED
    BY <1>1, <2>3 DEF Decoding
<1> HIDE DEF final
<1>8. result'.kind \in {"translated", "source", "failed"}
  BY <1>1
<1>9. DecoderInv'
  <2>1. result' # NoResult'
    BY <1>8 DEF NoResult
  <2>2. isDist' \in BOOLEAN
    BY <1>1 DEF DecoderInv, ControlOK
  <2>3. NoResult' = NoResult
    BY DEF NoResult
  <2>4. QED
    BY <1>1, <1>2, <1>3, <1>6, <1>7, <1>8, <2>1, <2>2, <2>3, SearchStays
<1>10. LevelsReached'
  BY <1>1 DEF LevelsReached
<1>11. ASSUME LevelsReached, ~isStop, ~limitDropped PROVE result'.kind = "translated" /\ Translates(result'.path)
  <2>1. currLevel = NumWords + 1
    BY <1>1, <1>3, <1>5, <1>11
  <2>2. final # <<>>
    BY <1>1, <1>3, <1>11, <2>1 DEF LevelsReached, final
  <2>3. Translates(final[1].path)
    BY <1>2, <1>3, <2>2, LastLevelTranslates DEF final
  <2>4. QED
    BY <1>1, <2>2, <2>3
<1>12. ASSUME LevelsReached PROVE ResultOK'
  <2>1. \A path : Translates(path)' = Translates(path)
    BY <1>4
       DEF Translates, CoveredBy, DisjointSpans, Positions, GetSourceEntry, KnownSource, SourcePhrase,
           UnkEntry, SourceEntry, tableVars
  <2>2. ~isStop' /\ ~limitDropped' => result'.kind = "translated" /\ Translates(result'.path)
    BY <1>4, <1>11, <1>12
  <2>3. QED
    BY <2>1, <2>2 DEF ResultOK
<1>13. QED
  BY <1>9, <1>10, <1>12

-----------------------------------------------------------------------------
(* The steps of the others                                                   *)

\* A stop, at any time.
LEMMA StopStep ==
  ASSUME DecoderInv, Stop
  PROVE  /\ DecoderInv' /\ ResultOK'
         /\ LevelsReached => LevelsReached'
<1>1. /\ pc \notin {"idle", "done"} /\ isStop' = TRUE /\ pc' = pc /\ UNCHANGED tableVars
      /\ UNCHANGED <<params, commands, isDist, limitDropped, sentData, future, rmQuery,
                     levels, currLevel, currPos, offered, result>>
  BY DEF Stop
<1>2. inst' = inst /\ phase' = phase /\ NumWords' = NumWords
  BY <1>1 DEF tableVars, NumWords
<1>3. TablesInv' /\ ParamsInv'
  BY <1>1, <1>2, TablesStay, ParamsStay DEF DecoderInv
<1>4. Decoding' = Decoding
  BY <1>1 DEF Decoding
<1>5. QueriesOK'
  BY <1>1, <1>4, QueriesStay DEF DecoderInv, QueriesOK
<1>6. ControlOK'
  BY <1>1, <1>2, <1>4 DEF DecoderInv, ControlOK, NoResult
<1>7. ASSUME Decoding' PROVE LevelsOK'
  <2>1. LevelsOK
    BY <1>4, <1>7 DEF DecoderInv
  <2>2. QED
    BY <1>1, <1>2, <2>1, LevelsStay
<1>8. LevelsReached => LevelsReached'
  BY <1>1, <1>2, StatesStay DEF LevelsReached
<1>9. ResultOK'
  BY <1>1 DEF ResultOK
<1>10. QED
  BY <1>3, <1>5, <1>6, <1>7, <1>8, <1>9 DEF DecoderInv

\* A command of the console, at any time.
LEMMA SetDecoderParamsStep ==
  ASSUME DecoderInv, NEW command \in inst.console, SetDecoderParams(command)
  PROVE  /\ DecoderInv'
         /\ LevelsReached => LevelsReached'
         /\ ResultOK => ResultOK'
<1>1. /\ pc \notin {"idle", "done"} /\ commands < MaxConsoleCommands
      /\ command.name = "capacity" => NewValue(command) > 0
      /\ command.name = "threshold" => command.value < 0
      /\ params' = [params EXCEPT ![command.name] = NewValue(command)]
      /\ limitDropped' = (limitDropped \/ (isDist /\ command.name = "distLimit" /\ command.value < 0))
      /\ commands' = commands + 1 /\ pc' = pc /\ UNCHANGED tableVars
      /\ UNCHANGED <<isStop, isDist, sentData, future, rmQuery,
                     levels, currLevel, currPos, offered, result>>
  BY DEF SetDecoderParams
<1>2. inst' = inst /\ phase' = phase /\ NumWords' = NumWords
  BY <1>1 DEF tableVars, NumWords
<1>3. TablesInv'
  BY <1>1, TablesStay DEF DecoderInv
<1>4. commands \in 0..MaxConsoleCommands
  BY DEF DecoderInv, ControlOK
<1>5. commands' \in 0..MaxConsoleCommands /\ commands' # 0
  BY <1>1, <1>4, BoundsType
<1>6. command.name \in {"distLimit", "threshold", "capacity", "penalty"} /\ command.value \in Int
  BY SentenceOK DEF DecoderInv, InstanceFields
<1>7. NewValue(command) \in Int
  <2>1. command.value % CapacityValues \in Int
    BY <1>6, BoundsType
  <2>2. QED
    BY <1>6, <2>1 DEF NewValue
<1>8. ASSUME command.name # "capacity" PROVE NewValue(command) = command.value
  BY <1>8 DEF NewValue
<1>9. params \in DecoderParams /\ params.capacity \in Capacities
  BY DEF DecoderInv, ParamsInv
<1>10. params' = [params EXCEPT ![command.name] = NewValue(command)]
  BY <1>1
<1>11. ParamsInv'
  <2>1. params' \in DecoderParams
    <3>1. CASE command.name = "capacity"
      <4>1. NewValue(command) > 0
        BY <1>1, <3>1
      <4>2. params' = [params EXCEPT !.capacity = NewValue(command)]
        BY <1>10, <3>1
      <4>3. QED
        BY <1>9, <1>7, <4>1, <4>2 DEF DecoderParams
    <3>2. CASE command.name # "capacity"
      <4>1. params' = [params EXCEPT ![command.name] = command.value]
        BY <1>10, <1>8, <3>2, Zenon
      <4>2. command.name \in {"distLimit", "threshold", "penalty"} /\ command.value \in Int
        BY <1>6, <3>2
      <4>3. CASE command.name = "distLimit"
        BY <1>9, <4>1, <4>2, <4>3 DEF DecoderParams
      <4>4. CASE command.name = "threshold"
        <5>1. command.value < 0
          BY <1>1, <4>4
        <5>2. QED
          BY <1>9, <4>1, <4>2, <4>4, <5>1 DEF DecoderParams
      <4>5. CASE command.name = "penalty"
        BY <1>9, <4>1, <4>2, <4>5 DEF DecoderParams
      <4>6. QED
        BY <4>2, <4>3, <4>4, <4>5
    <3>3. QED
      BY <3>1, <3>2
  <2>2. params'.capacity \in Capacities
    <3>1. CASE command.name = "capacity"
      <4>1. params'.capacity = NewValue(command)
        BY <1>9, <1>10, <3>1 DEF DecoderParams
      <4>2. QED
        BY <3>1, <4>1 DEF Capacities
    <3>2. CASE command.name # "capacity"
      BY <1>6, <1>9, <1>10, <3>2 DEF DecoderParams
    <3>3. QED
      BY <3>1, <3>2
  <2>3. (params \in DecoderParams)' /\ (params.capacity \in Capacities)'
    BY <1>1, <1>2, <2>1, <2>2, StatesStay
  <2>4. QED
    BY <1>5, <2>3 DEF ParamsInv
<1>12. Decoding' = Decoding
  BY <1>1 DEF Decoding
<1>13. QueriesOK'
  BY <1>1, <1>12, QueriesStay DEF DecoderInv, QueriesOK
<1>14. ControlOK'
  BY <1>1, <1>2, <1>5, <1>12 DEF DecoderInv, ControlOK, NoResult
<1>15. ASSUME Decoding' PROVE LevelsOK'
  <2>1. LevelsOK
    BY <1>12, <1>15 DEF DecoderInv
  <2>2. QED
    BY <1>1, <1>2, <1>5, <2>1, LevelsStay
<1>16. ASSUME LevelsReached PROVE LevelsReached'
  <2>1. ASSUME ~limitDropped', isDist, pc = "expand" PROVE params'.distLimit >= 0
    <3>1. ~limitDropped /\ ~(command.name = "distLimit" /\ command.value < 0)
      BY <1>1, <2>1
    <3>2. params.distLimit >= 0
      BY <1>16, <2>1, <3>1 DEF LevelsReached
    <3>3. CASE command.name = "distLimit"
      <4>1. NewValue(command) = command.value
        BY <1>8, <3>3
      <4>2. params'.distLimit = command.value
        BY <1>9, <1>10, <3>3, <4>1 DEF DecoderParams
      <4>3. ~(command.value < 0)
        BY <3>1, <3>3, Zenon
      <4>4. QED
        BY <1>6, <4>2, <4>3
    <3>4. CASE command.name # "distLimit"
      <4>1. params'.distLimit = params.distLimit
        BY <1>6, <1>9, <1>10, <3>4 DEF DecoderParams
      <4>2. QED
        BY <3>2, <4>1
    <3>5. QED
      BY <3>3, <3>4
  <2>2. limitDropped => limitDropped'
    BY <1>1
  <2>3. QED
    BY <1>1, <1>2, <1>16, <2>1, <2>2 DEF LevelsReached
<1>17. ResultOK => ResultOK'
  BY <1>1 DEF ResultOK
<1>18. QED
  BY <1>3, <1>11, <1>13, <1>14, <1>15, <1>16, <1>17 DEF DecoderInv

\* Nothing happens.
LEMMA StutterStep ==
  ASSUME DecoderInv, UNCHANGED vars
  PROVE  /\ DecoderInv'
         /\ LevelsReached => LevelsReached'
         /\ ResultOK => ResultOK'
<1>1. UNCHANGED tableVars /\ UNCHANGED decoderVars /\ inst' = inst /\ phase' = phase /\ NumWords' = NumWords
  BY DEF vars, tableVars, NumWords
<1>2. TablesInv' /\ ParamsInv'
  BY <1>1, TablesStay, ParamsStay DEF DecoderInv, decoderVars
<1>3. Decoding' = Decoding
  BY <1>1 DEF Decoding, decoderVars
<1>4. QueriesOK'
  BY <1>1, <1>3, QueriesStay DEF DecoderInv, QueriesOK, decoderVars
<1>5. ControlOK'
  BY <1>1, <1>3 DEF DecoderInv, ControlOK, NoResult, decoderVars
<1>6. ASSUME Decoding' PROVE LevelsOK'
  <2>1. LevelsOK
    BY <1>3, <1>6 DEF DecoderInv
  <2>2. QED
    BY <1>1, <2>1, LevelsStay DEF decoderVars
<1>7. LevelsReached => LevelsReached'
  BY <1>1, StatesStay DEF LevelsReached, decoderVars
<1>8. ResultOK => ResultOK'
  BY <1>1, ResultStays DEF decoderVars
<1>9. QED
  BY <1>2, <1>4, <1>5, <1>6, <1>7, <1>8 DEF DecoderInv

\* Every step keeps the invariant.
LEMMA DecoderInvStep ==
  ASSUME HashIsNat, DecoderInv, [Next]_vars
  PROVE  DecoderInv'
<1>1. CASE LoadTables
  BY <1>1, LoadTablesStep
<1>2. CASE DecoderStep
  BY <1>2, TranslateStep, StoppedStep, QueryTranslationModelStep, ComputeFutureCostsStep,
     QueryReorderingModelStep, PerformTranslationStep, ExpandStateStep, NextLevelStep, GetBestTransStep
     DEF DecoderStep
<1>3. CASE Stop
  BY <1>3, StopStep
<1>4. CASE \E command \in inst.console : SetDecoderParams(command)
  BY <1>4, SetDecoderParamsStep
<1>5. CASE Terminated \/ UNCHANGED vars
  BY <1>5, StutterStep DEF Terminated
<1>6. QED
  BY <1>1, <1>2, <1>3, <1>4, <1>5 DEF Next

\* What holds of the loaded tables always does, and what holds of the decoder.
THEOREM DecoderInvAlways == HashIsNat /\ Spec => []DecoderInv
<1>1. HashIsNat /\ Init => DecoderInv
  BY InitDecoder
<1>2. HashIsNat /\ DecoderInv /\ [Next]_vars => DecoderInv'
  BY DecoderInvStep
<1>3. HashIsNat => HashIsNat'
  BY DEF HashIsNat
<1>4. QED
  BY <1>1, <1>2, <1>3, PTL DEF Spec

-----------------------------------------------------------------------------
(* What the tables hold of the files                                        *)

\* The lines of the phrase table that have been read, and of them the ones that
\* pass for a source phrase.
TmRead == IF phase = "tm" THEN line - 1 ELSE Len(inst.tmFile)
PassingRead(s) == {i \in 1..TmRead : inst.tmFile[i].passes /\ inst.tmFile[i].source = s}
Sources == {inst.tmFile[i].source : i \in 1..Len(inst.tmFile)}

\* A list that is not full has all translations: only a full one drops any.
Full(list) == inst.transLimit > CAPACITY_THRESHOLD /\ Len(list) = inst.transLimit
HoldsBestSoFar(list, passing) ==
  /\ HoldsBest(list, passing)
  /\ \A i \in passing : Full(list) \/ \E j \in 1..Len(list) : list[j] = TmLine(inst.tmFile[i])

\* The lists are those of the lines read.
ListsFilled ==
  /\ phase = "tm" => line <= Len(inst.tmFile) + 1
  /\ DOMAIN lists \subseteq Sources
  /\ \A s \in Sources :
       IF PassingRead(s) = {} THEN s \in DOMAIN lists => lists[s] = <<>>
       ELSE s \in DOMAIN lists /\ HoldsBestSoFar(lists[s], PassingRead(s))
\* The hash map of the translation model holds the lists that were converted.
TmDataFilled ==
  /\ phase \notin {"tm", "convert"} => toConvert = {}
  /\ phase # "tm" =>
       /\ \A e \in 1..Len(tmData.elems) :
            LET key == tmData.elems[e].key
            IN /\ key \in DOMAIN lists \ toConvert /\ lists[key] # <<>>
               /\ tmData.elems[e].value = SourceEntry(lists[key], TRUE)
       /\ \A s \in DOMAIN lists \ toConvert :
            lists[s] # <<>> => \E e \in 1..Len(tmData.elems) : tmData.elems[e].key = s
\* The one of the reordering model holds what the lines read by the building pass
\* say of the pairs that are kept, the first line of a pair before the others.
RmUid(i) == <<inst.rmFile[i].source, inst.rmFile[i].target>>
FirstOfPair(i) == \A j \in 1..(i - 1) : RmUid(j) # RmUid(i)
RmDataFilled ==
  phase \in {"build", "ready", "failed"} =>
    /\ line <= Len(inst.rmFile) + 1
    /\ \A e \in 1..Len(rmData.elems) : \E i \in GoodLines(line - 1) : rmData.elems[e].key = RmUid(i)
    /\ \A i \in GoodLines(line - 1) : FirstOfPair(i) =>
         \E e \in 1..Len(rmData.elems) :
           /\ rmData.elems[e] = [key |-> RmUid(i), value |-> inst.rmFile[i].weights]
           /\ \A d \in 1..(e - 1) : rmData.elems[d].key # RmUid(i)
\* How the loading ended.
LoadEnded ==
  /\ phase \in {"ready", "failed"} => line = Len(inst.rmFile) + 1 /\ Len(rmData.elems) = rmCount
  /\ phase = "failed" => \E p \in Specials : RmEntry(p, p) = NoElement

\* What the tables hold of the files, at every moment of the loading.
FilesInv == ListsFilled /\ TmDataFilled /\ RmDataFilled /\ LoadEnded

\* The total costs of translations are numbers.
LEMMA TotalPlusType == \A t \in Targets : TotalPlus(t) \in Int
BY DEF TotalPlus, Targets

\* add_elemenent passes the leading translations that are better.
LEMMA PlaceInList ==
  ASSUME NEW list \in Seq(Targets), NEW t \in Targets, NEW p,
         p = Cardinality({i \in 1..Len(list) : \A j \in 1..i : TotalPlus(t) < TotalPlus(list[j])})
  PROVE  /\ p \in 0..Len(list)
         /\ \A i \in 1..p : TotalPlus(t) < TotalPlus(list[i])
         /\ p < Len(list) => TotalPlus(list[p + 1]) <= TotalPlus(t)
<1> DEFINE better == {i \in 1..Len(list) : \A j \in 1..i : TotalPlus(t) < TotalPlus(list[j])}
           places == {k \in 0..Len(list) : \A j \in 1..k : TotalPlus(t) < TotalPlus(list[j])}
<1>1. Len(list) \in Nat /\ TotalPlus(t) \in Int /\ \A i \in 1..Len(list) : TotalPlus(list[i]) \in Int
  BY TotalPlusType, ElementOfSeq
<1>2. places \in SUBSET (0..Len(list)) /\ places # {}
  <2>1. 0 \in places
    BY <1>1
  <2>2. QED
    BY <2>1
<1>3. PICK m \in places : \A k \in places : k <= m
  <2> HIDE DEF places
  <2>1. QED
    BY <1>1, <1>2, MaxExists
<1>4. m \in 0..Len(list) /\ \A j \in 1..m : TotalPlus(t) < TotalPlus(list[j])
  OBVIOUS
<1>5. better = 1..m
  <2>1. ASSUME NEW i \in better PROVE i \in 1..m
    <3>1. i \in places
      BY <1>1
    <3>2. i <= m
      BY <1>3, <3>1
    <3>3. QED
      BY <1>4, <3>2
  <2>2. ASSUME NEW i \in 1..m PROVE i \in better
    <3>1. i \in 1..Len(list) /\ \A j \in 1..i : j \in 1..m
      BY <1>1, <1>4
    <3>2. QED
      BY <1>4, <3>1
  <2>3. QED
    BY <2>1, <2>2
<1>6. p = m
  <2>1. Cardinality(1..m) = m
    BY <1>4, FS_Interval
  <2>2. QED
    BY <1>5, <2>1
<1>7. ASSUME m < Len(list) PROVE TotalPlus(list[m + 1]) <= TotalPlus(t)
  <2>1. m + 1 \in 0..Len(list) /\ ~(m + 1 <= m) /\ m + 1 \in 1..Len(list)
    BY <1>1, <1>4, <1>7
  <2>2. m + 1 \notin places
    BY <1>3, <2>1
  <2>3. PICK j \in 1..(m + 1) : ~(TotalPlus(t) < TotalPlus(list[j]))
    BY <2>1, <2>2
  <2>4. j = m + 1
    BY <1>4, <2>3
  <2>5. QED
    BY <1>1, <2>1, <2>3, <2>4
<1>8. QED
  BY <1>4, <1>6, <1>7

\* One more translation is put in its place, and only a full list drops one, its
\* worst: it still is the list of the best.
LEMMA AddToListBest ==
  ASSUME InstanceFields(inst), NEW list \in Seq(Targets), NEW P \in SUBSET (1..Len(inst.tmFile)),
         HoldsBestSoFar(list, P), NEW i0 \in 1..Len(inst.tmFile), i0 \notin P
  PROVE  HoldsBestSoFar(AddToList(list, TmLine(inst.tmFile[i0]), inst.transLimit), P \cup {i0})
<1> DEFINE F(i) == TmLine(inst.tmFile[i])
           t == F(i0)
           T(x) == TotalPlus(x)
           limit == inst.transLimit
           n == Len(list)
           better == {i \in 1..n : \A j \in 1..i : T(t) < T(list[j])}
           p == Cardinality(better)
           longer == InsertAt(list, p + 1, t)
           new == AddToList(list, t, limit)
           Q == P \cup {i0}
           c == Cardinality(P)
           limited == limit > CAPACITY_THRESHOLD
<1>1. /\ n \in Nat /\ limit \in Nat /\ Len(inst.tmFile) \in Nat
      /\ \A i \in 1..Len(inst.tmFile) : F(i) \in Targets
  <2>1. limit \in Nat /\ Len(inst.tmFile) \in Nat
    BY DEF InstanceFields
  <2>2. n \in Nat
    OBVIOUS
  <2>3. \A i \in 1..Len(inst.tmFile) : F(i) \in Targets
    BY TmLineType
  <2>4. QED
    BY <2>1, <2>2, <2>3
<1>2. t \in Targets /\ T(t) \in Int /\ \A i \in 1..n : T(list[i]) \in Int
  BY <1>1, TotalPlusType, ElementOfSeq
<1>3. IsFiniteSet(P) /\ c \in Nat /\ Cardinality(Q) = c + 1
  <2>1. IsFiniteSet(1..Len(inst.tmFile))
    <3>1. 1 \in Int /\ Len(inst.tmFile) \in Int
      BY <1>1
    <3>2. QED
      BY <3>1, FS_Interval, Zenon
  <2>2. IsFiniteSet(P)
    BY <2>1, FS_Subset
  <2>3. QED
    BY <2>2, FS_AddElement, FS_CardinalityType
<1>4. /\ \A i, j \in 1..n : i < j => T(list[i]) >= T(list[j])
      /\ n = IF limited THEN MinOf(limit, c) ELSE c
      /\ \A j \in 1..n : \E i \in P : list[j] = F(i)
      /\ \A i \in P : (\E j \in 1..n : list[j] = F(i)) \/ T(F(i)) <= T(list[n])
      /\ \A i \in P : Full(list) \/ \E j \in 1..n : list[j] = F(i)
  BY DEF HoldsBestSoFar, HoldsBest, Last
<1>5. /\ p \in 0..n /\ \A i \in 1..p : T(t) < T(list[i])
      /\ p < n => T(list[p + 1]) <= T(t)
  <2> HIDE DEF t
  <2>1. QED
    BY <1>2, PlaceInList
<1>6. new = IF limited /\ Len(longer) > limit THEN SubSeq(longer, 1, limit) ELSE longer
  BY DEF AddToList
<1>c. limited => limit > 2
  BY DEF CAPACITY_THRESHOLD
<1>f. Full(list) <=> limited /\ n = limit
  BY DEF Full
<1> HIDE DEF p, t, new, c, limited, F, T, limit, Q
<1>7. /\ longer \in Seq(Targets) /\ Len(longer) = n + 1
      /\ \A i \in 1..n + 1 : longer[i] = IF i <= p THEN list[i] ELSE IF i = p + 1 THEN t ELSE list[i - 1]
  BY <1>2, <1>5, InsertProps
<1> HIDE DEF longer
<1> DEFINE L == Len(longer)
<1>l. L = n + 1
  BY <1>7
<1>8. /\ \A i \in 1..p : longer[i] = list[i] /\ i \in 1..n
      /\ longer[p + 1] = t /\ p + 1 \in 1..n + 1
      /\ \A i \in (p + 2)..(n + 1) : longer[i] = list[i - 1] /\ i - 1 \in 1..n
      /\ \A j \in 1..n : \E i \in 1..n + 1 : longer[i] = list[j]
  <2>1. \A i \in 1..p : longer[i] = list[i] /\ i \in 1..n
    BY <1>1, <1>5, <1>7
  <2>2. longer[p + 1] = t /\ p + 1 \in 1..n + 1
    BY <1>1, <1>5, <1>7
  <2>3. \A i \in (p + 2)..(n + 1) : longer[i] = list[i - 1] /\ i - 1 \in 1..n
    <3>1. ASSUME NEW i \in (p + 2)..(n + 1) PROVE longer[i] = list[i - 1] /\ i - 1 \in 1..n
      <4>1. i \in 1..n + 1 /\ ~(i <= p) /\ i # p + 1 /\ i - 1 \in 1..n
        BY <1>1, <1>5
      <4>2. QED
        BY <1>7, <4>1
    <3>2. QED
      BY <3>1
  <2>4. ASSUME NEW j \in 1..n PROVE \E i \in 1..n + 1 : longer[i] = list[j]
    <3>1. CASE j <= p
      <4>1. j \in 1..p /\ j \in 1..n + 1
        BY <1>1, <1>5, <3>1
      <4>2. QED
        BY <2>1, <4>1
    <3>2. CASE j > p
      <4>1. j + 1 \in (p + 2)..(n + 1) /\ j + 1 \in 1..n + 1 /\ (j + 1) - 1 = j
        BY <1>1, <1>5, <3>2
      <4>2. longer[j + 1] = list[j]
        BY <2>3, <4>1
      <4>3. QED
        BY <4>1, <4>2
    <3>3. QED
      BY <1>5, <3>1, <3>2
  <2>5. QED
    BY <2>1, <2>2, <2>3, <2>4
<1>9. \A i \in 1..n + 1 : T(longer[i]) \in Int
  BY <1>7, TotalPlusType, ElementOfSeq DEF T
<1>10. ASSUME NEW i \in 1..n + 1, NEW j \in 1..n + 1, i < j PROVE T(longer[i]) >= T(longer[j])
  <2>0. T(t) \in Int /\ \A k \in 1..n : T(list[k]) \in Int
    BY <1>2
  <2>1. CASE j <= p
    <3>1. i \in 1..p /\ j \in 1..p
      BY <1>5, <1>10, <2>1
    <3>2. QED
      BY <1>4, <1>8, <1>10, <3>1
  <2>2. CASE j = p + 1
    <3>1. i \in 1..p
      BY <1>5, <1>10, <2>2
    <3>2. T(longer[i]) = T(list[i]) /\ T(longer[j]) = T(t) /\ T(t) < T(list[i]) /\ i \in 1..n
      BY <1>5, <1>8, <2>2, <3>1
    <3>3. QED
      BY <2>0, <3>2
  <2>3. CASE j > p + 1
    <3>1. j \in (p + 2)..(n + 1) /\ j - 1 \in 1..n
      BY <1>1, <1>5, <2>3
    <3>2. longer[j] = list[j - 1]
      BY <1>8, <3>1
    <3>3. CASE i <= p
      <4>1. i \in 1..p /\ i < j - 1 /\ i \in 1..n
        BY <1>1, <1>5, <2>3, <3>3
      <4>2. T(list[i]) >= T(list[j - 1])
        BY <1>4, <3>1, <4>1
      <4>3. QED
        BY <1>8, <3>2, <4>1, <4>2
    <3>4. CASE i = p + 1
      <4>1. p < n /\ p + 1 \in 1..n /\ p + 1 <= j - 1
        BY <1>1, <1>5, <2>3, <3>1
      <4>2. T(list[p + 1]) \in Int /\ T(list[j - 1]) \in Int
        BY <2>0, <3>1, <4>1
      <4>3. T(list[p + 1]) >= T(list[j - 1])
        <5>1. CASE p + 1 = j - 1
          BY <4>2, <5>1
        <5>2. CASE p + 1 < j - 1
          BY <1>4, <3>1, <4>1, <5>2
        <5>3. QED
          BY <1>1, <1>5, <4>1, <5>1, <5>2
      <4>4. T(list[p + 1]) <= T(t)
        BY <1>5, <4>1
      <4>5. T(t) >= T(list[j - 1])
        BY <2>0, <4>2, <4>3, <4>4
      <4>6. QED
        BY <1>8, <3>2, <3>4, <4>5
    <3>5. CASE i > p + 1
      <4>1. i \in (p + 2)..(n + 1) /\ i - 1 \in 1..n /\ i - 1 < j - 1
        BY <1>1, <1>5, <1>10, <3>5
      <4>2. T(list[i - 1]) >= T(list[j - 1])
        BY <1>4, <3>1, <4>1
      <4>3. QED
        BY <1>8, <3>2, <4>1, <4>2
    <3>6. QED
      BY <1>5, <3>3, <3>4, <3>5
  <2>4. QED
    BY <1>5, <2>1, <2>2, <2>3
<1>11. \A j \in 1..n + 1 : \E i \in Q : longer[j] = F(i)
  <2>1. ASSUME NEW j \in 1..n + 1 PROVE \E i \in Q : longer[j] = F(i)
    <3>1. CASE j = p + 1
      BY <1>8, <3>1 DEF Q, t
    <3>2. CASE j # p + 1
      <4>1. \E k \in 1..n : longer[j] = list[k]
        <5>1. j \in 1..p \/ j \in (p + 2)..(n + 1)
          BY <1>1, <1>5, <3>2
        <5>2. QED
          BY <1>8, <5>1
      <4>2. QED
        BY <1>4, <4>1 DEF Q
    <3>3. QED
      BY <3>1, <3>2
  <2>2. QED
    BY <2>1
<1>12. CASE limited /\ L > limit
  <2>1. n = limit /\ limit > 2 /\ MinOf(limit, c + 1) = limit
    <3>1. n = MinOf(limit, c) /\ n + 1 > limit /\ limit > 2
      BY <1>4, <1>12, <1>l, <1>c
    <3>2. QED
      BY <1>1, <1>3, <3>1 DEF MinOf
  <2>2. limit \in 0..Len(longer) /\ limit \in 1..n + 1 /\ \A i \in 1..limit : i \in 1..n + 1
    BY <1>1, <1>7, <2>1
  <2>3. new = SubSeq(longer, 1, limit)
    BY <1>6, <1>12
  <2>4. new \in Seq(Targets) /\ Len(new) = limit /\ \A i \in 1..limit : new[i] = longer[i]
    BY <1>7, <2>2, <2>3, PrefixProps
  <2>5. Full(new)
    BY <1>12, <2>4 DEF Full, limited, limit
  <2>6. \A i, j \in 1..limit : i < j => T(new[i]) >= T(new[j])
    BY <1>10, <2>2, <2>4
  <2>7. \A j \in 1..limit : \E i \in Q : new[j] = F(i)
    BY <1>11, <2>2, <2>4
  <2>8. ASSUME NEW i \in Q
        PROVE  (\E j \in 1..limit : new[j] = F(i)) \/ T(F(i)) <= T(new[limit])
    <3>0. new[limit] = longer[limit] /\ limit + 1 \in 1..n + 1 /\ limit < limit + 1
      BY <1>1, <2>1, <2>2, <2>4
    <3>1. T(longer[limit + 1]) <= T(longer[limit])
      <4>1. T(longer[limit]) >= T(longer[limit + 1])
        BY <1>10, <2>2, <3>0
      <4>2. QED
        BY <1>9, <2>2, <3>0, <4>1
    <3>2. ASSUME NEW j \in 1..n + 1, longer[j] = F(i)
          PROVE  (\E k \in 1..limit : new[k] = F(i)) \/ T(F(i)) <= T(new[limit])
      <4>1. CASE j <= limit
        <5>1. j \in 1..limit
          BY <4>1
        <5>2. QED
          BY <2>4, <3>2, <5>1
      <4>2. CASE j > limit
        <5>1. j = limit + 1
          BY <1>1, <2>1, <4>2
        <5>2. QED
          BY <3>0, <3>1, <3>2, <5>1
      <4>3. QED
        BY <1>1, <4>1, <4>2
    <3>3. CASE i = i0
      BY <1>8, <3>2, <3>3 DEF t
    <3>4. CASE i \in P /\ \E j \in 1..n : list[j] = F(i)
      BY <1>8, <3>2, <3>4
    <3>5. CASE i \in P /\ T(F(i)) <= T(list[n])
      <4>1. n \in 1..n /\ n \in 1..n + 1 /\ limit = n
        BY <1>1, <2>1
      <4>2. PICK k \in 1..n + 1 : k >= n /\ longer[k] = list[n]
        <5>1. CASE n <= p
          <6>1. n \in 1..p
            BY <4>1, <5>1
          <6>2. longer[n] = list[n] /\ n >= n
            BY <1>1, <1>8, <6>1
          <6>3. QED
            BY <4>1, <6>2
        <5>2. CASE n > p
          <6>1. n + 1 \in (p + 2)..(n + 1) /\ (n + 1) - 1 = n /\ n + 1 >= n
            BY <1>1, <1>5, <5>2
          <6>2. longer[n + 1] = list[n]
            BY <1>8, <6>1
          <6>3. QED
            BY <3>0, <4>1, <6>1, <6>2
        <5>3. QED
          BY <1>5, <5>1, <5>2
      <4>3. T(longer[n]) >= T(longer[k])
        <5>1. k = n \/ n < k
          BY <1>1, <4>2
        <5>2. QED
          BY <1>9, <1>10, <4>1, <5>1
      <4>4. T(F(i)) \in Int
        BY <1>1, <3>5, TotalPlusType DEF T
      <4>5. QED
        BY <1>9, <3>0, <3>5, <4>1, <4>2, <4>3, <4>4
    <3>6. QED
      BY <1>4, <2>8, <3>3, <3>4, <3>5 DEF Q
  <2>9. Len(new) = IF limited THEN MinOf(limit, c + 1) ELSE c + 1
    BY <1>12, <2>1, <2>4
  <2>10. HoldsBest(new, Q)
    BY <1>3, <2>4, <2>6, <2>7, <2>8, <2>9 DEF HoldsBest, Last, F, T, limited, limit
  <2>11. QED
    BY <2>5, <2>10 DEF HoldsBestSoFar, new, Q, t, limit, F
<1>13. CASE ~(limited /\ L > limit)
  <2>1. new = longer /\ Len(new) = n + 1
    BY <1>6, <1>7, <1>13
  <2>2. ~Full(list)
    BY <1>1, <1>13, <1>f, <1>l
  <2>3. n = c /\ n + 1 = IF limited THEN MinOf(limit, c + 1) ELSE c + 1
    <3>1. CASE limited
      <4>1. n = MinOf(limit, c) /\ n + 1 <= limit
        BY <1>1, <1>4, <1>13, <1>l, <3>1
      <4>2. QED
        BY <1>1, <1>3, <3>1, <4>1 DEF MinOf
    <3>2. CASE ~limited
      BY <1>4, <3>2
    <3>3. QED
      BY <3>1, <3>2
  <2>4. \A i \in Q : \E j \in 1..n + 1 : new[j] = F(i)
    <3>1. ASSUME NEW i \in P PROVE \E j \in 1..n + 1 : new[j] = F(i)
      BY <1>4, <1>8, <2>1, <2>2
    <3>2. \E j \in 1..n + 1 : new[j] = F(i0)
      BY <1>8, <2>1 DEF t
    <3>3. QED
      BY <3>1, <3>2 DEF Q
  <2>5. \A i, j \in 1..n + 1 : i < j => T(new[i]) >= T(new[j])
    BY <1>10, <2>1
  <2>6. HoldsBest(new, Q)
    BY <1>3, <1>11, <2>1, <2>3, <2>4, <2>5 DEF HoldsBest, F, T, limited, limit
  <2>7. QED
    BY <2>1, <2>4, <2>6 DEF HoldsBestSoFar, new, Q, t, limit, F
<1>14. QED
  BY <1>12, <1>13

\* The loading begins with nothing read and nothing held.
LEMMA FilesInit == TablesInit => FilesInv
<1> SUFFICES ASSUME TablesInit PROVE FilesInv
  OBVIOUS
<1>1. inst \in Instances /\ phase = "tm" /\ line = 1 /\ lists = <<>>
  BY DEF TablesInit
<1>2. Len(inst.tmFile) \in Nat
  BY <1>1, InstanceOK DEF InstanceFields
<1>3. DOMAIN lists = {} /\ \A s : PassingRead(s) = {}
  BY <1>1 DEF PassingRead, TmRead
<1>4. ListsFilled
  BY <1>1, <1>2, <1>3 DEF ListsFilled
<1>5. TmDataFilled /\ RmDataFilled /\ LoadEnded
  BY <1>1 DEF TmDataFilled, RmDataFilled, LoadEnded, TablesInit
<1>6. QED
  BY <1>4, <1>5 DEF FilesInv

\* A list that was read stays what it is.
LEMMA ListsFilledStays ==
  ASSUME ListsFilled, inst' = inst, lists' = lists, TmRead' = TmRead,
         phase' = "tm" => line' <= Len(inst'.tmFile) + 1
  PROVE  ListsFilled'
<1>1. \A s : PassingRead(s)' = PassingRead(s)
  BY DEF PassingRead
<1>2. \A list, P : HoldsBestSoFar(list, P)' <=> HoldsBestSoFar(list, P)
  BY DEF HoldsBestSoFar, HoldsBest, Full, TmLine
<1>3. Sources' = Sources
  BY DEF Sources
<1>4. ASSUME NEW s \in Sources, PassingRead(s) # {}
      PROVE  HoldsBestSoFar(lists[s], PassingRead(s))'
  <2>1. HoldsBestSoFar(lists[s], PassingRead(s))
    BY <1>4 DEF ListsFilled
  <2>2. QED
    BY <1>1, <2>1 DEF HoldsBestSoFar, HoldsBest, Full, TmLine
<1>5. QED
  BY <1>1, <1>3, <1>4 DEF ListsFilled

\* A list of passing lines is not empty.
LEMMA BestNotEmpty ==
  ASSUME InstanceFields(inst), NEW list, NEW P \in SUBSET (1..Len(inst.tmFile)), P # {}, HoldsBest(list, P)
  PROVE  list # <<>>
<1>1. inst.transLimit \in Nat /\ Len(inst.tmFile) \in Nat
  BY DEF InstanceFields
<1>2. Cardinality(P) \in Nat /\ Cardinality(P) # 0
  <2>1. 1 \in Int /\ Len(inst.tmFile) \in Int
    BY <1>1
  <2>2. IsFiniteSet(1..Len(inst.tmFile))
    BY <2>1, FS_Interval, Zenon
  <2>3. IsFiniteSet(P)
    BY <2>2, FS_Subset
  <2>4. QED
    BY <2>3, FS_CardinalityType, FS_EmptySet
<1>3. Len(list) = IF inst.transLimit > CAPACITY_THRESHOLD THEN MinOf(inst.transLimit, Cardinality(P)) ELSE Cardinality(P)
  BY DEF HoldsBest
<1>4. Len(list) # 0
  BY <1>1, <1>2, <1>3 DEF MinOf, CAPACITY_THRESHOLD
<1>5. Len(<<>>) = 0
  OBVIOUS
<1>6. QED
  BY <1>4, <1>5

\* A line of the phrase table is read: the list of its source phrase holds the best
\* of the lines that are now read, the others are as they were, and only a list
\* without translations is dropped.
LEMMA ReadTmLineFiles ==
  ASSUME HashIsNat, TablesInv, FilesInv, ReadTmLine
  PROVE  FilesInv'
<1> DEFINE l == inst.tmFile[line]
           emptied == {s \in DOMAIN lists : s = source /\ s # l.source /\ lists[s] = <<>>}
           keptNames == DOMAIN lists \ emptied
           kept == Restrict(lists, keptNames)
           names == keptNames \cup {l.source}
           opened == [s \in DOMAIN kept \cup {l.source} |-> IF s \in DOMAIN kept THEN kept[s] ELSE <<>>]
           longer == AddToList(opened[l.source], TmLine(l), inst.transLimit)
           added == [opened EXCEPT ![l.source] = longer]
           R(s) == PassingRead(s)
           new(s) == IF l.passes /\ l.source = s THEN {line} ELSE {}
<1>1. /\ phase = "tm" /\ phase' = "tm" /\ line' = line + 1
      /\ UNCHANGED <<inst, tmData, toConvert, rmCount, rmData>>
      /\ lists' = IF l.passes THEN added ELSE opened
      /\ line <= Len(inst.tmFile)
  BY DEF ReadTmLine
<1>2. InstanceFields(inst) /\ Len(inst.tmFile) \in Nat /\ line \in 1..Len(inst.tmFile)
  <2>1. InstanceFields(inst) /\ line \in Nat /\ line >= 1
    BY InstanceOK DEF TablesInv, RmCountOK
  <2>2. Len(inst.tmFile) \in Nat
    BY <2>1 DEF InstanceFields
  <2>3. QED
    BY <1>1, <2>1, <2>2
<1>3. lists \in [DOMAIN lists -> Seq(Targets)] /\ DOMAIN lists \subseteq Sources
  BY DEF TablesInv, ListsOK, FilesInv, ListsFilled
<1>4. \A s \in Sources : IF R(s) = {} THEN s \in DOMAIN lists => lists[s] = <<>>
                         ELSE s \in DOMAIN lists /\ HoldsBestSoFar(lists[s], R(s))
  BY DEF FilesInv, ListsFilled
<1>5. l.source \in Sources
  BY <1>2 DEF Sources
<1>6. \A s : /\ R(s) \in SUBSET (1..Len(inst.tmFile)) /\ line \notin R(s)
             /\ PassingRead(s)' = R(s) \cup new(s)
  <2>1. TmRead = line - 1 /\ TmRead' = line
    BY <1>1, <1>2 DEF TmRead
  <2>2. TmRead + 1 = line /\ TmRead \in Nat /\ 1..TmRead' = 1..TmRead \cup {line} /\ line \notin 1..TmRead
        /\ 1..TmRead \subseteq 1..Len(inst.tmFile)
    BY <1>2, <2>1
  <2>3. QED
    BY <1>1, <2>2 DEF PassingRead
<1> HIDE DEF R, l, new
<1>7. DOMAIN kept = keptNames /\ \A s \in keptNames : kept[s] = lists[s]
  BY DEF Restrict
<1> HIDE DEF kept
<1>8. DOMAIN opened = names /\ \A s \in names : opened[s] = IF s \in keptNames THEN lists[s] ELSE <<>>
  BY <1>7
<1> HIDE DEF opened
<1>9. ASSUME NEW s \in Sources
      PROVE  IF R(s) = {} THEN s \in names => opened[s] = <<>>
             ELSE s \in names /\ opened[s] = lists[s] /\ HoldsBestSoFar(opened[s], R(s))
  <2>1. CASE R(s) = {}
    <3>1. s \in DOMAIN lists => lists[s] = <<>>
      BY <1>4, <2>1
    <3>2. s \in keptNames => lists[s] = <<>>
      BY <3>1
    <3> HIDE DEF names, keptNames
    <3>3. QED
      BY <1>8, <2>1, <3>2
  <2>2. CASE R(s) # {}
    <3>1. s \in DOMAIN lists /\ HoldsBestSoFar(lists[s], R(s))
      BY <1>4, <2>2
    <3>2. lists[s] # <<>>
      BY <1>2, <1>6, <2>2, <3>1, BestNotEmpty DEF HoldsBestSoFar
    <3>3. s \in keptNames
      BY <3>1, <3>2
    <3>4. QED
      BY <1>8, <2>2, <3>1, <3>3
  <2>3. QED
    BY <2>1, <2>2
<1>10. HoldsBestSoFar(<<>>, {})
  <2>1. Cardinality({}) = 0 /\ inst.transLimit \in Nat
    BY <1>2, FS_EmptySet DEF InstanceFields
  <2>2. QED
    BY <2>1 DEF HoldsBestSoFar, HoldsBest, MinOf
<1>11. l.source \in names /\ HoldsBestSoFar(opened[l.source], R(l.source)) /\ opened[l.source] \in Seq(Targets)
  <2>1. l.source \in names
    OBVIOUS
  <2>2. HoldsBestSoFar(opened[l.source], R(l.source))
    BY <1>5, <1>9, <1>10, <2>1
  <2>3. opened[l.source] \in Seq(Targets)
    <3>1. l.source \in keptNames => lists[l.source] \in Seq(Targets)
      BY <1>3
    <3>2. opened[l.source] = IF l.source \in keptNames THEN lists[l.source] ELSE <<>>
      BY <1>8, <2>1
    <3> HIDE DEF keptNames
    <3>3. QED
      BY <3>1, <3>2
  <2>4. QED
    BY <2>1, <2>2, <2>3
<1>12. HoldsBestSoFar(longer, R(l.source) \cup {line})
  <2> HIDE DEF names, keptNames
  <2>1. l = inst.tmFile[line]
    BY DEF l
  <2> DEFINE list == opened[l.source]
             P == R(l.source)
  <2>2. list \in Seq(Targets) /\ P \in SUBSET (1..Len(inst.tmFile)) /\ line \notin P /\ HoldsBestSoFar(list, P)
    BY <1>6, <1>11
  <2> HIDE DEF list, P
  <2>3. HoldsBestSoFar(AddToList(list, TmLine(inst.tmFile[line]), inst.transLimit), P \cup {line})
    BY <1>2, <2>2, AddToListBest
  <2>4. QED
    BY <2>1, <2>3 DEF list, P
<1> HIDE DEF longer
<1>13. DOMAIN lists' = names
  BY <1>1, <1>8
<1>14. ASSUME NEW s \in Sources
       PROVE  IF PassingRead(s)' = {} THEN s \in DOMAIN lists' => lists'[s] = <<>>
              ELSE s \in DOMAIN lists' /\ HoldsBestSoFar(lists'[s], R(s) \cup new(s))
  <2>0. PassingRead(s)' = R(s) \cup new(s)
    BY <1>6
  <2>1. CASE l.passes /\ l.source = s
    <3>1. lists'[s] = longer
      BY <1>1, <1>8, <1>11, <2>1
    <3>2. new(s) = {line}
      BY <2>1 DEF new
    <3>3. QED
      BY <1>11, <1>12, <1>13, <2>0, <2>1, <3>1, <3>2
  <2>2. CASE ~(l.passes /\ l.source = s)
    <3>1. s \in names => lists'[s] = opened[s]
      BY <1>1, <1>8, <2>2
    <3>2. new(s) = {} /\ R(s) \cup new(s) = R(s)
      BY <2>2 DEF new
    <3> HIDE DEF names
    <3>3. CASE R(s) = {}
      BY <1>9, <1>13, <2>0, <3>1, <3>2, <3>3
    <3>4. CASE R(s) # {}
      BY <1>9, <1>13, <2>0, <3>1, <3>2, <3>4
    <3>5. QED
      BY <3>3, <3>4
  <2>3. QED
    BY <2>1, <2>2
<1>15. names \subseteq Sources
  BY <1>3, <1>5
<1> HIDE DEF names
<1>16. ListsFilled'
  <2>1. Sources' = Sources /\ line' <= Len(inst.tmFile') + 1
    BY <1>1, <1>2 DEF Sources
  <2>2. \A s \in Sources : PassingRead(s)' # {} => HoldsBestSoFar(lists[s], PassingRead(s))'
    <3>1. ASSUME NEW s \in Sources, PassingRead(s)' # {} PROVE HoldsBestSoFar(lists[s], PassingRead(s))'
      <4>1. HoldsBestSoFar(lists'[s], R(s) \cup new(s))
        BY <1>14, <3>1
      <4>2. PassingRead(s)' = R(s) \cup new(s)
        BY <1>6
      <4> DEFINE list == lists'[s]
                 P == R(s) \cup new(s)
      <4>3. HoldsBestSoFar(list, P) /\ list = lists'[s] /\ P = PassingRead(s)' /\ inst' = inst
        BY <1>1, <4>1, <4>2
      <4> HIDE DEF list, P
      <4>4. QED
        BY <4>3 DEF HoldsBestSoFar, HoldsBest, Full, TmLine
    <3>2. QED
      BY <3>1
  <2>3. QED
    BY <1>13, <1>14, <1>15, <2>1, <2>2 DEF ListsFilled
<1>17. TmDataFilled' /\ RmDataFilled' /\ LoadEnded'
  BY <1>1 DEF TmDataFilled, RmDataFilled, LoadEnded
<1>18. QED
  BY <1>16, <1>17 DEF FilesInv

\* The buckets are allocated: nothing is held yet, all lists are to be converted.
LEMMA SetTmEntriesFiles ==
  ASSUME HashIsNat, TablesInv, FilesInv, SetTmEntries
  PROVE  FilesInv'
<1>1. /\ phase = "tm" /\ phase' = "convert" /\ toConvert' = DOMAIN lists /\ lists' = lists /\ inst' = inst
      /\ tmData'.elems = <<>> /\ line > Len(inst.tmFile)
  BY DEF SetTmEntries, NewMap
<1>2. ListsFilled'
  <2>1. Len(inst.tmFile) \in Nat /\ line \in Nat
    BY InstanceOK DEF TablesInv, RmCountOK, InstanceFields
  <2>2. line <= Len(inst.tmFile) + 1
    BY <1>1 DEF FilesInv, ListsFilled
  <2>3. TmRead' = TmRead
    BY <1>1, <2>1, <2>2 DEF TmRead
  <2>4. QED
    BY <1>1, <2>3, ListsFilledStays DEF FilesInv
<1>3. TmDataFilled'
  BY <1>1 DEF TmDataFilled
<1>4. RmDataFilled' /\ LoadEnded'
  BY <1>1 DEF RmDataFilled, LoadEnded
<1>5. QED
  BY <1>2, <1>3, <1>4 DEF FilesInv

\* A list is converted: the hash map holds it, and what it held.
LEMMA ConvertEntryFiles ==
  ASSUME HashIsNat, TablesInv, FilesInv, NEW s \in toConvert, ConvertEntry(s)
  PROVE  FilesInv'
<1> DEFINE entry == SourceEntry(lists[s], TRUE)
           new == AddNewElement(tmData, s, entry)
           len == Len(tmData.elems)
<1>1. /\ phase = "convert" /\ phase' = "convert" /\ toConvert' = toConvert \ {s} /\ inst' = inst /\ lists' = lists
      /\ tmData' = IF lists[s] = <<>> THEN tmData ELSE new
  BY DEF ConvertEntry
<1>2. /\ lists \in [DOMAIN lists -> Seq(Targets)] /\ DOMAIN lists \subseteq Seq(Words)
      /\ IsFiniteSet(DOMAIN lists) /\ toConvert \subseteq DOMAIN lists
  BY DEF TablesInv, ListsOK
<1>3. PICK n \in Nat :
        /\ MapOK(tmData, n, Seq(Words), KnownEntries) /\ n > Cardinality(DOMAIN lists)
        /\ len + Cardinality(toConvert) <= Cardinality(DOMAIN lists)
  BY <1>1 DEF TablesInv, TmDataOK
<1>4. len \in Nat
  BY <1>3 DEF MapOK
<1>5. /\ \A e \in 1..len : LET key == tmData.elems[e].key
                           IN /\ key \in DOMAIN lists \ toConvert /\ lists[key] # <<>>
                              /\ tmData.elems[e].value = SourceEntry(lists[key], TRUE)
      /\ \A t \in DOMAIN lists \ toConvert : lists[t] # <<>> => \E e \in 1..len : tmData.elems[e].key = t
  BY <1>1 DEF FilesInv, TmDataFilled
<1>6. TmDataFilled'
  <2>1. CASE lists[s] = <<>>
    <3>1. tmData' = tmData
      BY <1>1, <2>1
    <3>2. QED
      BY <1>1, <1>2, <1>5, <2>1, <3>1 DEF TmDataFilled
  <2>2. CASE lists[s] # <<>>
    <3>1. lists[s] \in Seq(Targets) /\ s \in Seq(Words) /\ s \in DOMAIN lists
      BY <1>2
    <3>2. entry \in KnownEntries
      BY <2>2, <3>1, SourceEntryType DEF KnownEntries
    <3>3. \A k \in Seq(Words) : Hash(k) \in Nat
      BY DEF HashIsNat
    <3>4. len + 1 < n
      <4>1. Cardinality(DOMAIN lists) \in Nat /\ Cardinality(toConvert) \in Nat /\ Cardinality(toConvert) # 0
        <5>1. IsFiniteSet(toConvert)
          BY <1>2, FS_Subset
        <5>2. QED
          BY <1>2, <5>1, FS_CardinalityType, FS_EmptySet
      <4>2. QED
        BY <1>3, <1>4, <4>1
    <3> HIDE DEF entry
    <3>5. new.elems = Append(tmData.elems, [key |-> s, value |-> entry])
      BY <1>3, <3>1, <3>2, <3>3, <3>4, AddNewElementOK
    <3>6. tmData'.elems = Append(tmData.elems, [key |-> s, value |-> entry])
      BY <1>1, <2>2, <3>5
    <3>7. tmData.elems \in Seq([key : Seq(Words), value : KnownEntries])
      BY <1>3 DEF MapOK
    <3> DEFINE elems == tmData'.elems
    <3>8. /\ Len(elems) = len + 1 /\ \A e \in 1..len : elems[e] = tmData.elems[e]
          /\ elems[len + 1] = [key |-> s, value |-> entry]
      BY <3>6, <3>7
    <3> HIDE DEF elems
    <3>9. ASSUME NEW e \in 1..Len(elems)
          PROVE  /\ elems[e].key \in DOMAIN lists \ (toConvert \ {s}) /\ lists[elems[e].key] # <<>>
                 /\ elems[e].value = SourceEntry(lists[elems[e].key], TRUE)
      <4>1. CASE e \in 1..len
        BY <1>5, <3>8, <4>1
      <4>2. CASE e = len + 1
        <5>1. elems[e].key = s /\ elems[e].value = entry
          BY <3>8, <4>2
        <5>2. entry = SourceEntry(lists[s], TRUE)
          BY DEF entry
        <5>3. QED
          BY <2>2, <3>1, <5>1, <5>2
      <4>3. e \in 1..len \/ e = len + 1
        BY <1>4, <3>8
      <4>4. QED
        BY <4>1, <4>2, <4>3
    <3>10. ASSUME NEW t \in DOMAIN lists \ (toConvert \ {s}), lists[t] # <<>>
           PROVE  \E e \in 1..Len(elems) : elems[e].key = t
      <4>1. CASE t = s
        <5>1. len + 1 \in 1..Len(elems)
          BY <1>4, <3>8
        <5>2. QED
          BY <3>8, <4>1, <5>1
      <4>2. CASE t # s
        <5>1. PICK e \in 1..len : tmData.elems[e].key = t
          BY <1>5, <3>10, <4>2
        <5>2. e \in 1..Len(elems)
          BY <1>4, <3>8
        <5>3. QED
          BY <3>8, <5>1, <5>2
      <4>3. QED
        BY <4>1, <4>2
    <3>11. QED
      BY <1>1, <3>9, <3>10 DEF TmDataFilled, elems
  <2>3. QED
    BY <2>1, <2>2
<1>7. ListsFilled'
  BY <1>1, ListsFilledStays DEF FilesInv, TmRead
<1>8. RmDataFilled' /\ LoadEnded'
  BY <1>1 DEF RmDataFilled, LoadEnded
<1>9. QED
  BY <1>6, <1>7, <1>8 DEF FilesInv

\* What the later steps of the loading leave alone.
LEMMA TmDataFilledStays ==
  ASSUME FilesInv, inst' = inst, lists' = lists, tmData' = tmData, toConvert' = toConvert,
         phase # "tm", phase' # "tm", phase = "convert" => toConvert = {}
  PROVE  ListsFilled' /\ TmDataFilled'
<1>1. TmRead' = TmRead
  BY DEF TmRead
<1>2. ListsFilled'
  BY <1>1, ListsFilledStays DEF FilesInv
<1>3. toConvert = {} \/ phase = "convert"
  BY DEF FilesInv, TmDataFilled
<1>4. TmDataFilled'
  BY <1>3 DEF FilesInv, TmDataFilled
<1>5. QED
  BY <1>2, <1>4

\* The counting pass changes nothing that is held.
LEMMA CountingFiles ==
  ASSUME HashIsNat, TablesInv, FilesInv, StartCounting \/ CountRmLine
  PROVE  FilesInv'
<1>1. /\ inst' = inst /\ lists' = lists /\ tmData' = tmData /\ toConvert' = toConvert
      /\ phase \in {"convert", "count"} /\ phase' = "count" /\ (phase = "convert" => toConvert = {})
  BY DEF StartCounting, CountRmLine
<1>2. ListsFilled' /\ TmDataFilled'
  BY <1>1, TmDataFilledStays
<1>3. RmDataFilled' /\ LoadEnded'
  BY <1>1 DEF RmDataFilled, LoadEnded
<1>4. QED
  BY <1>2, <1>3 DEF FilesInv

\* The buckets are allocated for the building pass.
LEMMA SetRmEntriesFiles ==
  ASSUME HashIsNat, TablesInv, FilesInv, SetRmEntries
  PROVE  FilesInv'
<1>1. /\ inst' = inst /\ lists' = lists /\ tmData' = tmData /\ toConvert' = toConvert
      /\ phase = "count" /\ phase' = "build" /\ line' = 1 /\ rmData'.elems = <<>>
  BY DEF SetRmEntries, NewMap
<1>2. ListsFilled' /\ TmDataFilled'
  BY <1>1, TmDataFilledStays
<1>3. RmDataFilled'
  <2>1. GoodLines(line - 1)' = {}
    BY <1>1 DEF GoodLines
  <2>2. Len(inst.rmFile) \in Nat
    BY InstanceOK DEF TablesInv, InstanceFields
  <2>3. QED
    BY <1>1, <2>1, <2>2 DEF RmDataFilled
<1>4. LoadEnded'
  BY <1>1 DEF LoadEnded
<1>5. QED
  BY <1>2, <1>3, <1>4 DEF FilesInv

\* The lines that are kept stay so while the translation model does.
LEMMA RmDataFilledStays ==
  ASSUME inst' = inst, tmData' = tmData, rmData' = rmData, line' = line,
         phase \in {"build", "ready", "failed"}, RmDataFilled
  PROVE  RmDataFilled'
<1>1. GoodLines(line - 1)' = GoodLines(line - 1)
  BY DEF GoodLines, IsGoodPair, KnownSource, HasTarget, Specials
<1> DEFINE H == GoodLines(line - 1)
           elems == rmData.elems
<1>2. /\ line <= Len(inst.rmFile) + 1
      /\ \A e \in 1..Len(elems) : \E i \in H : elems[e].key = RmUid(i)
      /\ \A i \in H : FirstOfPair(i) =>
           \E e \in 1..Len(elems) : /\ elems[e] = [key |-> RmUid(i), value |-> inst.rmFile[i].weights]
                                    /\ \A d \in 1..(e - 1) : elems[d].key # RmUid(i)
  BY DEF RmDataFilled
<1>3. H' = H /\ elems' = elems /\ inst' = inst /\ line' = line
  BY <1>1
<1>4. \A i : RmUid(i)' = RmUid(i) /\ (FirstOfPair(i)' <=> FirstOfPair(i))
  BY DEF RmUid, FirstOfPair
<1> HIDE DEF H, elems
<1>5. QED
  BY <1>2, <1>3, <1>4 DEF RmDataFilled, H, elems

\* A line is stored behind those of the lines before it: the first of its pair is
\* the first element with its key.
LEMMA BuildRmLineFiles ==
  ASSUME HashIsNat, TablesInv, FilesInv, BuildRmLine
  PROVE  FilesInv'
<1> DEFINE l == inst.rmFile[line]
           uid == <<l.source, l.target>>
           len == Len(rmData.elems)
           w == l.weights
           new == AddNewElement(rmData, uid, w)
           G == GoodLines(line - 1)
<1>1. /\ phase = "build" /\ phase' = "build" /\ line <= Len(inst.rmFile) /\ line' = line + 1
      /\ rmData' = IF IsGoodPair(l) THEN new ELSE rmData
      /\ UNCHANGED <<inst, source, lists, tmData, toConvert, rmCount>>
  BY DEF BuildRmLine
<1>2. /\ Len(inst.rmFile) \in Nat /\ line \in Nat /\ line >= 1 /\ line \in 1..Len(inst.rmFile)
      /\ rmCount = Cardinality(GoodLines(Len(inst.rmFile))) /\ len = Cardinality(G)
  BY <1>1, InstanceOK DEF TablesInv, InstanceFields, RmCountOK
<1>3. PICK n \in Nat : MapOK(rmData, n, Uids, Weights) /\ n > rmCount
  BY <1>1 DEF TablesInv, RmDataOK
<1>4. uid \in Uids /\ w \in Weights
  BY <1>2, InstanceOK, RmLineType DEF TablesInv
<1>5. uid = RmUid(line)
  BY DEF RmUid
<1>6. /\ \A e \in 1..len : \E i \in G : rmData.elems[e].key = RmUid(i)
      /\ \A i \in G : FirstOfPair(i) =>
           \E e \in 1..len : /\ rmData.elems[e] = [key |-> RmUid(i), value |-> inst.rmFile[i].weights]
                             /\ \A d \in 1..(e - 1) : rmData.elems[d].key # RmUid(i)
  BY <1>1 DEF FilesInv, RmDataFilled
<1>7. GoodLines(line - 1)' = G \cup (IF IsGoodPair(l) THEN {line} ELSE {}) /\ \A i \in G : i \in 1..(line - 1)
  <2>1. line' - 1 = line
    BY <1>1, <1>2
  <2>2. GoodLines(line - 1)' = GoodLines(line)
    BY <1>1, <2>1 DEF GoodLines, IsGoodPair, KnownSource, HasTarget, Specials
  <2>3. 1..line = (1..(line - 1)) \cup {line} /\ line \notin 1..(line - 1)
    BY <1>2
  <2> DEFINE Good(i) == IsGoodPair(inst.rmFile[i])
  <2>4. \A k : GoodLines(k) = {i \in 1..k : Good(i)}
    BY DEF GoodLines
  <2>5. IsGoodPair(l) <=> Good(line)
    OBVIOUS
  <2> HIDE DEF Good, l
  <2>6. GoodLines(line) = G \cup (IF Good(line) THEN {line} ELSE {}) /\ \A i \in G : i \in 1..(line - 1)
    BY <2>3, <2>4
  <2>7. QED
    BY <2>2, <2>5, <2>6
<1>8. \A i : RmUid(i)' = RmUid(i) /\ (FirstOfPair(i)' <=> FirstOfPair(i)) /\ inst'.rmFile = inst.rmFile
  BY <1>1 DEF RmUid, FirstOfPair
<1> HIDE DEF uid, w, l, G
<1>9. RmDataFilled'
  <2>1. CASE IsGoodPair(l)
    <3>1. len + 1 < n
      <4> DEFINE k == line - 1
                 N == Len(inst.rmFile)
      <4>1. k \in Nat /\ line = k + 1 /\ N \in Nat /\ k + 1 <= N /\ k + 1 \in Nat /\ k <= k
        BY <1>2
      <4>2. len = Cardinality(GoodLines(k)) /\ rmCount = Cardinality(GoodLines(N)) /\ IsGoodPair(inst.rmFile[k + 1])
        BY <1>2, <2>1, <4>1 DEF G, l
      <4> HIDE DEF k, N, len
      <4>3. /\ Cardinality(GoodLines(k)) \in 0..k
            /\ Cardinality(GoodLines(k + 1)) = Cardinality(GoodLines(k)) + 1
        BY <4>1, <4>2, GoodLinesCount
      <4>4. Cardinality(GoodLines(k + 1)) <= Cardinality(GoodLines(N))
        BY <4>1, GoodLinesCount
      <4>5. Cardinality(GoodLines(N)) \in 0..N
        <5>1. N <= N
          BY <4>1
        <5>2. QED
          BY <4>1, <5>1, GoodLinesCount
      <4>6. QED
        BY <1>3, <4>1, <4>2, <4>3, <4>4, <4>5
    <3>2. \A key \in Uids : Hash(key) \in Nat
      BY DEF HashIsNat
    <3>3. new.elems = Append(rmData.elems, [key |-> uid, value |-> w])
      BY <1>3, <1>4, <3>1, <3>2, AddNewElementOK
    <3>4. rmData.elems \in Seq([key : Uids, value : Weights])
      BY <1>3 DEF MapOK
    <3> DEFINE elems == rmData'.elems
    <3>5. elems = Append(rmData.elems, [key |-> uid, value |-> w])
      BY <1>1, <2>1, <3>3
    <3>6. /\ len \in Nat /\ Len(elems) = len + 1 /\ \A e \in 1..len : elems[e] = rmData.elems[e]
          /\ elems[len + 1] = [key |-> uid, value |-> w]
      BY <3>4, <3>5
    <3> HIDE DEF elems, new
    <3>7. 1..Len(elems) = 1..len \cup {len + 1}
      BY <3>6
    <3>8. GoodLines(line - 1)' = G \cup {line}
      BY <1>7, <2>1
    <3>9. \A e \in 1..Len(elems) : \E i \in G \cup {line} : elems[e].key = RmUid(i)
      <4>1. ASSUME NEW e \in 1..len PROVE \E i \in G : elems[e].key = RmUid(i)
        BY <1>6, <3>6
      <4>2. elems[len + 1].key = RmUid(line)
        BY <1>5, <3>6
      <4>3. QED
        BY <3>7, <4>1, <4>2
    <3>10. ASSUME NEW i \in G \cup {line}, FirstOfPair(i)
           PROVE  \E e \in 1..Len(elems) :
                    /\ elems[e] = [key |-> RmUid(i), value |-> inst.rmFile[i].weights]
                    /\ \A d \in 1..(e - 1) : elems[d].key # RmUid(i)
      <4>1. CASE i \in G
        <5>1. PICK e \in 1..len :
                /\ rmData.elems[e] = [key |-> RmUid(i), value |-> inst.rmFile[i].weights]
                /\ \A d \in 1..(e - 1) : rmData.elems[d].key # RmUid(i)
          BY <1>6, <3>10, <4>1
        <5>2. e \in 1..Len(elems) /\ \A d \in 1..(e - 1) : d \in 1..len
          BY <3>6, <3>7
        <5>3. QED
          BY <3>6, <5>1, <5>2
      <4>2. CASE i = line
        <5>1. \A d \in 1..len : elems[d].key # RmUid(i)
          <6>1. ASSUME NEW d \in 1..len PROVE elems[d].key # RmUid(i)
            <7>1. PICK j \in G : rmData.elems[d].key = RmUid(j)
              BY <1>6
            <7>2. j \in 1..(i - 1)
              BY <1>7, <4>2
            <7>3. RmUid(j) # RmUid(i)
              BY <3>10, <7>2 DEF FirstOfPair
            <7>4. QED
              BY <3>6, <7>1, <7>3
          <6>2. QED
            BY <6>1
        <5>2. len + 1 \in 1..Len(elems) /\ 1..(len + 1 - 1) = 1..len
          BY <3>6, <3>7
        <5>3. elems[len + 1] = [key |-> RmUid(i), value |-> inst.rmFile[i].weights]
          BY <1>5, <3>6, <4>2 DEF w, l
        <5>4. QED
          BY <5>1, <5>2, <5>3
      <4>3. QED
        BY <4>1, <4>2
    <3>11. line' <= Len(inst'.rmFile) + 1
      BY <1>1, <1>2
    <3>12. QED
      BY <1>1, <1>8, <3>8, <3>9, <3>10, <3>11 DEF RmDataFilled, elems
  <2>2. CASE ~IsGoodPair(l)
    <3>1. rmData' = rmData /\ GoodLines(line - 1)' = G
      BY <1>1, <1>7, <2>2
    <3>2. line' <= Len(inst'.rmFile) + 1
      BY <1>1, <1>2
    <3> DEFINE elems == rmData'.elems
    <3>3. elems = rmData.elems /\ len = Len(elems)
      BY <3>1
    <3> HIDE DEF elems, len
    <3>4. \A e \in 1..Len(elems) : \E i \in G : elems[e].key = RmUid(i)
      BY <1>6, <3>3
    <3>5. \A i \in G : FirstOfPair(i) =>
            \E e \in 1..Len(elems) : /\ elems[e] = [key |-> RmUid(i), value |-> inst.rmFile[i].weights]
                                     /\ \A d \in 1..(e - 1) : elems[d].key # RmUid(i)
      BY <1>6, <3>3
    <3>6. QED
      BY <1>1, <1>8, <3>1, <3>2, <3>4, <3>5 DEF RmDataFilled, elems
  <2>3. QED
    BY <2>1, <2>2
<1>10. ListsFilled' /\ TmDataFilled'
  BY <1>1, TmDataFilledStays
<1>11. LoadEnded'
  BY <1>1 DEF LoadEnded
<1>12. QED
  BY <1>9, <1>10, <1>11 DEF FilesInv

\* The loading ends.
LEMMA FindSpecialEntriesFiles ==
  ASSUME HashIsNat, TablesInv, FilesInv, FindSpecialEntries
  PROVE  FilesInv'
<1>1. /\ phase = "build" /\ phase' \in {"ready", "failed"} /\ line > Len(inst.rmFile)
      /\ phase' = IF NoElement \in {RmEntry(p, p) : p \in Specials} THEN "failed" ELSE "ready"
      /\ UNCHANGED <<inst, line, source, lists, tmData, toConvert, rmCount, rmData>>
  BY DEF FindSpecialEntries
<1>2. ListsFilled' /\ TmDataFilled'
  BY <1>1, TmDataFilledStays
<1>3. RmDataFilled'
  BY <1>1, RmDataFilledStays DEF FilesInv
<1>4. LoadEnded'
  <2>1. Len(inst.rmFile) \in Nat /\ line \in Nat /\ line <= Len(inst.rmFile) + 1
        /\ rmCount = Cardinality(GoodLines(Len(inst.rmFile))) /\ Len(rmData.elems) = Cardinality(GoodLines(line - 1))
    BY <1>1, InstanceOK DEF TablesInv, InstanceFields, RmCountOK
  <2>2. line = Len(inst.rmFile) + 1 /\ line - 1 = Len(inst.rmFile)
    BY <1>1, <2>1
  <2>3. phase' = "failed" => \E p \in Specials : RmEntry(p, p) = NoElement
    BY <1>1
  <2>4. QED
    BY <1>1, <2>1, <2>2, <2>3 DEF LoadEnded, RmEntry, Specials
<1>5. QED
  BY <1>2, <1>3, <1>4 DEF FilesInv

\* The tables stay as they were filled.
LEMMA FilesStay ==
  ASSUME FilesInv, UNCHANGED tableVars
  PROVE  FilesInv'
<1>1. UNCHANGED <<inst, phase, line, source, lists, tmData, toConvert, rmCount, rmData>>
  BY DEF tableVars
<1>2. ListsFilled'
  <2>1. TmRead' = TmRead /\ (phase' = "tm" => line' <= Len(inst'.tmFile) + 1)
    BY <1>1 DEF TmRead, FilesInv, ListsFilled
  <2>2. QED
    BY <1>1, <2>1, ListsFilledStays DEF FilesInv
<1>3. TmDataFilled'
  BY <1>1 DEF FilesInv, TmDataFilled
<1>4. RmDataFilled'
  <2>1. CASE phase \in {"build", "ready", "failed"}
    BY <1>1, <2>1, RmDataFilledStays DEF FilesInv
  <2>2. CASE phase \notin {"build", "ready", "failed"}
    BY <1>1, <2>2 DEF RmDataFilled
  <2>3. QED
    BY <2>1, <2>2
<1>5. LoadEnded'
  BY <1>1 DEF FilesInv, LoadEnded, RmEntry, Specials
<1>6. QED
  BY <1>2, <1>3, <1>4, <1>5 DEF FilesInv

\* Every step of the loading keeps what the tables hold of the files.
LEMMA FilesStep ==
  ASSUME HashIsNat, TablesInv, FilesInv, [Next]_vars
  PROVE  FilesInv'
<1>1. CASE ReadTmLine
  BY <1>1, ReadTmLineFiles
<1>2. CASE SetTmEntries
  BY <1>2, SetTmEntriesFiles
<1>3. CASE \E s \in toConvert : ConvertEntry(s)
  BY <1>3, ConvertEntryFiles
<1>4. CASE StartCounting \/ CountRmLine
  BY <1>4, CountingFiles
<1>5. CASE SetRmEntries
  BY <1>5, SetRmEntriesFiles
<1>6. CASE BuildRmLine
  BY <1>6, BuildRmLineFiles
<1>7. CASE FindSpecialEntries
  BY <1>7, FindSpecialEntriesFiles
<1>8. CASE UNCHANGED tableVars
  BY <1>8, FilesStay
<1>9. [Next]_vars => TablesNext \/ UNCHANGED tableVars
  BY DEF Next, LoadTables, DecoderStep, Translate, Stopped, QueryTranslationModel, ComputeFutureCosts,
         QueryReorderingModel, PerformTranslation, ExpandState, NextLevel, GetBestTrans, Stop,
         SetDecoderParams, Terminated, vars
<1>10. QED
  BY <1>1, <1>2, <1>3, <1>4, <1>5, <1>6, <1>7, <1>8, <1>9 DEF TablesNext

\* The cost of an entry is that of its best translation, or the undefined cost.
LEMMA SourceEntryCost ==
  ASSUME NEW list \in Seq(Targets), list # <<>>, NEW known \in BOOLEAN,
         \A i, j \in 1..Len(list) : i < j => TotalPlus(list[i]) >= TotalPlus(list[j])
  PROVE  SourceEntry(list, known).minCost =
           IF TotalPlus(list[1]) < UnknownCost THEN UnknownCost ELSE TotalPlus(list[1])
<1> DEFINE costs == {UnknownCost} \cup {TotalPlus(list[i]) : i \in 1..Len(list)}
           best == IF TotalPlus(list[1]) < UnknownCost THEN UnknownCost ELSE TotalPlus(list[1])
           IsMax(c) == \A d \in costs : d <= c
<1>1. Len(list) \in Nat /\ 1 \in 1..Len(list) /\ \A i \in 1..Len(list) : TotalPlus(list[i]) \in Int
  BY TotalPlusType, ElementOfSeq
<1>2. costs \subseteq Int /\ best \in costs
  BY <1>1 DEF UnknownCost
<1>3. IsMax(best)
  <2>1. ASSUME NEW i \in 1..Len(list) PROVE TotalPlus(list[i]) <= TotalPlus(list[1])
    <3>1. i = 1 \/ 1 < i
      OBVIOUS
    <3>2. QED
      BY <1>1, <3>1
  <2>2. \A i \in 1..Len(list) : TotalPlus(list[i]) <= best
    BY <1>1, <2>1 DEF UnknownCost
  <2>3. UnknownCost <= best
    BY <1>1 DEF UnknownCost
  <2>4. QED
    BY <2>2, <2>3
<1>4. SourceEntry(list, known).minCost = CHOOSE c \in costs : IsMax(c)
  BY DEF SourceEntry
<1> DEFINE max == CHOOSE c \in costs : IsMax(c)
<1> HIDE DEF best
<1>5. max \in costs /\ IsMax(max)
  <2> HIDE DEF IsMax, costs
  <2>1. QED
    BY <1>2, <1>3
<1> HIDE DEF max
<1>6. max <= best /\ best <= max /\ max \in Int /\ best \in Int
  BY <1>2, <1>3, <1>5
<1>7. max = best
  BY <1>6
<1>8. QED
  BY <1>4, <1>7 DEF best, max

\* What is found in the tables when they are loaded.
LEMMA SourcesFound ==
  ASSUME HashIsNat, TablesInv, FilesInv, phase \in {"ready", "failed"}, NEW s \in Sources
  PROVE  /\ PassingLines(s) = {} => KnownSource(s) = NoElement
         /\ PassingLines(s) # {} =>
              /\ KnownSource(s) # NoElement /\ HoldsBest(KnownSource(s).targets, PassingLines(s))
              /\ KnownSource(s).minCost = LET best == TotalPlus(KnownSource(s).targets[1])
                                          IN IF best < UnknownCost THEN UnknownCost ELSE best
<1>1. PassingLines(s) = PassingRead(s) /\ PassingLines(s) \in SUBSET (1..Len(inst.tmFile))
  BY DEF PassingLines, PassingRead, TmRead
<1>2. s \in Seq(Words) /\ Hash(s) \in Nat /\ InstanceFields(inst)
  <2>1. InstanceFields(inst)
    BY InstanceOK DEF TablesInv
  <2>2. s \in Seq(Words)
    BY <2>1, TmLineType DEF Sources
  <2>3. QED
    BY <2>1, <2>2 DEF HashIsNat
<1>3. PICK n \in Nat : MapOK(tmData, n, Seq(Words), KnownEntries)
  BY DEF TablesInv, TmDataOK
<1>4. /\ lists \in [DOMAIN lists -> Seq(Targets)] /\ toConvert = {}
      /\ \A e \in 1..Len(tmData.elems) :
           LET key == tmData.elems[e].key
           IN /\ key \in DOMAIN lists /\ lists[key] # <<>>
              /\ tmData.elems[e].value = SourceEntry(lists[key], TRUE)
      /\ \A t \in DOMAIN lists : lists[t] # <<>> => \E e \in 1..Len(tmData.elems) : tmData.elems[e].key = t
  <2>1. toConvert = {}
    BY DEF FilesInv, TmDataFilled
  <2>2. QED
    BY <2>1 DEF FilesInv, TmDataFilled, TablesInv, ListsOK
<1>5. IF PassingLines(s) = {} THEN s \in DOMAIN lists => lists[s] = <<>>
      ELSE s \in DOMAIN lists /\ HoldsBestSoFar(lists[s], PassingLines(s))
  BY <1>1 DEF FilesInv, ListsFilled
<1>6. \/ /\ \A e \in 1..Len(tmData.elems) : tmData.elems[e].key # s
         /\ KnownSource(s) = NoElement
      \/ \E e \in 1..Len(tmData.elems) : tmData.elems[e].key = s /\ KnownSource(s) = tmData.elems[e].value
  BY <1>2, <1>3, GetElementFinds DEF KnownSource
<1>7. CASE PassingLines(s) = {}
  BY <1>4, <1>5, <1>6, <1>7
<1>8. CASE PassingLines(s) # {}
  <2>1. s \in DOMAIN lists /\ HoldsBest(lists[s], PassingLines(s)) /\ lists[s] \in Seq(Targets)
    BY <1>4, <1>5, <1>8 DEF HoldsBestSoFar
  <2>2. lists[s] # <<>>
    BY <1>1, <1>2, <1>8, <2>1, BestNotEmpty
  <2>3. KnownSource(s) = SourceEntry(lists[s], TRUE)
    BY <1>4, <1>6, <2>1, <2>2
  <2>4. KnownSource(s).targets = lists[s] /\ KnownSource(s) \in Entries
    BY <2>1, <2>3, SourceEntryType
  <2>5. KnownSource(s) # NoElement
    BY <2>4, NoElementAssumption
  <2>6. \A i, j \in 1..Len(lists[s]) : i < j => TotalPlus(lists[s][i]) >= TotalPlus(lists[s][j])
    BY <2>1 DEF HoldsBest
  <2>7. KnownSource(s).minCost = IF TotalPlus(lists[s][1]) < UnknownCost THEN UnknownCost ELSE TotalPlus(lists[s][1])
    BY <2>1, <2>2, <2>3, <2>6, SourceEntryCost
  <2>8. QED
    BY <1>8, <2>1, <2>4, <2>5, <2>7
<1>9. QED
  BY <1>7, <1>8

LEMMA PairsFound ==
  ASSUME HashIsNat, TablesInv, FilesInv, phase \in {"ready", "failed"}, NEW i \in 1..Len(inst.rmFile)
  PROVE  /\ <<inst.rmFile[i].source, inst.rmFile[i].target>> \in Uids /\ inst.rmFile[i].weights \in Weights
         /\ IsGoodPair(inst.rmFile[i]) /\ FirstOfPair(i) =>
              RmEntry(inst.rmFile[i].source, inst.rmFile[i].target) = inst.rmFile[i].weights
         /\ ~IsGoodPair(inst.rmFile[i]) => RmEntry(inst.rmFile[i].source, inst.rmFile[i].target) = NoElement
<1> DEFINE l == inst.rmFile[i]
           uid == RmUid(i)
           elems == rmData.elems
<1>1. uid \in Uids /\ Hash(uid) \in Nat /\ inst.rmFile[i].weights \in Weights /\ Len(inst.rmFile) \in Nat
  BY InstanceOK, RmLineType DEF TablesInv, HashIsNat, RmUid, InstanceFields
<1>2. PICK n \in Nat : MapOK(rmData, n, Uids, Weights)
  BY DEF TablesInv, RmDataOK
<1>3. RmEntry(l.source, l.target) = GetElement(rmData, uid)
  BY DEF RmEntry, RmUid
<1>4. line - 1 = Len(inst.rmFile)
  BY <1>1 DEF FilesInv, LoadEnded
<1>5. /\ \A e \in 1..Len(elems) : \E j \in GoodLines(Len(inst.rmFile)) : elems[e].key = RmUid(j)
      /\ \A j \in GoodLines(Len(inst.rmFile)) : FirstOfPair(j) =>
           \E e \in 1..Len(elems) : /\ elems[e] = [key |-> RmUid(j), value |-> inst.rmFile[j].weights]
                                    /\ \A d \in 1..(e - 1) : elems[d].key # RmUid(j)
  BY <1>4 DEF FilesInv, RmDataFilled
<1>6. \/ /\ \A e \in 1..Len(elems) : elems[e].key # uid
         /\ GetElement(rmData, uid) = NoElement
      \/ \E e \in 1..Len(elems) : /\ elems[e].key = uid /\ \A d \in 1..e - 1 : elems[d].key # uid
                                  /\ GetElement(rmData, uid) = elems[e].value
  BY <1>1, <1>2, GetElementFinds
<1>7. ASSUME IsGoodPair(l), FirstOfPair(i) PROVE GetElement(rmData, uid) = l.weights
  <2>1. i \in GoodLines(Len(inst.rmFile))
    BY <1>7 DEF GoodLines
  <2>2. PICK e \in 1..Len(elems) : /\ elems[e] = [key |-> uid, value |-> l.weights]
                                   /\ \A d \in 1..(e - 1) : elems[d].key # uid
    BY <1>5, <1>7, <2>1
  <2> HIDE DEF uid, elems, l
  <2>3. PICK f \in 1..Len(elems) : /\ elems[f].key = uid /\ \A d \in 1..f - 1 : elems[d].key # uid
                                   /\ GetElement(rmData, uid) = elems[f].value
    BY <1>6, <2>2
  <2>4. e = f
    <3>1. ~(e < f) /\ ~(f < e)
      BY <2>2, <2>3
    <3>2. QED
      BY <3>1
  <2>5. QED
    BY <2>2, <2>3, <2>4
<1>8. ASSUME ~IsGoodPair(l) PROVE GetElement(rmData, uid) = NoElement
  <2>1. ASSUME NEW e \in 1..Len(elems), elems[e].key = uid PROVE FALSE
    <3>1. PICK j \in GoodLines(Len(inst.rmFile)) : RmUid(j) = uid
      BY <1>5, <2>1
    <3>2. IsGoodPair(inst.rmFile[j])
      BY DEF GoodLines
    <3>3. inst.rmFile[j].source = l.source /\ inst.rmFile[j].target = l.target
      BY <3>1 DEF RmUid
    <3>4. QED
      BY <1>8, <3>2, <3>3 DEF IsGoodPair
  <2>2. QED
    BY <1>6, <2>1
<1>9. QED
  BY <1>1, <1>3, <1>7, <1>8 DEF RmUid

\* The invariant implies what the tables promise.
LEMMA FilesMatch == HashIsNat /\ TablesInv /\ FilesInv => TablesMatchFiles
<1> SUFFICES ASSUME HashIsNat, TablesInv, FilesInv PROVE TablesMatchFiles
  OBVIOUS
<1>0. Len(inst.rmFile) \in Nat
  BY InstanceOK DEF TablesInv, InstanceFields
<1>1. ASSUME phase = "failed"
      PROVE  \E p \in Specials : \A i \in 1..Len(inst.rmFile) :
               <<inst.rmFile[i].source, inst.rmFile[i].target>> # <<p, p>>
  <2>1. PICK p \in Specials : RmEntry(p, p) = NoElement
    BY <1>1 DEF FilesInv, LoadEnded
  <2>2. ASSUME \E i \in 1..Len(inst.rmFile) : RmUid(i) = <<p, p>> PROVE FALSE
    <3> DEFINE same == {i \in 1..Len(inst.rmFile) : RmUid(i) = <<p, p>>}
    <3>1. same \in SUBSET Nat /\ same # {}
      BY <1>0, <2>2
    <3>2. PICK i \in same : \A j \in same : i <= j
      <4> HIDE DEF same
      <4>1. QED
        BY <3>1, MinExists
    <3>3. i \in 1..Len(inst.rmFile) /\ RmUid(i) = <<p, p>>
      OBVIOUS
    <3>4. FirstOfPair(i)
      <4>1. ASSUME NEW j \in 1..(i - 1), RmUid(j) = RmUid(i) PROVE FALSE
        <5>1. j \in 1..Len(inst.rmFile) /\ ~(i <= j)
          BY <1>0, <3>3
        <5>2. j \in same
          BY <3>3, <4>1, <5>1
        <5>3. QED
          BY <3>2, <5>1, <5>2
      <4>2. QED
        BY <4>1 DEF FirstOfPair
    <3> HIDE DEF same
    <3>5. inst.rmFile[i].source = p /\ inst.rmFile[i].target = p
      BY <3>3 DEF RmUid
    <3>6. IsGoodPair(inst.rmFile[i])
      BY <3>5 DEF IsGoodPair
    <3>7. inst.rmFile[i].weights \in Weights /\ RmEntry(p, p) = inst.rmFile[i].weights
      BY <1>1, <3>3, <3>4, <3>5, <3>6, PairsFound
    <3>8. inst.rmFile[i].weights \in Seq(Int)
      BY <3>7 DEF Weights
    <3>9. QED
      BY <2>1, <3>7, <3>8, NoElementAssumption
  <2>3. QED
    BY <2>1, <2>2 DEF RmUid
<1>2. ASSUME phase = "ready"
      PROVE  \A s \in Sources :
               IF PassingLines(s) = {} THEN KnownSource(s) = NoElement
               ELSE /\ KnownSource(s) # NoElement /\ HoldsBest(KnownSource(s).targets, PassingLines(s))
                    /\ KnownSource(s).minCost = LET best == TotalPlus(KnownSource(s).targets[1])
                                                IN IF best < UnknownCost THEN UnknownCost ELSE best
  BY <1>2, SourcesFound
<1>3. phase = "ready" => Len(rmData.elems) = rmCount
  BY DEF FilesInv, LoadEnded
<1>4. ASSUME phase = "ready", NEW i \in 1..Len(inst.rmFile)
      PROVE  LET l == inst.rmFile[i]
                 earlier == {j \in 1..i : inst.rmFile[j].source = l.source /\ inst.rmFile[j].target = l.target}
             IN IF IsGoodPair(l)
                THEN earlier = {i} => RmEntry(l.source, l.target) = l.weights
                ELSE RmEntry(l.source, l.target) = NoElement
  <2> DEFINE l == inst.rmFile[i]
             earlier == {j \in 1..i : inst.rmFile[j].source = l.source /\ inst.rmFile[j].target = l.target}
  <2>1. earlier = {i} => FirstOfPair(i)
    <3>1. ASSUME earlier = {i}, NEW j \in 1..(i - 1), RmUid(j) = RmUid(i) PROVE FALSE
      <4>1. j \in 1..i /\ j # i
        OBVIOUS
      <4>2. inst.rmFile[j].source = l.source /\ inst.rmFile[j].target = l.target
        BY <3>1 DEF RmUid
      <4>3. QED
        BY <3>1, <4>1, <4>2
    <3>2. QED
      BY <3>1 DEF FirstOfPair
  <2>2. /\ IsGoodPair(l) /\ FirstOfPair(i) => RmEntry(l.source, l.target) = l.weights
        /\ ~IsGoodPair(l) => RmEntry(l.source, l.target) = NoElement
    BY <1>4, PairsFound
  <2> HIDE DEF l, earlier
  <2>3. IF IsGoodPair(l) THEN earlier = {i} => RmEntry(l.source, l.target) = l.weights
        ELSE RmEntry(l.source, l.target) = NoElement
    BY <2>1, <2>2
  <2>4. QED
    BY <2>3 DEF l, earlier
<1>5. QED
  BY <1>1, <1>2, <1>3, <1>4 DEF TablesMatchFiles, Sources

-----------------------------------------------------------------------------
(* The theorems                                                              *)

\* The invariant implies TypeOK,
LEMMA TypeFromInv == DecoderInv => TypeOK
<1> SUFFICES ASSUME DecoderInv PROVE TypeOK
  OBVIOUS
<1>1. TablesInv /\ ControlOK /\ ParamsInv /\ QueriesOK
  BY DEF DecoderInv
<1>2. /\ phase \in {"tm", "convert", "count", "build", "ready", "failed"}
      /\ line \in Nat /\ rmCount \in 0..Len(inst.rmFile) /\ toConvert \subseteq DOMAIN lists
  BY <1>1 DEF TablesInv, ListsOK, RmCountOK
<1>3. params \in [distLimit : Int, threshold : Int, capacity : Nat \ {0}, penalty : Int]
  BY <1>1 DEF ParamsInv, DecoderParams
<1>4. ASSUME Decoding
      PROVE  /\ DOMAIN future = Spans /\ DOMAIN levels = 0..(NumWords + 1)
             /\ currLevel \in 0..(NumWords + 1) /\ currPos \in Nat \ {0}
  BY <1>1, <1>4 DEF DecoderInv, QueriesOK, LevelsOK, Stacks
<1>5. QED
  BY <1>1, <1>2, <1>3, <1>4 DEF TypeOK, ControlOK

\* LevelsKeepBest,
LEMMA LevelsFromInv == DecoderInv => LevelsKeepBest
<1> SUFFICES ASSUME DecoderInv, Decoding, NEW l \in DOMAIN levels
             PROVE  LET states == levels[l].states
                        best == states[1].total
                    IN /\ \E capacity \in Capacities : Len(states) <= capacity
                       /\ \A i \in 1..Len(states) :
                            /\ states[i].level = l /\ states[i].total >= levels[l].bound
                            /\ Cardinality(states[i].covered) = MinOf(l, NumWords)
                            /\ \A j \in (i + 1)..Len(states) :
                                 states[i].total >= states[j].total /\ ~SameSubproblem(states[i], states[j])
                       /\ commands = 0 => \A s \in offered[l] :
                            /\ states # <<>> /\ best >= s.total /\ levels[l].bound = best + params.threshold
                            /\ \/ Dominated(s, l)
                               \/ s.total < levels[l].bound
                               \/ Len(states) = params.capacity /\ Last(states).total >= s.total
  BY DEF LevelsKeepBest
<1> DEFINE states == levels[l].states
<1>1. l \in 0..(NumWords + 1) /\ LevelOK(levels[l], l)
  BY DEF DecoderInv, LevelsOK, Stacks
<1>2. /\ states \in Seq(StatesOf(l)) /\ Sorted(states) /\ Distinct(states)
      /\ \A i \in 1..Len(states) : states[i].total >= levels[l].bound
      /\ \E capacity \in Capacities : Len(states) <= capacity
  BY <1>1 DEF LevelOK
<1>3. ASSUME NEW i \in 1..Len(states)
      PROVE  /\ states[i].level = l /\ states[i].total >= levels[l].bound
             /\ Cardinality(states[i].covered) = MinOf(l, NumWords)
             /\ \A j \in (i + 1)..Len(states) :
                  states[i].total >= states[j].total /\ ~SameSubproblem(states[i], states[j])
  <2>1. states[i] \in StatesOf(l)
    BY <1>2, ElementOfSeq
  <2>2. \A j \in (i + 1)..Len(states) : j \in 1..Len(states) /\ i < j
    BY <1>2
  <2> HIDE DEF states
  <2>3. states[i].level = l /\ Cardinality(states[i].covered) = MinOf(l, NumWords)
    BY <2>1 DEF StatesOf
  <2>4. QED
    BY <1>2, <2>2, <2>3 DEF Sorted, Distinct
<1>4. ASSUME commands = 0, NEW s \in offered[l]
      PROVE  /\ states # <<>> /\ states[1].total >= s.total
             /\ levels[l].bound = states[1].total + params.threshold
             /\ \/ Dominated(s, l)
                \/ s.total < levels[l].bound
                \/ Len(states) = params.capacity /\ Last(states).total >= s.total
  <2>1. Keeps(levels[l], offered[l], params)
    BY <1>1, <1>4 DEF DecoderInv, LevelsOK
  <2>2. /\ states # <<>> /\ states[1].total >= s.total
        /\ levels[l].bound = BoundOf(states[1], params) /\ Kept(states, levels[l].bound, s, params)
    BY <1>4, <2>1 DEF Keeps
  <2>3. StoodFor(states, s) => Dominated(s, l)
    BY DEF StoodFor, Dominated
  <2>4. QED
    BY <2>2, <2>3 DEF Kept, BoundOf, Last
<1>5. QED
  BY <1>2, <1>3, <1>4

\* and ResultOK is UnstoppedTranslates.
LEMMA ResultFromInv == ResultOK => UnstoppedTranslates
  BY DEF ResultOK, UnstoppedTranslates, Translates, DisjointSpans

\* An unstopped search arrives: no level that it has passed is empty.
LEMMA ArrivalStep ==
  ASSUME HashIsNat, DecoderInv, LevelsReached, ResultOK, [Next]_vars
  PROVE  LevelsReached' /\ ResultOK'
<1>1. CASE LoadTables
  <2>1. phase # "ready" /\ pc' = pc
    BY <1>1 DEF LoadTables, decoderVars, TablesNext, ReadTmLine, SetTmEntries, ConvertEntry,
                StartCounting, CountRmLine, SetRmEntries, BuildRmLine, FindSpecialEntries
  <2>2. pc' = "idle"
    BY <2>1 DEF DecoderInv, ControlOK
  <2>3. QED
    BY <2>2 DEF LevelsReached, ResultOK
<1>2. CASE Translate
  <2>1. NumWords' = NumWords
    BY <1>2 DEF Translate, tableVars, NumWords
  <2>2. pc' = "query_tm" \/ (pc' = "done" /\ NumWords \notin 1..MaxWords)
    BY <1>2 DEF Translate, Ended
  <2>3. QED
    BY <2>1, <2>2 DEF LevelsReached, ResultOK
<1>3. CASE Stopped
  BY <1>3 DEF Stopped, Ended, LevelsReached, ResultOK
<1>4. CASE QueryTranslationModel \/ ComputeFutureCosts \/ QueryReorderingModel
  <2>1. pc' \in {"future", "query_rm", "perform"}
    BY <1>4 DEF QueryTranslationModel, ComputeFutureCosts, QueryReorderingModel
  <2>2. QED
    BY <2>1 DEF LevelsReached, ResultOK
<1>5. CASE PerformTranslation
  <2>1. pc' = "expand"
    BY <1>5 DEF PerformTranslation
  <2>2. QED
    BY <1>5, <2>1, PerformTranslationStep DEF ResultOK
<1>6. CASE ExpandState
  <2>1. pc' = "expand"
    BY <1>6 DEF ExpandState
  <2>2. QED
    BY <1>6, <2>1, ExpandStateStep DEF ResultOK
<1>7. CASE NextLevel
  <2>1. pc' = "expand"
    BY <1>7 DEF NextLevel
  <2>2. QED
    BY <1>7, <2>1, NextLevelStep DEF ResultOK
<1>8. CASE GetBestTrans
  BY <1>8, GetBestTransStep
<1>9. CASE Stop
  BY <1>9, StopStep
<1>10. CASE \E command \in inst.console : SetDecoderParams(command)
  BY <1>10, SetDecoderParamsStep
<1>11. CASE Terminated \/ UNCHANGED vars
  BY <1>11, StutterStep DEF Terminated
<1>12. QED
  BY <1>1, <1>2, <1>3, <1>4, <1>5, <1>6, <1>7, <1>8, <1>9, <1>10, <1>11 DEF Next, DecoderStep

\* Whatever the files, the hash maps are never given more elements than they have
\* buckets, so that their linear probing ends, and hold what they were given.
THEOREM TablesInvAlways == HashIsNat /\ Spec => []TablesInv
<1>1. DecoderInv => TablesInv
  BY DEF DecoderInv
<1>2. QED
  BY <1>1, DecoderInvAlways, PTL

\* Whatever the files, the order of their lines, the order of the conversion and the
\* collisions of the hashes, the loaded tables are what the files say: each source
\* phrase is found with its best translations, each pair of a kept translation with
\* the weights of its first line, nothing else is found, and the server only refuses
\* to start if a special phrase is missing.
THEOREM TablesMatchFilesAlways == HashIsNat /\ Spec => []TablesMatchFiles
<1>1. Init => FilesInv
  BY FilesInit DEF Init
<1>2. HashIsNat /\ TablesInv /\ FilesInv /\ [Next]_vars => FilesInv'
  BY FilesStep
<1>3. HashIsNat => HashIsNat'
  BY DEF HashIsNat
<1>4. QED
  BY <1>1, <1>2, <1>3, TablesInvAlways, FilesMatch, PTL DEF Spec

\* The decoder's variables have their types.
THEOREM TypeOKAlways == HashIsNat /\ Spec => []TypeOK
  BY TypeFromInv, DecoderInvAlways, PTL

\* The beam of every level stays sorted, recombined, above its bound and within a
\* capacity, and loses only what recombination, the bound or a full level excuse,
\* for any sentence, tables, parameters and orders of the console's commands.
THEOREM LevelsKeepBestAlways == HashIsNat /\ Spec => []LevelsKeepBest
  BY LevelsFromInv, DecoderInvAlways, PTL

\* A decoder that nobody stops ends with a translation in which every source word is
\* translated once, by a translation of the tables, or copied, unless the console takes
\* the limit of its search away: then the search need not arrive, see
\* NegativeLimitIsNoLimit.
THEOREM UnstoppedTranslatesAlways ==
  HashIsNat /\ Spec => []UnstoppedTranslates
<1>1. Init => LevelsReached /\ ResultOK
  <2>1. Init => ResultOK
    BY DEF Init, ResultOK
  <2>2. QED
    BY <2>1, InitDecoder
<1>2. HashIsNat /\ DecoderInv /\ LevelsReached /\ ResultOK /\ [Next]_vars
        => LevelsReached' /\ ResultOK'
  BY ArrivalStep
<1>3. HashIsNat => HashIsNat'
  BY DEF HashIsNat
<1>4. QED
  BY <1>1, <1>2, <1>3, DecoderInvAlways, ResultFromInv, PTL DEF Spec
=============================================================================
