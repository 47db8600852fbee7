--------------------------- MODULE LocalNodeProofs --------------------------
(***************************************************************************)
(* What the quorum predicates of LocalNode compute, for every table of     *)
(* nested quorum sets: isVBlocking is the dual of isQuorumSlice, both are  *)
(* monotone, and isQuorum finds a quorum exactly when there is one.        *)
(***************************************************************************)
EXTENDS LocalNode, Integers, Sequences, WellFoundedInduction, TLAPS

-----------------------------------------------------------------------------
(* Induction over the naturals and the existence of recursively defined    *)
(* functions, in a first-order form: the induction hypothesis is a set and *)
(* the recursive step is a function, so that a proof cites them like any   *)
(* other lemma.                                                            *)

(* A set of naturals that is not empty has a least member. *)
LEMMA LeastNatural ==
    ASSUME NEW S \in SUBSET Nat, S # {}
    PROVE  \E m \in S : \A k \in S : m <= k
<1>1. PICK m \in S : \A k \in S : ~(<<k, m>> \in OpToRel(<, Nat))
  BY Zenon, NatLessThanWellFounded, WFMin
<1>2. \A k \in S : ~(k < m)
  BY Zenon, <1>1 DEF OpToRel
<1> QED
  BY <1>2

(* Induction: a set that holds 0 and every successor of its members holds  *)
(* every natural number.                                                   *)
LEMMA SetInduction ==
    ASSUME NEW S, 0 \in S, \A n \in Nat : n \in S => n + 1 \in S
    PROVE  \A n \in Nat : n \in S
<1> DEFINE Out == Nat \ S
<1> SUFFICES ASSUME Out # {} PROVE FALSE
  OBVIOUS
<1>1. PICK m \in Out : \A k \in Out : m <= k
  <2> HIDE DEF Out
  <2> Out \in SUBSET Nat
    BY DEF Out
  <2> QED
    BY LeastNatural
<1>2. m # 0 /\ m - 1 \in Nat
  OBVIOUS
<1>3. m - 1 \in S
  BY <1>1, <1>2
<1> QED
  BY <1>2, <1>3

(* Sequences: their length and their elements. *)
LEMMA SeqElements ==
    ASSUME NEW S, NEW s \in Seq(S)
    PROVE  Len(s) \in Nat /\ DOMAIN s = 1..Len(s) /\ \A i \in 1..Len(s) : s[i] \in S
OBVIOUS

LEMMA SeqCons ==
    ASSUME NEW S, NEW e \in S, NEW s \in Seq(S)
    PROVE  /\ <<e>> \o s \in Seq(S) /\ Len(<<e>> \o s) = 1 + Len(s)
           /\ \A i \in 1..(1 + Len(s)) :
                 (<<e>> \o s)[i] = IF i <= 1 THEN e ELSE s[i - 1]
OBVIOUS

(* F[q][g], the value a recursion gives at q when g holds the other values, *)
(* depends on the values at smaller arguments only.                        *)
DependsBelow(F, S, T) ==
    \A q \in S : \A a, b \in [S -> T] :
        (\A i \in S : i < q => a[i] = b[i]) => F[q][a] = F[q][b]

(* A recursive definition over S: its step, and a solution of it. *)
RecursiveStep(F, S, T) ==
    F \in [S -> [[S -> T] -> T]] /\ DependsBelow(F, S, T)

Solves(g, F, S, T) == g \in [S -> T] /\ \A q \in S : g[q] = F[q][g]

(* A recursion in which every value depends only on the values at smaller  *)
(* arguments has a solution.                                               *)
LEMMA RecursionExists ==
    \A S \in SUBSET Nat :
    \A T :
    \A t \in T :
    \A F :
        RecursiveStep(F, S, T)
        => \E g : Solves(g, F, S, T)
<1> DEFINE SolvesBelow(n, g, F, S) == \A q \in S : q < n => g[q] = F[q][g]
<1> HIDE DEF SolvesBelow
<1> DEFINE AgreeBelow(n, g, h, S) == \A q \in S : q < n => g[q] = h[q]
<1> HIDE DEF AgreeBelow
  (* Two solutions of a recursion up to n agree below n. *)
<1>RecursionUnique.
    ASSUME NEW S \in SUBSET Nat, NEW T, NEW F, DependsBelow(F, S, T),
           NEW n \in Nat, NEW g \in [S -> T], NEW h \in [S -> T],
           SolvesBelow(n, g, F, S), SolvesBelow(n, h, F, S)
    PROVE  AgreeBelow(n, g, h, S)
  <2> USE <1>RecursionUnique
  <2> DEFINE Differ == {q \in S : q < n /\ g[q] # h[q]}
  <2> SUFFICES ASSUME Differ # {} PROVE FALSE
    BY DEF AgreeBelow
  <2>1. PICK m \in Differ : \A k \in Differ : m <= k
    <3> HIDE DEF Differ
    <3> Differ \in SUBSET Nat
      BY Zenon DEF Differ
    <3> QED
      BY LeastNatural
  <2>2. m \in S /\ m \in Nat /\ m < n /\ g[m] # h[m]
    OBVIOUS
  <2>3. ASSUME NEW i \in S, i < m PROVE g[i] = h[i]
    <3>1. i \in Nat /\ i < n /\ ~(m <= i)
      BY <2>2, <2>3
    <3> QED
      BY <2>1, <3>1
  <2>4. F[m][g] = F[m][h]
    BY <2>2, <2>3 DEF DependsBelow
  <2> QED
    BY <2>2, <2>4 DEF SolvesBelow
<1> SUFFICES ASSUME NEW S \in SUBSET Nat, NEW T, NEW t \in T,
                    NEW F, RecursiveStep(F, S, T)
             PROVE  \E g : Solves(g, F, S, T)
  OBVIOUS
<1> USE DEF RecursiveStep
<1> DEFINE Good == {n \in Nat : \E g \in [S -> T] : SolvesBelow(n, g, F, S)}
<1>1. \A n \in Nat : n \in Good
  <2>1. 0 \in Good
    <3> DEFINE g == [q \in S |-> t]
    <3>1. g \in [S -> T]
      OBVIOUS
    <3>2. \A q \in S : ~(q < 0)
      OBVIOUS
    <3>3. SolvesBelow(0, g, F, S)
      BY <3>2 DEF SolvesBelow
    <3> HIDE DEF g
    <3> QED
      BY <3>1, <3>3
  <2>2. ASSUME NEW n \in Nat, n \in Good PROVE n + 1 \in Good
    <3>1. PICK g \in [S -> T] : SolvesBelow(n, g, F, S)
      BY <2>2
    <3> DEFINE h == [q \in S |-> IF q = n THEN F[q][g] ELSE g[q]]
    <3>2. h \in [S -> T]
      OBVIOUS
    <3>3. ASSUME NEW q \in S, q < n + 1 PROVE h[q] = F[q][h]
      <4>1. ASSUME NEW i \in S, i < q PROVE h[i] = g[i]
        <5>1. i # n
          BY <3>3, <4>1
        <5> QED
          BY <5>1
      <4>2. F[q][h] = F[q][g]
        BY Zenon, <3>2, <4>1 DEF DependsBelow
      <4>3. h[q] = F[q][g]
        BY <3>1, <3>3 DEF SolvesBelow
      <4> QED
        BY <4>2, <4>3
    <3>4. SolvesBelow(n + 1, h, F, S)
      BY <3>3 DEF SolvesBelow
    <3>5. n + 1 \in Nat
      OBVIOUS
    <3> HIDE DEF h
    <3> QED
      BY <3>2, <3>4, <3>5
  <2> HIDE DEF Good
  <2> QED
    BY <2>1, <2>2, SetInduction
<1> DEFINE G(n) == CHOOSE g \in [S -> T] : SolvesBelow(n, g, F, S)
<1>2. \A n \in Nat : G(n) \in [S -> T] /\ SolvesBelow(n, G(n), F, S)
  BY <1>1
<1> HIDE DEF G
<1>3. ASSUME NEW q \in S, NEW n \in Nat, q < n PROVE G(n)[q] = G(q + 1)[q]
  <2>1. q + 1 \in Nat /\ q < q + 1 /\ q + 1 <= n
    BY <1>3
  <2>2. G(n) \in [S -> T] /\ G(q + 1) \in [S -> T]
    BY <1>2, <2>1
  <2>3. SolvesBelow(q + 1, G(q + 1), F, S)
    BY <1>2, <2>1
  <2>4. SolvesBelow(q + 1, G(n), F, S)
    <3>1. \A i \in S : i < q + 1 => i < n
      BY <2>1
    <3> QED
      BY <1>2, <3>1 DEF SolvesBelow
  <2>5. AgreeBelow(q + 1, G(n), G(q + 1), S)
    BY <2>1, <2>2, <2>3, <2>4, <1>RecursionUnique
  <2> QED
    BY <2>1, <2>5 DEF AgreeBelow
<1> DEFINE f == [q \in S |-> G(q + 1)[q]]
<1>4. f \in [S -> T]
  BY <1>2
<1>5. ASSUME NEW q \in S PROVE f[q] = F[q][f]
  <2>1. q + 1 \in Nat /\ q < q + 1 /\ G(q + 1) \in [S -> T]
    BY <1>2
  <2>2. \A i \in S : i < q => G(q + 1)[i] = f[i]
    BY <1>3, <2>1
  <2>3. F[q][G(q + 1)] = F[q][f]
    BY Zenon, <1>4, <2>1, <2>2 DEF DependsBelow
  <2>4. G(q + 1)[q] = F[q][G(q + 1)]
    BY <1>2, <2>1 DEF SolvesBelow
  <2> QED
    BY <2>3, <2>4
<1> HIDE DEF f
<1> QED
  BY <1>4, <1>5 DEF Solves

-----------------------------------------------------------------------------
(* Finite sets and what Cardinality counts. *)

(* Finite sets.  seq lists the elements of S, some perhaps several times. *)
Lists(seq, S) == seq \in Seq(S) /\ \A x \in S : \E i \in 1..Len(seq) : seq[i] = x

LEMMA FiniteListed ==
    ASSUME NEW S
    PROVE  IsFiniteSet(S) <=> \E seq : Lists(seq, S)
BY DEF IsFiniteSet, Lists

LEMMA FiniteImage ==
    ASSUME NEW A, IsFiniteSet(A), NEW f
    PROVE  IsFiniteSet({f[a] : a \in A})
<1> DEFINE B == {f[a] : a \in A}
<1>1. PICK seq : Lists(seq, A)
  BY FiniteListed
<1> DEFINE image == [i \in 1..Len(seq) |-> f[seq[i]]]
<1>2. Len(seq) \in Nat /\ \A i \in 1..Len(seq) : seq[i] \in A
  BY <1>1, SeqElements DEF Lists
<1>3. image \in Seq(B) /\ Len(image) = Len(seq)
  BY <1>2
<1>4. Lists(image, B)
  BY <1>1, <1>2, <1>3 DEF Lists
<1> QED BY <1>4, FiniteListed

LEMMA FiniteSubset ==
    ASSUME NEW A, IsFiniteSet(A), NEW B \in SUBSET A
    PROVE  IsFiniteSet(B)
<1>1. CASE B = {}
  <2>1. Lists(<<>>, B)
    BY <1>1 DEF Lists
  <2> QED BY <2>1, FiniteListed
<1>2. ASSUME NEW b \in B PROVE IsFiniteSet(B)
  <2> DEFINE f == [a \in A |-> IF a \in B THEN a ELSE b]
  <2>1. B = {f[a] : a \in A}
    BY <1>2
  <2> HIDE DEF f
  <2> QED BY <2>1, FiniteImage
<1> QED BY <1>1, <1>2

LEMMA FiniteUnion ==
    ASSUME NEW A, NEW B, IsFiniteSet(A), IsFiniteSet(B)
    PROVE  IsFiniteSet(A \cup B)
<1>1. PICK s : Lists(s, A)
  BY FiniteListed
<1>2. PICK t : Lists(t, B)
  BY FiniteListed
<1> DEFINE both == s \o t
<1>3. s \in Seq(A \cup B) /\ t \in Seq(A \cup B) /\ Len(s) \in Nat /\ Len(t) \in Nat
  BY <1>1, <1>2 DEF Lists
<1>4. /\ both \in Seq(A \cup B) /\ Len(both) = Len(s) + Len(t)
      /\ \A i \in 1..Len(s) : both[i] = s[i]
      /\ \A i \in 1..Len(t) : both[Len(s) + i] = t[i]
  BY <1>3
<1> HIDE DEF both
<1>5. ASSUME NEW x \in A PROVE \E i \in 1..Len(both) : both[i] = x
  <2>1. PICK i \in 1..Len(s) : s[i] = x
    BY <1>1 DEF Lists
  <2> QED BY <1>3, <1>4, <2>1
<1>6. ASSUME NEW x \in B PROVE \E i \in 1..Len(both) : both[i] = x
  <2>1. PICK i \in 1..Len(t) : t[i] = x
    BY <1>2 DEF Lists
  <2> QED BY <1>3, <1>4, <2>1
<1>7. Lists(both, A \cup B)
  BY <1>4, <1>5, <1>6 DEF Lists
<1> QED BY <1>7, FiniteListed

LEMMA FiniteSingleton ==
    ASSUME NEW x
    PROVE  IsFiniteSet({x})
<1>1. Lists(<<x>>, {x})
  BY DEF Lists
<1> QED BY <1>1, FiniteListed

LEMMA FiniteInterval ==
    ASSUME NEW n \in Nat
    PROVE  IsFiniteSet(0..n)
<1> DEFINE seq == [i \in 1..(n + 1) |-> i - 1]
<1>1. seq \in Seq(0..n) /\ Len(seq) = n + 1
  OBVIOUS
<1>2. ASSUME NEW x \in 0..n PROVE \E i \in 1..Len(seq) : seq[i] = x
  <2>1. x + 1 \in 1..Len(seq) /\ seq[x + 1] = x
    BY <1>1
  <2> QED BY <2>1
<1>3. Lists(seq, 0..n)
  BY Zenon, <1>1, <1>2 DEF Lists
<1> QED BY <1>3, FiniteListed

(* Induction over the subsets of a finite set. *)
LEMMA SubsetInduction ==
    ASSUME NEW A, IsFiniteSet(A), NEW S,
           {} \in S,
           \A T \in SUBSET A : \A x \in A \ T : T \in S => T \cup {x} \in S
    PROVE  \A T \in SUBSET A : T \in S
<1>1. PICK seq : Lists(seq, A)
  BY FiniteListed
<1>2. Len(seq) \in Nat /\ \A i \in 1..Len(seq) : seq[i] \in A
  BY <1>1, SeqElements DEF Lists
<1> DEFINE First(k) == {seq[i] : i \in {j \in 1..Len(seq) : j <= k}}
           Good == {k \in Nat : \A T \in SUBSET A : T \subseteq First(k) => T \in S}
<1>3. 0 \in Good
  <2>1. First(0) = {}
    BY <1>2
  <2> HIDE DEF First
  <2>2. \A T : T \subseteq First(0) => T = {}
    BY <2>1
  <2> QED BY Zenon, <2>2
<1>4. ASSUME NEW k \in Nat, k \in Good PROVE k + 1 \in Good
  <2> SUFFICES ASSUME NEW T \in SUBSET A, T \subseteq First(k + 1) PROVE T \in S
    OBVIOUS
  <2>1. CASE T \subseteq First(k)
    BY <1>4, <2>1
  <2>2. CASE ~(T \subseteq First(k))
    <3>1. PICK x \in T : x \notin First(k)
      BY <2>2
    <3>2. k + 1 \in 1..Len(seq) /\ x = seq[k + 1]
      BY <1>2, <3>1
    <3>3. T \ {x} \subseteq First(k)
      BY <1>2, <3>2
    <3>4. T \ {x} \in SUBSET A /\ T \ {x} \in S
      BY <1>4, <3>3
    <3>5. x \in A \ (T \ {x}) /\ T = (T \ {x}) \cup {x}
      BY <3>1
    <3> QED BY <3>4, <3>5
  <2> QED BY <2>1, <2>2
<1>5. Len(seq) \in Good
  <2> HIDE DEF Good
  <2> QED BY <1>2, <1>3, <1>4, SetInduction
<1>6. A \subseteq First(Len(seq))
  BY <1>1, <1>2 DEF Lists
<1> QED BY <1>5, <1>6

LEMMA CardinalityOne ==
    \A S :
        IsFiniteSet(S)
        => /\ Cardinality(S) \in Nat
           /\ \A x \in S : Cardinality(S) = 1 + Cardinality(S \ {x})
           /\ Cardinality({}) = 0 /\ (Cardinality(S) = 0 => S = {})
  (* The number of elements: the length of the shortest list. *)
<1> DEFINE Lengths(S) == {n \in Nat : \E seq : Lists(seq, S) /\ Len(seq) = n}
<1> HIDE DEF Lengths
<1> DEFINE Fewest(S) == CHOOSE n \in Lengths(S) : \A k \in Lengths(S) : n <= k
<1> HIDE DEF Fewest
<1>FewestListing.
    ASSUME NEW S, IsFiniteSet(S)
    PROVE  /\ Fewest(S) \in Nat /\ \E seq : Lists(seq, S) /\ Len(seq) = Fewest(S)
           /\ \A seq : Lists(seq, S) => Fewest(S) <= Len(seq)
  <2> USE <1>FewestListing
  <2>1. PICK seq : Lists(seq, S)
    BY FiniteListed
  <2>2. \A s : Lists(s, S) => Len(s) \in Lengths(S)
    BY SeqElements DEF Lists, Lengths
  <2>3. Lengths(S) \in SUBSET Nat /\ Lengths(S) # {}
    BY <2>1, <2>2 DEF Lengths
  <2>4. \E n \in Lengths(S) : \A k \in Lengths(S) : n <= k
    BY <2>3, LeastNatural
  <2>5. Fewest(S) \in Lengths(S) /\ \A k \in Lengths(S) : Fewest(S) <= k
    BY <2>4, Zenon DEF Fewest
  <2> QED BY <2>2, <2>5 DEF Lengths
<1>FewestOne.
    ASSUME NEW S, IsFiniteSet(S), NEW x \in S
    PROVE  Fewest(S) = 1 + Fewest(S \ {x})
  <2> USE <1>FewestOne
  <2> DEFINE R == S \ {x}
  <2>1. IsFiniteSet(R)
    BY FiniteSubset
  <2>2. PICK s : Lists(s, S) /\ Len(s) = Fewest(S)
    BY <1>FewestListing
  <2>3. PICK r : Lists(r, R) /\ Len(r) = Fewest(R)
    BY <2>1, <1>FewestListing
  <2>4. Fewest(S) \in Nat /\ Fewest(R) \in Nat
    BY <2>1, <1>FewestListing
  <2>5. Fewest(S) <= 1 + Fewest(R)
    <3> DEFINE t == <<x>> \o r
    <3>1. r \in Seq(S)
      BY <2>3, <2>4 DEF Lists
    <3>2. /\ t \in Seq(S) /\ Len(t) = 1 + Len(r)
          /\ \A i \in 1..(1 + Len(r)) : t[i] = IF i <= 1 THEN x ELSE r[i - 1]
      BY <3>1, SeqCons
    <3> HIDE DEF t
    <3>5. Len(r) \in Nat
      BY <2>3, <2>4
    <3>3. ASSUME NEW y \in S PROVE \E i \in 1..Len(t) : t[i] = y
      <4>1. CASE y = x
        <5>1. 1 \in 1..Len(t) /\ t[1] = x
          BY <3>2, <3>5
        <5> QED BY <4>1, <5>1
      <4>2. CASE y # x
        <5>1. PICK i \in 1..Len(r) : r[i] = y
          BY Zenon, <2>3, <4>2 DEF Lists
        <5>2. i + 1 \in 1..Len(t) /\ t[i + 1] = y
          BY <3>2, <3>5, <5>1
        <5> QED BY <5>2
      <4> QED BY <4>1, <4>2
    <3>4. Lists(t, S)
      BY <3>2, <3>3 DEF Lists
    <3> QED BY <2>3, <3>2, <3>4, <1>FewestListing
  <2>6. 1 + Fewest(R) <= Fewest(S)
    <3>1. PICK k \in 1..Len(s) : s[k] = x
      BY <2>2 DEF Lists
    <3>2. Len(s) \in Nat \ {0} /\ \A i \in 1..Len(s) : s[i] \in S
      BY <2>2, <2>4, <3>1, SeqElements DEF Lists
    <3>3. CASE R = {}
      <4>1. Lists(<<>>, R) /\ Len(<<>>) = 0
        BY <3>3 DEF Lists
      <4> QED BY <2>1, <2>2, <2>4, <3>2, <4>1, <1>FewestListing
    <3>4. ASSUME NEW y \in R PROVE 1 + Fewest(R) <= Fewest(S)
      <4> DEFINE At(i) == IF i < k THEN s[i] ELSE s[i + 1]
                 t == [i \in 1..(Len(s) - 1) |-> IF At(i) = x THEN y ELSE At(i)]
      <4>1. \A i \in 1..(Len(s) - 1) : At(i) \in S
        BY <3>1, <3>2
      <4>2. t \in Seq(R) /\ Len(t) = Len(s) - 1
        <5> HIDE DEF At
        <5> QED BY <3>2, <3>4, <4>1
      <4>3. ASSUME NEW z \in R PROVE \E i \in 1..Len(t) : t[i] = z
        <5>1. PICK i \in 1..Len(s) : s[i] = z
          BY <2>2, <4>3 DEF Lists
        <5>2. i # k
          BY <3>1, <4>3, <5>1
        <5>3. CASE i < k
          <6>1. i \in 1..Len(t) /\ t[i] = z
            BY <3>1, <3>2, <4>2, <4>3, <5>1, <5>3
          <6> QED BY <6>1
        <5>4. CASE i > k
          <6>1. i - 1 \in 1..Len(t) /\ t[i - 1] = z
            BY <3>1, <3>2, <4>2, <4>3, <5>1, <5>4
          <6> QED BY <6>1
        <5>5. i < k \/ i > k
          BY <3>2, <5>2
        <5> HIDE DEF t
        <5> QED BY <5>3, <5>4, <5>5
      <4>4. Lists(t, R)
        BY <4>2, <4>3 DEF Lists
      <4> QED BY <2>1, <2>2, <2>4, <3>2, <4>2, <4>4, <1>FewestListing
    <3> QED BY Zenon, <3>3, <3>4
  <2> QED BY <2>4, <2>5, <2>6
<1>CardinalityIsFewest.
    ASSUME NEW S, IsFiniteSet(S)
    PROVE  Cardinality(S) = Fewest(S)
  <2> USE <1>CardinalityIsFewest
  <2> DEFINE D == SUBSET S
             Rec(f, T) == IF T = {} THEN 0 ELSE 1 + f[T \ {CHOOSE x : x \in T}]
             CS == CHOOSE f : f = [T \in D |-> Rec(f, T)]
             g == [T \in D |-> Fewest(T)]
  <2>1. Cardinality(S) = CS[S]
    BY DEF Cardinality
  <2>2. ASSUME NEW T \in D
        PROVE  /\ IsFiniteSet(T) /\ Fewest(T) \in Nat
               /\ T # {} => LET c == CHOOSE x : x \in T
                            IN  T \ {c} \in D /\ Fewest(T) = 1 + Fewest(T \ {c})
    <3>1. IsFiniteSet(T)
      BY FiniteSubset
    <3>2. T # {} => (CHOOSE x : x \in T) \in T
      BY Zenon
    <3> QED BY Zenon, <3>1, <3>2, <1>FewestListing, <1>FewestOne
  <2>3. Fewest({}) = 0
    <3>1. Lists(<<>>, {}) /\ Len(<<>>) = 0
      BY DEF Lists
    <3>2. Fewest({}) \in Nat /\ Fewest({}) <= 0
      BY <3>1, FiniteListed, <1>FewestListing
    <3> QED BY <3>2
  <2>4. g = [T \in D |-> Rec(g, T)]
    BY Zenon, <2>2, <2>3
  <2>5. CS = [T \in D |-> Rec(CS, T)]
    <3> HIDE DEF Rec, g
    <3> QED BY <2>4, Zenon
  <2> HIDE DEF CS
  <2> DEFINE Bad == {n \in Nat : \E T \in D : Fewest(T) = n /\ CS[T] # Fewest(T)}
  <2>6. CASE Bad = {}
    BY Zenon, <2>1, <2>2, <2>6
  <2>7. CASE Bad # {}
    <3>1. PICK n \in Bad : \A m \in Bad : n <= m
      <4>1. Bad \in SUBSET Nat
        OBVIOUS
      <4> HIDE DEF Bad
      <4> QED BY <2>7, <4>1, LeastNatural
    <3>2. PICK T \in D : Fewest(T) = n /\ CS[T] # Fewest(T)
      BY <3>1
    <3> DEFINE U == T \ {CHOOSE x : x \in T}
    <3>3. CS[T] = IF T = {} THEN 0 ELSE 1 + CS[U]
      BY <2>5
    <3>4. T # {}
      BY <2>3, <3>2, <3>3
    <3>5. U \in D /\ Fewest(T) = 1 + Fewest(U) /\ Fewest(U) \in Nat /\ Fewest(T) \in Nat
      BY <2>2, <3>4
    <3> HIDE DEF U
    <3>6. CS[U] = Fewest(U)
      <4>1. Fewest(U) \notin Bad
        BY <3>1, <3>2, <3>5
      <4> QED BY <3>5, <4>1
    <3> QED BY <3>2, <3>3, <3>4, <3>5, <3>6
  <2> QED BY <2>6, <2>7
<1> SUFFICES ASSUME NEW S, IsFiniteSet(S)
             PROVE  /\ Cardinality(S) \in Nat
                    /\ \A x \in S : Cardinality(S) = 1 + Cardinality(S \ {x})
                    /\ Cardinality({}) = 0 /\ (Cardinality(S) = 0 => S = {})
  OBVIOUS
<1>1. \A T \in SUBSET S : IsFiniteSet(T)
  BY FiniteSubset
<1>2. \A T \in SUBSET S : Cardinality(T) = Fewest(T) /\ Fewest(T) \in Nat
  BY <1>1, <1>CardinalityIsFewest, <1>FewestListing
<1>3. \A x \in S : Fewest(S) = 1 + Fewest(S \ {x})
  BY <1>FewestOne
<1>4. Fewest({}) = 0
  <2>1. Lists(<<>>, {}) /\ Len(<<>>) = 0
    BY DEF Lists
  <2>2. Fewest({}) \in Nat /\ Fewest({}) <= 0
    BY <2>1, FiniteListed, <1>FewestListing
  <2> QED BY <2>2
<1>5. Cardinality(S) = Fewest(S) /\ Fewest(S) \in Nat /\ Cardinality({}) = 0
  BY <1>2, <1>4
<1>6. ASSUME NEW x \in S
      PROVE  Cardinality(S) = 1 + Cardinality(S \ {x}) /\ Cardinality(S) # 0
  <2> DEFINE R == S \ {x}
  <2>1. R \in SUBSET S /\ Fewest(S) = 1 + Fewest(R)
    BY <1>3
  <2> HIDE DEF R
  <2>2. Cardinality(R) = Fewest(R) /\ Fewest(R) \in Nat
    BY <1>2, <2>1
  <2>3. Cardinality(S) = 1 + Cardinality(R) /\ Cardinality(S) # 0
    BY <1>5, <2>1, <2>2
  <2> QED BY <2>3 DEF R
<1> QED BY Zenon, <1>5, <1>6

(* A finite set has as many elements as its two parts together. *)
LEMMA CardinalityParts ==
    ASSUME NEW S, IsFiniteSet(S), NEW A \in SUBSET S
    PROVE  /\ Cardinality(S) = Cardinality(A) + Cardinality(S \ A)
           /\ Cardinality(S) \in Nat /\ Cardinality(A) \in Nat /\ Cardinality(S \ A) \in Nat
           /\ Cardinality(A) = Cardinality(S) => A = S
<1> DEFINE Good == {T \in SUBSET S : Cardinality(S) = Cardinality(T) + Cardinality(S \ T)}
<1>1. ASSUME NEW T \in SUBSET S
      PROVE  IsFiniteSet(T) /\ IsFiniteSet(S \ T)
             /\ Cardinality(T) \in Nat /\ Cardinality(S \ T) \in Nat
  <2>1. IsFiniteSet(T) /\ IsFiniteSet(S \ T)
    BY FiniteSubset
  <2> QED BY <2>1, CardinalityOne
<1>2. {} \in Good
  <2>1. S \ {} = S /\ Cardinality({}) = 0 /\ Cardinality(S) \in Nat
    BY CardinalityOne
  <2> QED BY <2>1
<1>3. ASSUME NEW T \in SUBSET S, NEW x \in S \ T, T \in Good PROVE T \cup {x} \in Good
  <2> DEFINE U == T \cup {x}
  <2>1. U \in SUBSET S /\ x \in U /\ U \ {x} = T /\ x \in S \ T /\ (S \ T) \ {x} = S \ U
    OBVIOUS
  <2>2. IsFiniteSet(U) /\ IsFiniteSet(S \ T)
    BY Zenon, <1>1, <2>1
  <2> HIDE DEF U
  <2>3. Cardinality(U) = 1 + Cardinality(T)
    <3>1. Cardinality(U) = 1 + Cardinality(U \ {x})
      BY <2>1, <2>2, CardinalityOne
    <3> QED BY Zenon, <2>1, <3>1
  <2>4. Cardinality(S \ T) = 1 + Cardinality(S \ U)
    <3>1. Cardinality(S \ T) = 1 + Cardinality((S \ T) \ {x})
      BY Zenon, <2>1, <2>2, CardinalityOne
    <3> QED BY Zenon, <2>1, <3>1
  <2>5. /\ Cardinality(T) \in Nat /\ Cardinality(S \ U) \in Nat
        /\ Cardinality(S) = Cardinality(T) + Cardinality(S \ T)
    BY <1>1, <1>3, <2>1
  <2>6. Cardinality(S) = Cardinality(U) + Cardinality(S \ U)
    BY <2>3, <2>4, <2>5
  <2> QED BY <2>1, <2>6 DEF U
<1>4. A \in Good
  <2> HIDE DEF Good
  <2> QED BY Zenon, <1>2, <1>3, SubsetInduction
<1>5. ASSUME Cardinality(A) = Cardinality(S) PROVE A = S
  <2> DEFINE R == S \ A
  <2>1. /\ IsFiniteSet(R) /\ Cardinality(R) \in Nat /\ Cardinality(A) \in Nat
        /\ Cardinality(S) = Cardinality(A) + Cardinality(R)
    BY Zenon, <1>1, <1>4
  <2>2. R = {}
    <3> HIDE DEF R
    <3>1. Cardinality(R) = 0
      BY <1>5, <2>1
    <3> QED BY Zenon, <2>1, <3>1, CardinalityOne
  <2> QED BY <2>2
<1>6. Cardinality(S) \in Nat
  BY CardinalityOne
<1> QED BY Zenon, <1>1, <1>4, <1>5, <1>6

LEMMA CardinalitySubset ==
    ASSUME NEW S, IsFiniteSet(S), NEW A \in SUBSET S
    PROVE  /\ Cardinality(A) \in Nat /\ Cardinality(S) \in Nat
           /\ Cardinality(A) <= Cardinality(S)
           /\ Cardinality(A) = Cardinality(S) => A = S
<1>1. /\ Cardinality(S) = Cardinality(A) + Cardinality(S \ A)
      /\ Cardinality(S) \in Nat /\ Cardinality(A) \in Nat /\ Cardinality(S \ A) \in Nat
      /\ Cardinality(A) = Cardinality(S) => A = S
  BY Zenon, CardinalityParts
<1> QED BY <1>1

LEMMA FiniteFamily ==
    ASSUME NEW A, IsFiniteSet(A), \A T \in A : IsFiniteSet(T)
    PROVE  IsFiniteSet(UNION A)
<1> DEFINE S == {F \in SUBSET A : IsFiniteSet(UNION F)}
<1>1. {} \in S
  <2>1. {} \in SUBSET A /\ UNION {} = {} /\ IsFiniteSet({})
    BY FiniteSubset
  <2> QED BY <2>1
<1>2. ASSUME NEW F \in SUBSET A, NEW T \in A \ F, F \in S
      PROVE  F \cup {T} \in S
  <2>1. UNION (F \cup {T}) = (UNION F) \cup T
    OBVIOUS
  <2>2. IsFiniteSet((UNION F) \cup T)
    BY <1>2, FiniteUnion
  <2> QED BY Zenon, <2>1, <2>2
<1>3. A \in S
  <2> HIDE DEF S
  <2> QED BY Zenon, <1>1, <1>2, SubsetInduction
<1> QED BY <1>3

-----------------------------------------------------------------------------
(* LocalNode::isQuorumSliceInternal satisfies its recursion: a quorum set   *)
(* is satisfied when enough of its validators and inner sets are.          *)
LEMMA SliceUnfolds ==
    ASSUME NEW nodeSet
    PROVE  \A q \in QSetId :
             isQuorumSliceInternal(q, nodeSet)
               = (Cardinality(QSets[q].validators \cap nodeSet)
                    + Cardinality({i \in QSets[q].innerSets :
                                     isQuorumSliceInternal(i, nodeSet)})
                    >= QSets[q].threshold)
<1> DEFINE Entries(g, q) == Cardinality(QSets[q].validators \cap nodeSet)
                              + Cardinality({i \in QSets[q].innerSets : g[i]})
           Step == [q \in QSetId |->
                      [g \in [QSetId -> BOOLEAN] |->
                         Entries(g, q) >= QSets[q].threshold]]
           Sat == CHOOSE g : g = [q \in QSetId |->
                                    Entries(g, q) >= QSets[q].threshold]
<1>1. QSetId \in SUBSET Nat
  BY QSetAssumption
<1>2. \A q \in QSetId : isQuorumSliceInternal(q, nodeSet) = Sat[q]
  BY DEF isQuorumSliceInternal
<1>3. Step \in [QSetId -> [[QSetId -> BOOLEAN] -> BOOLEAN]]
  OBVIOUS
<1>4. DependsBelow(Step, QSetId, BOOLEAN)
  <2> SUFFICES ASSUME NEW q \in QSetId,
                      NEW a \in [QSetId -> BOOLEAN], NEW b \in [QSetId -> BOOLEAN],
                      \A i \in QSetId : i < q => a[i] = b[i]
               PROVE  Step[q][a] = Step[q][b]
    BY Zenon DEF DependsBelow
  <2>1. \A i \in QSets[q].innerSets : i \in QSetId /\ i < q
    BY QSetAssumption
  <2>2. {i \in QSets[q].innerSets : a[i]} = {i \in QSets[q].innerSets : b[i]}
    BY <2>1
  <2> QED
    BY <2>2
<1>5. PICK g : Solves(g, Step, QSetId, BOOLEAN)
  <2>1. RecursiveStep(Step, QSetId, BOOLEAN)
    BY <1>3, <1>4 DEF RecursiveStep
  <2> HIDE DEF Step
  <2> QED
    BY Zenon, <1>1, <2>1, TRUE \in BOOLEAN, RecursionExists
<1>6. g = [q \in QSetId |-> Entries(g, q) >= QSets[q].threshold]
  BY <1>5 DEF Solves
<1>7. Sat = [q \in QSetId |-> Entries(Sat, q) >= QSets[q].threshold]
  <2> HIDE DEF Entries
  <2> QED
    BY <1>6
<1> HIDE DEF Sat
<1>8. \A q \in QSetId : Sat[q] = (Entries(Sat, q) >= QSets[q].threshold)
  BY Zenon, <1>7
<1>9. \A q \in QSetId :
         {i \in QSets[q].innerSets : Sat[i]}
           = {i \in QSets[q].innerSets : isQuorumSliceInternal(i, nodeSet)}
  BY <1>2, QSetAssumption
<1> QED
  BY <1>2, <1>8, <1>9

(* LocalNode::isVBlockingInternal satisfies its recursion: a quorum set is   *)
(* blocked when too few of its validators and inner sets are left.         *)
LEMMA BlockingUnfolds ==
    ASSUME NEW nodeSet
    PROVE  \A q \in QSetId :
             isVBlockingInternal(q, nodeSet)
               = (Cardinality(QSets[q].validators \cap nodeSet)
                    + Cardinality({i \in QSets[q].innerSets :
                                     isVBlockingInternal(i, nodeSet)})
                    + QSets[q].threshold
                    > Cardinality(QSets[q].validators)
                        + Cardinality(QSets[q].innerSets))
<1> DEFINE Entries(g, q) == Cardinality(QSets[q].validators \cap nodeSet)
                              + Cardinality({i \in QSets[q].innerSets : g[i]})
                              + QSets[q].threshold
           Size(q) == Cardinality(QSets[q].validators)
                        + Cardinality(QSets[q].innerSets)
           Step == [q \in QSetId |->
                      [g \in [QSetId -> BOOLEAN] |->
                         Entries(g, q) > Size(q)]]
           Blocked == CHOOSE g : g = [q \in QSetId |->
                                    Entries(g, q) > Size(q)]
<1>1. QSetId \in SUBSET Nat
  BY QSetAssumption
<1>2. \A q \in QSetId : isVBlockingInternal(q, nodeSet) = Blocked[q]
  BY DEF isVBlockingInternal
<1>3. Step \in [QSetId -> [[QSetId -> BOOLEAN] -> BOOLEAN]]
  OBVIOUS
<1>4. DependsBelow(Step, QSetId, BOOLEAN)
  <2> SUFFICES ASSUME NEW q \in QSetId,
                      NEW a \in [QSetId -> BOOLEAN], NEW b \in [QSetId -> BOOLEAN],
                      \A i \in QSetId : i < q => a[i] = b[i]
               PROVE  Step[q][a] = Step[q][b]
    BY Zenon DEF DependsBelow
  <2>1. \A i \in QSets[q].innerSets : i \in QSetId /\ i < q
    BY QSetAssumption
  <2>2. {i \in QSets[q].innerSets : a[i]} = {i \in QSets[q].innerSets : b[i]}
    BY <2>1
  <2> QED
    BY <2>2
<1>5. PICK g : Solves(g, Step, QSetId, BOOLEAN)
  <2>1. RecursiveStep(Step, QSetId, BOOLEAN)
    BY <1>3, <1>4 DEF RecursiveStep
  <2> HIDE DEF Step
  <2> QED
    BY Zenon, <1>1, <2>1, TRUE \in BOOLEAN, RecursionExists
<1>6. g = [q \in QSetId |-> Entries(g, q) > Size(q)]
  BY <1>5 DEF Solves
<1>7. Blocked = [q \in QSetId |-> Entries(Blocked, q) > Size(q)]
  <2> HIDE DEF Entries
  <2> QED
    BY <1>6
<1> HIDE DEF Blocked
<1>8. \A q \in QSetId : Blocked[q] = (Entries(Blocked, q) > Size(q))
  BY Zenon, <1>7
<1>9. \A q \in QSetId :
         {i \in QSets[q].innerSets : Blocked[i]}
           = {i \in QSets[q].innerSets : isVBlockingInternal(i, nodeSet)}
  BY <1>2, QSetAssumption
<1> QED
  BY <1>2, <1>8, <1>9

(* The counts the predicates compare are natural numbers. *)
LEMMA QSetFinite ==
    ASSUME NEW q \in QSetId
    PROVE  /\ QSets[q].validators \in SUBSET Node
           /\ IsFiniteSet(QSets[q].validators)
           /\ IsFiniteSet(QSets[q].innerSets)
           /\ QSets[q].threshold \in Nat
<1>1. QSets[q].validators \in SUBSET Node /\ IsFiniteSet(Node)
  BY QSetAssumption
<1>2. IsFiniteSet(QSets[q].validators)
  BY <1>1, FiniteSubset
<1>3. q \in Nat /\ QSets[q].innerSets \in SUBSET Nat
        /\ \A i \in QSets[q].innerSets : i <= q
  <2>1. \A i \in QSets[q].innerSets : i \in QSetId /\ i < q
    BY QSetAssumption
  <2>2. \A i \in QSetId : i \in Nat
    BY QSetAssumption
  <2>3. \A i \in QSets[q].innerSets : i \in Nat /\ i <= q
    BY <2>1, <2>2
  <2> QED
    BY <2>2, <2>3
<1>4. IsFiniteSet(QSets[q].innerSets)
  <2>1. QSets[q].innerSets \in SUBSET (0..q)
    BY <1>3
  <2> QED BY <1>3, <2>1, FiniteInterval, FiniteSubset
<1>5. Cardinality(QSets[q].validators) \in Nat
        /\ Cardinality(QSets[q].innerSets) \in Nat
  BY Zenon, <1>2, <1>4, CardinalityOne
<1>6. QSets[q].threshold \in Nat
  BY <1>5, QSetAssumption
<1> QED
  BY <1>1, <1>2, <1>4, <1>6

(* More nodes satisfy whatever fewer nodes satisfy. *)
LEMMA SliceMonotone ==
    ASSUME NEW A, NEW B, A \subseteq B
    PROVE  \A q \in QSetId :
             isQuorumSliceInternal(q, A) => isQuorumSliceInternal(q, B)
<1> DEFINE Bad == {q \in QSetId : isQuorumSliceInternal(q, A)
                                    /\ ~isQuorumSliceInternal(q, B)}
<1> SUFFICES ASSUME Bad # {} PROVE FALSE
  OBVIOUS
<1>1. PICK q \in Bad : \A k \in Bad : q <= k
  <2> HIDE DEF Bad
  <2> Bad \in SUBSET Nat
    BY Zenon, QSetAssumption DEF Bad
  <2> QED
    BY LeastNatural
<1> DEFINE VA == QSets[q].validators \cap A
           VB == QSets[q].validators \cap B
           IA == {i \in QSets[q].innerSets : isQuorumSliceInternal(i, A)}
           IB == {i \in QSets[q].innerSets : isQuorumSliceInternal(i, B)}
<1>2. \A i \in QSets[q].innerSets : i \in QSetId /\ i \in Nat /\ q \in Nat /\ i < q
  BY Zenon, QSetAssumption
<1>3. IA \in SUBSET IB /\ VA \in SUBSET VB
  BY <1>1, <1>2
<1>4. IsFiniteSet(IB) /\ IsFiniteSet(VB) /\ QSets[q].threshold \in Nat
  BY QSetFinite, FiniteSubset
<1>5. /\ Cardinality(IA) <= Cardinality(IB)
      /\ Cardinality(VA) <= Cardinality(VB)
      /\ Cardinality(IA) \in Nat /\ Cardinality(IB) \in Nat
      /\ Cardinality(VA) \in Nat /\ Cardinality(VB) \in Nat
  <2> HIDE DEF IA, IB, VA, VB
  <2> QED
    BY Zenon, <1>3, <1>4, CardinalitySubset
<1>6. Cardinality(VA) + Cardinality(IA) >= QSets[q].threshold
  BY Zenon, SliceUnfolds
<1>7. ~(Cardinality(VB) + Cardinality(IB) >= QSets[q].threshold)
  BY Zenon, SliceUnfolds
<1> HIDE DEF IA, IB, VA, VB
<1> QED
  BY <1>4, <1>5, <1>6, <1>7

(* isVBlockingInternal and isQuorumSliceInternal count from the two ends:  *)
(* a set blocks exactly when the nodes outside of it are no slice.         *)
LEMMA BlockingIsDual ==
    ASSUME NEW B \in SUBSET Node
    PROVE  \A q \in QSetId :
             isVBlockingInternal(q, B) <=> ~isQuorumSliceInternal(q, Node \ B)
<1> DEFINE Bad == {q \in QSetId : ~(isVBlockingInternal(q, B)
                                     <=> ~isQuorumSliceInternal(q, Node \ B))}
<1> SUFFICES ASSUME Bad # {} PROVE FALSE
  OBVIOUS
<1>1. PICK q \in Bad : \A k \in Bad : q <= k
  <2> HIDE DEF Bad
  <2> Bad \in SUBSET Nat
    BY Zenon, QSetAssumption DEF Bad
  <2> QED
    BY LeastNatural
<1> DEFINE V == QSets[q].validators
           I == QSets[q].innerSets
           In == {i \in I : isQuorumSliceInternal(i, Node \ B)}
           Out == {i \in I : isVBlockingInternal(i, B)}
<1>2. \A i \in I : i \in QSetId /\ i \in Nat /\ q \in Nat /\ i < q
  BY Zenon, QSetAssumption
<1>3. In = I \ Out /\ I \cap Out = Out
  BY <1>1, <1>2
<1>4. V \cap (Node \ B) = V \ B
  BY QSetFinite
<1>5. IsFiniteSet(V) /\ IsFiniteSet(I) /\ QSets[q].threshold \in Nat
  BY QSetFinite
<1>6. /\ Cardinality(In) = Cardinality(I) - Cardinality(Out)
      /\ Cardinality(V \ B) = Cardinality(V) - Cardinality(V \cap B)
      /\ Cardinality(I) \in Nat /\ Cardinality(V) \in Nat
      /\ Cardinality(Out) \in Nat /\ Cardinality(V \cap B) \in Nat
  <2> HIDE DEF V, I, In, Out
  <2>1. Out \in SUBSET I /\ V \cap B \in SUBSET V /\ V \ (V \cap B) = V \ B
    BY <1>3
  <2>2. /\ Cardinality(I) = Cardinality(Out) + Cardinality(In)
        /\ Cardinality(I) \in Nat /\ Cardinality(Out) \in Nat /\ Cardinality(In) \in Nat
    BY Zenon, <1>3, <1>5, <2>1, CardinalityParts
  <2>3. /\ Cardinality(V) = Cardinality(V \cap B) + Cardinality(V \ (V \cap B))
        /\ Cardinality(V) \in Nat /\ Cardinality(V \cap B) \in Nat
        /\ Cardinality(V \ (V \cap B)) \in Nat
    BY Zenon, <1>5, <2>1, CardinalityParts
  <2>4. Cardinality(V) = Cardinality(V \cap B) + Cardinality(V \ B)
        /\ Cardinality(V \ B) \in Nat
    BY Zenon, <2>1, <2>3
  <2> QED
    BY <2>2, <2>3, <2>4
<1>7. isQuorumSliceInternal(q, Node \ B)
        <=> Cardinality(V \ B) + Cardinality(In) >= QSets[q].threshold
  BY Zenon, SliceUnfolds, <1>4
<1>8. isVBlockingInternal(q, B)
        <=> Cardinality(V \cap B) + Cardinality(Out) + QSets[q].threshold
              > Cardinality(V) + Cardinality(I)
  BY Zenon, BlockingUnfolds
<1>9. ~(isVBlockingInternal(q, B) <=> ~isQuorumSliceInternal(q, Node \ B))
  OBVIOUS
<1> HIDE DEF V, I, In, Out, Bad
<1> QED
  BY <1>5, <1>6, <1>7, <1>8, <1>9

(* The relations QuorumSlices and VBlocking are the two predicates. *)
LEMMA SliceRelation ==
    \A q \in QSetId : \A S \in SUBSET Node :
        /\ isQuorumSlice(q, S) <=> isQuorumSliceInternal(q, S)
        /\ isVBlocking(q, S) <=> isVBlockingInternal(q, S)
BY DEF isQuorumSlice, isVBlocking, QuorumSlices, VBlocking

(* LocalNode::isQuorum answers yes exactly when there is a quorum among P. *)
LEMMA QuorumMeaning ==
    \A P \in SUBSET Node, E \in SUBSET Node, q \in QSetId :
        isQuorum(q, P, E)
          <=> \E U \in SUBSET P :
                 /\ isQuorumSlice(q, U)
                 /\ \A m \in U \ E : isQuorumSlice(QSetOf[m], U)
  (* The passes of the loop of LocalNode::isQuorum. *)
<1> DEFINE LoopPasses(P, E) ==
               CHOOSE pass : pass = [k \in 0..Cardinality(Node) |->
                   IF k = 0 THEN P
                   ELSE {m \in pass[k - 1] : m \in E \/ isQuorumSlice(QSetOf[m], pass[k - 1])}]
<1> HIDE DEF LoopPasses
<1>LoopPassesUnfold.
    ASSUME NEW P \in SUBSET Node, NEW E \in SUBSET Node
    PROVE  /\ LoopPasses(P, E) \in [0..Cardinality(Node) -> SUBSET Node]
           /\ LoopPasses(P, E)[0] = P
           /\ \A k \in 1..Cardinality(Node) :
                 LoopPasses(P, E)[k] =
                   {m \in LoopPasses(P, E)[k - 1] :
                      m \in E \/ isQuorumSlice(QSetOf[m], LoopPasses(P, E)[k - 1])}
           /\ remainingNodes(P, E) = LoopPasses(P, E)[Cardinality(Node)]
  <2> DEFINE Dom == 0..Cardinality(Node)
             Kept(before) == {m \in before : m \in E \/ isQuorumSlice(QSetOf[m], before)}
             Step == [k \in Dom |-> [g \in [Dom -> SUBSET Node] |->
                        IF k = 0 THEN P ELSE Kept(g[k - 1])]]
  <2>1. Cardinality(Node) \in Nat /\ Dom \in SUBSET Nat
          /\ 0 \in Dom /\ Cardinality(Node) \in Dom
    BY QSetAssumption, CardinalityOne
  <2>2. \A k \in Dom : k # 0 => k - 1 \in Dom /\ k - 1 < k
    BY <2>1
  <2>3. \A S \in SUBSET Node : Kept(S) \in SUBSET Node
    OBVIOUS
  <2> HIDE DEF Dom
  <2>4. Step \in [Dom -> [[Dom -> SUBSET Node] -> SUBSET Node]]
    <3> HIDE DEF Kept
    <3> QED
      BY <2>2, <2>3
  <2>5. DependsBelow(Step, Dom, SUBSET Node)
    <3> SUFFICES ASSUME NEW k \in Dom,
                        NEW a \in [Dom -> SUBSET Node], NEW b \in [Dom -> SUBSET Node],
                        \A i \in Dom : i < k => a[i] = b[i]
                 PROVE  Step[k][a] = Step[k][b]
      BY Zenon DEF DependsBelow
    <3> HIDE DEF Kept
    <3> QED
      BY <2>2
  <2>6. PICK g : Solves(g, Step, Dom, SUBSET Node)
    <3>1. RecursiveStep(Step, Dom, SUBSET Node)
      BY <2>4, <2>5 DEF RecursiveStep
    <3> HIDE DEF Step
    <3> QED
      BY Zenon, <2>1, <3>1, RecursionExists
  <2> DEFINE Eqn(h) == h = [k \in Dom |-> IF k = 0 THEN P ELSE Kept(h[k - 1])]
  <2>7. Eqn(g)
    <3> HIDE DEF Kept
    <3> QED
      BY <2>6 DEF Solves
  <2>8. LoopPasses(P, E) = CHOOSE h : Eqn(h)
    BY DEF LoopPasses, Dom
  <2>9. Eqn(LoopPasses(P, E))
    <3> HIDE DEF Eqn
    <3> QED
      BY <2>7, <2>8
  <2>10. remainingNodes(P, E) = LoopPasses(P, E)[Cardinality(Node)]
    BY DEF remainingNodes, LoopPasses
  <2>11. \A k \in Dom : LoopPasses(P, E)[k] =
            IF k = 0 THEN P ELSE Kept(LoopPasses(P, E)[k - 1])
    <3> HIDE DEF Kept
    <3> QED
      BY Zenon, <2>9
  <2>12. LoopPasses(P, E) \in [Dom -> SUBSET Node]
    <3> DEFINE Typed == {k \in Nat : k \in Dom => LoopPasses(P, E)[k] \in SUBSET Node}
    <3>1. 0 \in Typed
      BY Zenon, <2>11
    <3>2. ASSUME NEW k \in Nat, k \in Typed PROVE k + 1 \in Typed
      <4>1. k + 1 \in Dom => k \in Dom /\ k + 1 # 0 /\ (k + 1) - 1 = k
        BY <2>1 DEF Dom
      <4>2. ASSUME k + 1 \in Dom PROVE LoopPasses(P, E)[k + 1] \in SUBSET Node
        <5>1. LoopPasses(P, E)[k + 1] = Kept(LoopPasses(P, E)[k])
          <6> HIDE DEF Kept
          <6> QED
            BY <2>11, <4>1, <4>2
        <5>2. LoopPasses(P, E)[k] \in SUBSET Node
          BY <3>2, <4>1, <4>2
        <5> QED
          BY <2>3, <5>1, <5>2
      <4> QED
        BY <4>2
    <3>3. \A k \in Nat : k \in Typed
      <4> HIDE DEF Typed
      <4> QED
        BY <3>1, <3>2, SetInduction
    <3>4. \A k \in Dom : LoopPasses(P, E)[k] \in SUBSET Node
      BY Zenon, <2>1, <3>3
    <3>5. LoopPasses(P, E) = [k \in Dom |-> LoopPasses(P, E)[k]]
      <4> HIDE DEF Kept
      <4> QED
        BY <2>9
    <3> QED
      BY <3>4, <3>5
  <2>13. \A k \in 1..Cardinality(Node) : k \in Dom /\ k # 0
    BY <2>1 DEF Dom
  <2> QED
    BY <2>1, <2>10, <2>11, <2>12, <2>13 DEF Dom
  (* One pass of the loop. *)
<1> DEFINE Kept(S, E) == {m \in S : m \in E \/ isQuorumSlice(QSetOf[m], S)}
<1> HIDE DEF Kept
  (* The nodes that remain when the loop of LocalNode::isQuorum ends: each   *)
  (* of them finds a slice of its own among them (or has externalized), and  *)
  (* no set with that property is left out.  The loop needs at most one pass *)
  (* for each node.                                                          *)
<1>RemainingIsGreatest.
    ASSUME NEW P \in SUBSET Node, NEW E \in SUBSET Node
    PROVE  /\ remainingNodes(P, E) \in SUBSET P
           /\ \A m \in remainingNodes(P, E) \ E :
                 isQuorumSlice(QSetOf[m], remainingNodes(P, E))
           /\ \A U \in SUBSET P :
                 (\A m \in U \ E : isQuorumSlice(QSetOf[m], U))
                   => U \subseteq remainingNodes(P, E)
  <2> DEFINE N == Cardinality(Node)
             pass == LoopPasses(P, E)
  <2>1. N \in Nat /\ IsFiniteSet(Node)
    BY QSetAssumption, CardinalityOne
  <2>2. /\ pass \in [0..N -> SUBSET Node]
        /\ pass[0] = P
        /\ \A k \in 1..N : pass[k] = Kept(pass[k - 1], E)
        /\ remainingNodes(P, E) = pass[N]
    BY Zenon, <1>LoopPassesUnfold DEF Kept
  <2> HIDE DEF pass, N
  <2>3. \A k \in Nat : k <= N =>
           /\ pass[k] \in SUBSET P
           /\ Kept(pass[k], E) = pass[k] \/ Cardinality(pass[k]) <= N - k
    <3> DEFINE Good == {k \in Nat : k <= N =>
                          /\ pass[k] \in SUBSET P
                          /\ Kept(pass[k], E) = pass[k] \/ Cardinality(pass[k]) <= N - k}
    <3>1. 0 \in Good
      <4>1. Cardinality(P) <= N
        BY Zenon, <2>1, CardinalitySubset DEF N
      <4> QED
        BY <2>1, <2>2, <4>1
    <3>2. ASSUME NEW k \in Nat, k \in Good PROVE k + 1 \in Good
      <4> SUFFICES ASSUME k + 1 <= N
                   PROVE  /\ pass[k + 1] \in SUBSET P
                          /\ \/ Kept(pass[k + 1], E) = pass[k + 1]
                             \/ Cardinality(pass[k + 1]) <= N - (k + 1)
        OBVIOUS
      <4>1. k <= N /\ k + 1 \in 1..N /\ (k + 1) - 1 = k /\ k \in 0..N
        BY <2>1
      <4>2. pass[k + 1] = Kept(pass[k], E)
        BY <2>2, <4>1
      <4>3. pass[k] \in SUBSET P /\ pass[k] \in SUBSET Node
        BY <2>2, <3>2, <4>1
      <4>4. pass[k + 1] \in SUBSET pass[k]
        BY <4>2 DEF Kept
      <4>5. CASE Kept(pass[k], E) = pass[k]
        BY <4>2, <4>3, <4>5
      <4>6. CASE Kept(pass[k], E) # pass[k]
        <5>1. Cardinality(pass[k]) <= N - k
          BY <3>2, <4>1, <4>6
        <5>2. IsFiniteSet(pass[k])
          BY <2>1, <4>3, FiniteSubset
        <5>3. /\ Cardinality(pass[k + 1]) <= Cardinality(pass[k])
              /\ Cardinality(pass[k]) # Cardinality(pass[k + 1])
              /\ Cardinality(pass[k]) \in Nat /\ Cardinality(pass[k + 1]) \in Nat
          BY Zenon, <4>2, <4>4, <4>6, <5>2, CardinalitySubset
        <5>4. Cardinality(pass[k + 1]) <= N - (k + 1)
          BY <2>1, <5>1, <5>3
        <5> QED
          BY <4>3, <4>4, <5>4
      <4> QED
        BY <4>5, <4>6
    <3>3. \A k \in Nat : k \in Good
      <4> HIDE DEF Good
      <4> QED
        BY <3>1, <3>2, SetInduction
    <3> QED
      BY <3>3
  <2>4. pass[N] \in SUBSET P /\ Kept(pass[N], E) = pass[N]
    <3>1. pass[N] \in SUBSET P
      BY <2>1, <2>3
    <3>2. CASE Cardinality(pass[N]) <= N - N
      <4>1. IsFiniteSet(pass[N])
        BY <2>1, <3>1, FiniteSubset
      <4>2. Cardinality(pass[N]) = 0
        BY <2>1, <3>2, <4>1, CardinalityOne
      <4>3. pass[N] = {}
        BY Zenon, <4>1, <4>2, CardinalityOne
      <4> QED
        BY <3>1, <4>3 DEF Kept
    <3> QED
      BY <2>1, <2>3, <3>1, <3>2
  <2>5. ASSUME NEW U \in SUBSET P, \A m \in U \ E : isQuorumSlice(QSetOf[m], U)
        PROVE  U \subseteq pass[N]
    <3> DEFINE Good == {k \in Nat : k <= N => U \subseteq pass[k]}
    <3>1. 0 \in Good
      BY <2>2
    <3>2. ASSUME NEW k \in Nat, k \in Good PROVE k + 1 \in Good
      <4> SUFFICES ASSUME k + 1 <= N PROVE U \subseteq pass[k + 1]
        OBVIOUS
      <4>1. k <= N /\ k + 1 \in 1..N /\ (k + 1) - 1 = k /\ k \in 0..N
        BY <2>1
      <4>2. pass[k + 1] = Kept(pass[k], E)
        BY <2>2, <4>1
      <4>3. U \subseteq pass[k] /\ pass[k] \in SUBSET Node
        BY <2>2, <3>2, <4>1
      <4>4. ASSUME NEW m \in U \ E PROVE isQuorumSlice(QSetOf[m], pass[k])
        <5>1. QSetOf[m] \in QSetId /\ U \in SUBSET Node
          BY QSetAssumption
        <5> QED
          BY <2>5, <4>3, <5>1, SliceRelation, SliceMonotone
      <4> QED
        BY <4>2, <4>3, <4>4 DEF Kept
    <3>3. \A k \in Nat : k \in Good
      <4> HIDE DEF Good
      <4> QED
        BY <3>1, <3>2, SetInduction
    <3> QED
      BY <2>1, <3>3
  <2> QED
    BY <2>2, <2>4, <2>5 DEF Kept
<1> SUFFICES ASSUME NEW P \in SUBSET Node, NEW E \in SUBSET Node, NEW q \in QSetId
             PROVE  isQuorum(q, P, E)
                      <=> \E U \in SUBSET P :
                             /\ isQuorumSlice(q, U)
                             /\ \A m \in U \ E : isQuorumSlice(QSetOf[m], U)
  OBVIOUS
<1> DEFINE R == remainingNodes(P, E)
<1>1. isQuorum(q, P, E) <=> isQuorumSlice(q, R)
  BY DEF isQuorum, Quorums
<1>2. /\ R \in SUBSET P
      /\ \A m \in R \ E : isQuorumSlice(QSetOf[m], R)
      /\ \A U \in SUBSET P :
            (\A m \in U \ E : isQuorumSlice(QSetOf[m], U)) => U \subseteq R
  BY <1>RemainingIsGreatest
<1> HIDE DEF R
<1>3. ASSUME NEW U \in SUBSET P, isQuorumSlice(q, U), U \subseteq R
      PROVE  isQuorumSlice(q, R)
  BY <1>2, <1>3, SliceRelation, SliceMonotone
<1> QED
  BY <1>1, <1>2, <1>3

(* More statements that pass the filter, or more externalized nodes, never *)
(* take a quorum away.                                                     *)
LEMMA QuorumMonotone ==
    ASSUME NEW q \in QSetId,
           NEW P \in SUBSET Node, NEW E \in SUBSET Node,
           NEW P2 \in SUBSET Node, NEW E2 \in SUBSET Node,
           P \subseteq P2, E \subseteq E2, isQuorum(q, P, E)
    PROVE  isQuorum(q, P2, E2)
<1>1. PICK U \in SUBSET P : /\ isQuorumSlice(q, U)
                            /\ \A m \in U \ E : isQuorumSlice(QSetOf[m], U)
  BY QuorumMeaning
<1>2. U \in SUBSET P2 /\ \A m \in U \ E2 : isQuorumSlice(QSetOf[m], U)
  BY <1>1
<1> QED
  BY <1>1, <1>2, QuorumMeaning

(* A sane quorum set is blocked by somebody, not by nobody. *)
LEMMA EmptyBlocksNothing ==
    \A q \in QSetId : ~isVBlocking(q, {})
<1> DEFINE Bad == {q \in QSetId : isVBlockingInternal(q, {})}
<1> SUFFICES ASSUME Bad # {} PROVE FALSE
  BY SliceRelation
<1>1. PICK q \in Bad : \A k \in Bad : q <= k
  <2> HIDE DEF Bad
  <2> Bad \in SUBSET Nat
    BY Zenon, QSetAssumption DEF Bad
  <2> QED
    BY LeastNatural
<1> DEFINE V == QSets[q].validators
           I == QSets[q].innerSets
<1>2. \A i \in I : i \in QSetId /\ i \in Nat /\ q \in Nat /\ i < q
  BY Zenon, QSetAssumption
<1>3. {i \in I : isVBlockingInternal(i, {})} = {} /\ V \cap {} = {}
  BY <1>1, <1>2
<1>4. Cardinality({}) = 0
  BY Zenon, QSetAssumption, CardinalityOne
<1>5. 0 + 0 + QSets[q].threshold > Cardinality(V) + Cardinality(I)
  BY Zenon, <1>3, <1>4, BlockingUnfolds
<1>6. QSets[q].threshold \in 1..(Cardinality(V) + Cardinality(I))
  BY QSetAssumption
<1>7. Cardinality(V) \in Nat /\ Cardinality(I) \in Nat
  BY QSetFinite, CardinalityOne
<1> HIDE DEF V, I
<1> QED BY <1>5, <1>6, <1>7
=============================================================================
